----------------------- MODULE BatchReplicationProofs -----------------------
(***************************************************************************)
(* Proofs about BatchReplication, for every set of slaves, every layout of *)
(* regions, every set of contents, both methods and every MaxEpoch.        *)
(*                                                                         *)
(* IInv is inductive (InitIInv, a lemma for each action, Invariance); the  *)
(* safety properties are consequences of it, or conjuncts.  From the same  *)
(* invariant follow NeverTakenBack, and that every step is a step of       *)
(* BatchOrder or leaves its variables unchanged.                           *)
(***************************************************************************)
EXTENDS BatchReplication, SequenceTheorems, TLAPS

(* The bound on the epochs, without the interval it is taken from, which   *)
(* the provers would expand.                                               *)
LEMMA MaxEpochNat == MaxEpoch \in Nat
  BY MaxEpochAssumption

USE MasterAssumption, MaxEpochNat

(* append_log at the end of the log adds one record and keeps the others.  *)
LEMMA AppendLog ==
  ASSUME NEW log, NEW batch, NEW n \in Nat, DOMAIN log = 0 .. n - 1
  PROVE  /\ DOMAIN append_log(log, batch, n) = 0 .. n
         /\ append_log(log, batch, n)[n] = batch
         /\ \A e \in 0 .. n - 1 : append_log(log, batch, n)[e] = log[e]
<1>1. DOMAIN log \cup {n} = 0 .. n
  OBVIOUS
<1>2. append_log(log, batch, n) =
        [e \in 0 .. n |-> IF e = n THEN batch ELSE log[e]]
  BY <1>1 DEF append_log
<1> QED
  BY <1>2

(* A scheduler's buffer is no longer than what is determined: its          *)
(* positions, counted from 0, are epochs of the master's log.              *)
LEMMA BufferRange ==
  ASSUME IInv, NEW r \in Replicas, NEW i \in DOMAIN write_tx_buffer[r]
  PROVE  i \in Nat /\ i - 1 \in 0 .. determined_epoch_id
<1>1. /\ write_tx_buffer[r] \in Seq(Batches)
      /\ i \in 1 .. Len(write_tx_buffer[r])
  BY DEF IInv, TypeOK, BufferType
<1>2. determined_epoch_id \in Int
  BY DEF IInv, TypeOK, EpochThreadType
<1>3. Len(write_tx_buffer[r]) <= determined_epoch_id + 1
  <2>1. CASE r = Master
    BY <1>2, <2>1 DEF IInv, BufferInv
  <2>2. CASE r \in Slaves
    BY <1>2, <2>2 DEF IInv, BufferInv, SlaveInv
  <2> QED
    BY <2>1, <2>2 DEF Replicas
<1> QED
  BY <1>1, <1>2, <1>3

(* What the invariant says of one batch message in the network.            *)
LEMMA BatchNetRange ==
  ASSUME IInv, NEW m \in batchNet
  PROVE  /\ m.dst \in Slaves
         /\ m.batch \in Batches
         /\ m.batch.epoch_id \in 0 .. determined_epoch_id
         /\ m.batch.epoch_id <= next_batch_epoch_id[m.dst]
         /\ m.batch = batch_log[Master][m.batch.epoch_id]
<1>1. m.dst \in Slaves /\ m.batch \in Batches
  BY DEF IInv, TypeOK, NetType
<1>2. m.batch.epoch_id \in 0 .. MaxEpoch
  BY <1>1 DEF Batches
<1>3. /\ m.batch.epoch_id <= determined_epoch_id
      /\ m.batch.epoch_id <= next_batch_epoch_id[m.dst]
      /\ m.batch = batch_log[Master][m.batch.epoch_id]
  BY DEF IInv, BatchNetInv
<1>4. determined_epoch_id \in Int
  BY DEF IInv, TypeOK, EpochThreadType
<1> QED
  BY <1>1, <1>2, <1>3, <1>4

(* The initial state satisfies the invariant.                              *)
LEMMA InitIInv == Init => IInv
<1> SUFFICES ASSUME Init PROVE IInv
  OBVIOUS
<1>1. EpochThreadType /\ SenderType /\ SlaveType /\ LogType /\ BufferType /\ NetType
  BY DEF Init, EpochThreadType, SenderType, SlaveType, LogType, BufferType, NetType
<1>2. NoHalt /\ EpochThreadInv /\ LogInv /\ SlaveInv /\ SenderInv
  BY DEF Init, NoHalt, EpochThreadInv, LogInv, SlaveInv, SenderInv, Replicas
<1>4. BatchNetInv /\ AckNetInv /\ RequestNetInv
  BY DEF Init, BatchNetInv, AckNetInv, RequestNetInv
<1>3. BufferInv
  BY DEF Init, BufferInv, Replicas
<1> QED
  BY <1>1, <1>2, <1>3, <1>4 DEF IInv, TypeOK

(* The epoch thread: closing a batch leaves the logs and positions alone.  *)
LEMMA CutBatchIInv == IInv /\ CutBatch => IInv'
<1> SUFFICES ASSUME IInv, CutBatch PROVE IInv'
  OBVIOUS
<1> USE DEF IInv, TypeOK
<1>1. /\ epoch_pc = "collect" /\ epoch_pc' = "append"
      /\ batch_epoch_id' = determined_epoch_id + 2
      /\ batch_epoch_id <= MaxEpoch
      /\ rev_batch' \in Batches
      /\ rev_batch'.epoch_id = batch_epoch_id
  BY DEF CutBatch, Batches, EpochThreadType
<1>2. /\ UNCHANGED <<determined_epoch_id, next_epoch_id, send_msg>>
      /\ UNCHANGED <<next_batch_epoch_id, batch_log, write_tx_buffer, status>>
      /\ UNCHANGED <<batchNet, ackNet, requestNet>>
  BY DEF CutBatch, senderVars, slaveVars, localVars, netVars
<1>3. EpochThreadType'
  BY <1>1, <1>2 DEF EpochThreadType, EpochThreadInv
<1>4. SenderType' /\ SlaveType' /\ LogType' /\ BufferType' /\ NetType'
  BY <1>2 DEF SenderType, SlaveType, LogType, BufferType, NetType
<1>5. EpochThreadInv'
  BY <1>1, <1>2, NoBatchAssumption DEF EpochThreadType, EpochThreadInv
<1>6. NoHalt' /\ LogInv'
  BY <1>2 DEF NoHalt, LogInv
<1>8. SlaveInv'
  BY <1>2 DEF SlaveInv
<1>9. SenderInv'
  BY <1>2 DEF SenderInv
<1>10. BatchNetInv' /\ AckNetInv' /\ RequestNetInv'
  BY <1>2 DEF BatchNetInv, AckNetInv, RequestNetInv
<1>7. BufferInv'
  BY <1>1, <1>2 DEF BufferInv
<1> QED
  BY <1>3, <1>4, <1>5, <1>6, <1>7, <1>8, <1>9, <1>10

(* The record goes to epoch determined_epoch_id + 1, which nobody reads    *)
(* yet; all older records stay.                                            *)
LEMMA AppendBatchIInv == IInv /\ AppendBatch => IInv'
<1> SUFFICES ASSUME IInv, AppendBatch PROVE IInv'
  OBVIOUS
<1> USE DEF IInv, TypeOK
<1>1. /\ epoch_pc = "append" /\ epoch_pc' = "determine"
      /\ UNCHANGED <<batch_epoch_id, rev_batch, determined_epoch_id>>
      /\ UNCHANGED <<next_epoch_id, send_msg, next_batch_epoch_id>>
      /\ UNCHANGED <<write_tx_buffer, status>>
      /\ UNCHANGED <<batchNet, ackNet, requestNet>>
  BY DEF AppendBatch, senderVars, slaveVars, netVars
<1>2. /\ rev_batch \in Batches
      /\ rev_batch.epoch_id = determined_epoch_id + 1
      /\ determined_epoch_id + 1 \in EpochIds
      /\ determined_epoch_id \in Int
  BY <1>1 DEF EpochThreadType, EpochThreadInv, Batches, EpochIds
<1>3. /\ DOMAIN batch_log' = Replicas
      /\ DOMAIN batch_log'[Master] = 0 .. determined_epoch_id + 1
      /\ batch_log'[Master][determined_epoch_id + 1] = rev_batch
      /\ \A e \in 0 .. determined_epoch_id :
           batch_log'[Master][e] = batch_log[Master][e]
      /\ \A s \in Slaves : batch_log'[s] = batch_log[s]
  <2>1. Master \in DOMAIN batch_log /\ \A s \in Slaves : s # Master
    BY DEF LogType, Replicas
  <2>2. DOMAIN batch_log[Master] = 0 .. determined_epoch_id
    BY <1>1 DEF EpochThreadInv
  <2>3. batch_log' = [batch_log EXCEPT ![Master] =
          append_log(batch_log[Master], rev_batch, determined_epoch_id + 1)]
    BY <1>2 DEF AppendBatch
  <2>4. /\ DOMAIN batch_log' = Replicas
        /\ batch_log'[Master] =
             append_log(batch_log[Master], rev_batch, determined_epoch_id + 1)
        /\ \A s \in Slaves : batch_log'[s] = batch_log[s]
    BY <2>1, <2>3 DEF LogType
  <2>5. determined_epoch_id + 1 \in Nat
    BY <1>2 DEF EpochIds
  <2> QED
    BY <1>2, <2>2, <2>4, <2>5, AppendLog
<1>4. EpochThreadType' /\ SenderType' /\ SlaveType' /\ BufferType' /\ NetType'
  BY <1>1 DEF EpochThreadType, SenderType, SlaveType, BufferType, NetType
<1>5. LogType'
  <2>1. ASSUME NEW e \in DOMAIN batch_log'[Master]
        PROVE  e \in EpochIds /\ batch_log'[Master][e] \in Batches
    BY <1>1, <1>2, <1>3, <2>1 DEF LogType, EpochThreadInv, EpochIds, Replicas
  <2> QED
    BY <1>3, <2>1 DEF LogType, Replicas
<1>6. EpochThreadInv'
  BY <1>1, <1>2, <1>3 DEF EpochThreadInv
<1>7. NoHalt'
  BY <1>1 DEF NoHalt
<1>8. LogInv'
  BY SMTT(60), <1>1, <1>2, <1>3 DEF LogInv, EpochThreadInv, Replicas
<1>9. SlaveInv'
  BY SMTT(60), <1>1, <1>2, <1>3 DEF SlaveInv, SlaveType
<1>10. BufferInv'
  <2>1. ASSUME NEW r \in Replicas, NEW i \in DOMAIN write_tx_buffer[r]
        PROVE  write_tx_buffer[r][i] = batch_log'[Master][i - 1]
    BY <1>3, BufferRange DEF BufferInv
  <2> QED
    BY <1>1, <2>1 DEF BufferInv
<1>11. SenderInv'
  BY <1>1, <1>2, <1>3 DEF SenderInv, SenderType
<1>12. BatchNetInv'
  BY <1>1, <1>3, BatchNetRange DEF BatchNetInv
<1>13. AckNetInv' /\ RequestNetInv'
  BY <1>1 DEF AckNetInv, RequestNetInv
<1> QED
  BY <1>4, <1>5, <1>6, <1>7, <1>8, <1>9, <1>10, <1>11, <1>12, <1>13

(* Only now, with the record written, does determined_epoch_id rise.       *)
LEMMA DetermineIInv == IInv /\ Determine => IInv'
<1> SUFFICES ASSUME IInv, Determine PROVE IInv'
  OBVIOUS
<1> USE DEF IInv, TypeOK
<1>1. /\ epoch_pc = "determine" /\ epoch_pc' = "enqueue"
      /\ determined_epoch_id' = determined_epoch_id + 1
      /\ UNCHANGED <<batch_epoch_id, rev_batch>>
      /\ UNCHANGED <<next_epoch_id, send_msg, next_batch_epoch_id>>
      /\ UNCHANGED <<batch_log, write_tx_buffer, status>>
      /\ UNCHANGED <<batchNet, ackNet, requestNet>>
  BY DEF Determine, senderVars, slaveVars, localVars, netVars
<1>2. determined_epoch_id \in Int /\ determined_epoch_id + 1 \in EpochIds
  <2>1. DOMAIN batch_log[Master] = 0 .. determined_epoch_id + 1
    BY <1>1 DEF EpochThreadInv
  <2>2. DOMAIN batch_log[Master] \subseteq EpochIds
    BY DEF LogType, Replicas
  <2> QED
    BY <2>1, <2>2 DEF EpochThreadType
<1>3. EpochThreadType'
  BY <1>1, <1>2 DEF EpochThreadType, EpochIds
<1>4. SenderType' /\ SlaveType' /\ LogType' /\ BufferType' /\ NetType'
  BY <1>1 DEF SenderType, SlaveType, LogType, BufferType, NetType
<1>5. EpochThreadInv'
  BY <1>1, <1>2 DEF EpochThreadInv, EpochIds
<1>6. NoHalt' /\ LogInv'
  BY <1>1 DEF NoHalt, LogInv
<1>7. SlaveInv'
  BY <1>1, <1>2 DEF SlaveInv, SlaveType
<1>8. BufferInv'
  BY <1>1, <1>2 DEF BufferInv
<1>9. SenderInv'
  BY <1>1, <1>2 DEF SenderInv, SenderType
<1>10. BatchNetInv'
  <2>1. ASSUME NEW m \in batchNet
        PROVE  m.batch.epoch_id <= determined_epoch_id + 1
    BY <1>2, BatchNetRange
  <2> QED
    BY <1>1, <2>1 DEF BatchNetInv
<1>11. AckNetInv' /\ RequestNetInv'
  BY <1>1 DEF AckNetInv, RequestNetInv
<1> QED
  BY <1>3, <1>4, <1>5, <1>6, <1>7, <1>8, <1>9, <1>10, <1>11

(* The closed batch is the last determined one: the next position of the   *)
(* master's own buffer.                                                    *)
LEMMA EnqueueIInv == IInv /\ Enqueue => IInv'
<1> SUFFICES ASSUME IInv, Enqueue PROVE IInv'
  OBVIOUS
<1> USE DEF IInv, TypeOK
<1>1. /\ epoch_pc = "enqueue" /\ epoch_pc' = "collect"
      /\ write_tx_buffer' = [write_tx_buffer EXCEPT
                               ![Master] = Append(@, rev_batch)]
      /\ UNCHANGED <<batch_epoch_id, rev_batch, determined_epoch_id>>
      /\ UNCHANGED <<next_epoch_id, send_msg, next_batch_epoch_id>>
      /\ UNCHANGED <<batch_log, status, batchNet, ackNet, requestNet>>
  BY DEF Enqueue, senderVars, slaveVars, netVars
<1>2. /\ determined_epoch_id \in Nat
      /\ batch_log[Master][determined_epoch_id] = rev_batch
      /\ rev_batch \in Batches
      /\ Len(write_tx_buffer[Master]) = determined_epoch_id
  <2>1. /\ determined_epoch_id \in Int /\ determined_epoch_id >= 0
        /\ batch_log[Master][determined_epoch_id] = rev_batch
        /\ DOMAIN batch_log[Master] = 0 .. determined_epoch_id
    BY <1>1 DEF EpochThreadType, EpochThreadInv
  <2>2. rev_batch \in Batches
    BY <2>1 DEF LogType, Replicas
  <2> QED
    BY <1>1, <2>1, <2>2 DEF BufferInv
<1>3. EpochThreadType' /\ SenderType' /\ SlaveType' /\ LogType' /\ NetType'
  BY <1>1 DEF EpochThreadType, SenderType, SlaveType, LogType, NetType
<1>4. BufferType'
  <2>1. write_tx_buffer[Master] \in Seq(Batches)
    BY DEF BufferType, Replicas
  <2>2. Append(write_tx_buffer[Master], rev_batch) \in Seq(Batches)
    BY <1>2, <2>1
  <2> QED
    BY <1>1, <2>2 DEF BufferType
<1>5. EpochThreadInv'
  BY <1>1, <1>2 DEF EpochThreadInv
<1>6. NoHalt' /\ LogInv'
  BY <1>1 DEF NoHalt, LogInv
<1>7. SlaveInv'
  BY <1>1 DEF SlaveInv
<1>8. BufferInv'
  <2>1. /\ write_tx_buffer'[Master] = Append(write_tx_buffer[Master], rev_batch)
        /\ \A s \in Slaves : write_tx_buffer'[s] = write_tx_buffer[s]
    BY <1>1 DEF BufferType, Replicas
  <2>2. write_tx_buffer[Master] \in Seq(Batches)
    BY DEF BufferType, Replicas
  <2>3. Len(write_tx_buffer'[Master]) = determined_epoch_id + 1
    BY <1>2, <2>1, <2>2
  <2>4. ASSUME NEW i \in DOMAIN write_tx_buffer'[Master]
        PROVE  write_tx_buffer'[Master][i] = batch_log[Master][i - 1]
    BY <1>2, <2>1, <2>2 DEF BufferInv, Replicas
  <2> QED
    BY <1>1, <2>1, <2>3, <2>4 DEF BufferInv, Replicas
<1>9. SenderInv'
  BY <1>1 DEF SenderInv
<1>10. BatchNetInv' /\ AckNetInv' /\ RequestNetInv'
  BY <1>1 DEF BatchNetInv, AckNetInv, RequestNetInv
<1> QED
  BY <1>3, <1>4, <1>5, <1>6, <1>7, <1>8, <1>9, <1>10

(* A sender thread only reads a determined epoch, so read_log returns.     *)
LEMMA BeginSendIInv ==
  ASSUME IInv, NEW s \in Slaves, BeginSend(s)
  PROVE  IInv'
<1> USE DEF IInv, TypeOK
<1>1. /\ determined_epoch_id >= next_epoch_id[s]
      /\ UNCHANGED <<epoch_pc, batch_epoch_id, rev_batch, determined_epoch_id>>
      /\ UNCHANGED <<next_epoch_id, next_batch_epoch_id>>
      /\ UNCHANGED <<batch_log, write_tx_buffer, ackNet, requestNet>>
  BY DEF BeginSend, epochVars, slaveVars, localVars
<1>2. /\ next_epoch_id[s] \in 0 .. determined_epoch_id
      /\ InLog(Master, next_epoch_id[s])
  <2>1. next_epoch_id[s] \in Nat /\ determined_epoch_id \in Int
    BY DEF SenderType, EpochThreadType
  <2> QED
    BY <1>1, <2>1 DEF InLog, EpochThreadInv
<1> DEFINE batch == batch_log[Master][next_epoch_id[s]]
<1>3. /\ send_msg' = [send_msg EXCEPT ![s] = batch]
      /\ batchNet' = batchNet \cup {BatchMsg(s, batch)}
      /\ UNCHANGED status
  BY <1>2 DEF BeginSend
<1>4. batch \in Batches /\ batch.epoch_id = next_epoch_id[s]
  BY <1>2 DEF InLog, LogType, LogInv, Replicas
<1>5. EpochThreadType' /\ SlaveType' /\ LogType' /\ BufferType'
  BY <1>1, <1>3 DEF EpochThreadType, SlaveType, LogType, BufferType
<1>6. SenderType'
  BY <1>1, <1>3, <1>4 DEF SenderType
<1>7. NetType'
  BY <1>1, <1>3, <1>4 DEF NetType, BatchMsg
<1>8. EpochThreadInv' /\ LogInv' /\ NoHalt'
  BY <1>1, <1>3 DEF EpochThreadInv, LogInv, NoHalt
<1>9. SlaveInv' /\ BufferInv'
  BY <1>1 DEF SlaveInv, BufferInv
<1>10. SenderInv'
  <2>1. ASSUME NEW t \in Slaves, t # s PROVE send_msg'[t] = send_msg[t]
    BY <1>3, <2>1 DEF SenderType
  <2>2. send_msg'[s] = batch
    BY <1>3 DEF SenderType
  <2> QED
    BY <1>1, <2>1, <2>2 DEF SenderInv
<1>11. BatchNetInv'
  <2>1. next_epoch_id[s] <= next_batch_epoch_id[s]
    BY DEF SenderInv
  <2> QED
    BY <1>1, <1>3, <1>4, <2>1 DEF BatchNetInv, BatchMsg
<1>12. AckNetInv' /\ RequestNetInv'
  BY <1>1 DEF AckNetInv, RequestNetInv
<1> QED
  BY <1>5, <1>6, <1>7, <1>8, <1>9, <1>10, <1>11, <1>12

(* A batch sent again is at most the one its slave expects.                *)
LEMMA ResendIInv ==
  ASSUME IInv, NEW s \in Slaves, Resend(s)
  PROVE  IInv'
<1> USE DEF IInv, TypeOK
<1>1. /\ send_msg[s] # NoBatch
      /\ batchNet' = batchNet \cup {BatchMsg(s, send_msg[s])}
      /\ UNCHANGED <<epoch_pc, batch_epoch_id, rev_batch, determined_epoch_id>>
      /\ UNCHANGED <<next_epoch_id, send_msg, next_batch_epoch_id, status>>
      /\ UNCHANGED <<batch_log, write_tx_buffer, ackNet, requestNet>>
  BY DEF Resend, epochVars, senderVars, slaveVars, localVars
<1>2. /\ next_epoch_id[s] \in 0 .. determined_epoch_id
      /\ next_epoch_id[s] <= next_batch_epoch_id[s]
      /\ send_msg[s] = batch_log[Master][next_epoch_id[s]]
      /\ send_msg[s] \in Batches
  <2>1. next_epoch_id[s] \in Nat /\ determined_epoch_id \in Int
    BY DEF SenderType, EpochThreadType
  <2>2. send_msg[s] \in Batches
    BY <1>1 DEF SenderType
  <2> QED
    BY <1>1, <2>1, <2>2 DEF SenderInv
<1>3. send_msg[s].epoch_id = next_epoch_id[s]
  <2>1. next_epoch_id[s] \in DOMAIN batch_log[Master]
    BY <1>2 DEF EpochThreadInv, EpochThreadType
  <2> QED
    BY <1>2, <2>1 DEF LogInv, Replicas
<1>4. EpochThreadType' /\ SenderType' /\ SlaveType' /\ LogType' /\ BufferType'
  BY <1>1 DEF EpochThreadType, SenderType, SlaveType, LogType, BufferType
<1>5. NetType'
  BY <1>1, <1>2 DEF NetType, BatchMsg
<1>6. EpochThreadInv' /\ LogInv' /\ NoHalt'
  BY <1>1 DEF EpochThreadInv, LogInv, NoHalt
<1>7. SlaveInv' /\ BufferInv' /\ SenderInv'
  BY <1>1 DEF SlaveInv, BufferInv, SenderInv
<1>8. BatchNetInv'
  <2>1. next_epoch_id[s] <= determined_epoch_id
    BY <1>2 DEF EpochThreadType
  <2> QED
    BY <1>1, <1>2, <1>3, <2>1 DEF BatchNetInv, BatchMsg
<1>9. AckNetInv' /\ RequestNetInv'
  BY <1>1 DEF AckNetInv, RequestNetInv
<1> QED
  BY <1>4, <1>5, <1>6, <1>7, <1>8, <1>9

(* An acknowledgement comes from the slave itself, so the position it moves*)
(* the sender to is not past the slave's own.                              *)
LEMMA RecvAckIInv ==
  ASSUME IInv, NEW s \in Slaves, RecvAck(s)
  PROVE  IInv'
<1> USE DEF IInv, TypeOK
<1>1. /\ send_msg' = [send_msg EXCEPT ![s] = NoBatch]
      /\ UNCHANGED <<epoch_pc, batch_epoch_id, rev_batch, determined_epoch_id>>
      /\ UNCHANGED <<next_batch_epoch_id, batch_log, write_tx_buffer, status>>
      /\ UNCHANGED <<batchNet, ackNet, requestNet>>
  BY DEF RecvAck, epochVars, slaveVars, localVars, netVars
<1>2. PICK m \in ackNet :
        /\ m.src = s
        /\ next_epoch_id' = [next_epoch_id EXCEPT ![s] = m.epoch_id + 1]
  BY DEF RecvAck
<1>3. /\ m.epoch_id \in Nat
      /\ m.epoch_id + 1 <= next_batch_epoch_id[s]
      /\ next_batch_epoch_id[s] \in 0 .. MaxEpoch + 1
  BY <1>2 DEF AckNetInv, NetType, EpochIds, SlaveType
<1>4. EpochThreadType' /\ SlaveType' /\ LogType' /\ BufferType' /\ NetType'
  BY <1>1 DEF EpochThreadType, SlaveType, LogType, BufferType, NetType
<1>5. SenderType'
  BY <1>1, <1>2, <1>3 DEF SenderType
<1>6. EpochThreadInv' /\ LogInv' /\ NoHalt'
  BY <1>1 DEF EpochThreadInv, LogInv, NoHalt
<1>7. SlaveInv' /\ BufferInv'
  BY <1>1 DEF SlaveInv, BufferInv
<1>8. SenderInv'
  <2>1. ASSUME NEW t \in Slaves, t # s
        PROVE  send_msg'[t] = send_msg[t] /\ next_epoch_id'[t] = next_epoch_id[t]
    BY <1>1, <1>2, <2>1 DEF SenderType
  <2>2. send_msg'[s] = NoBatch /\ next_epoch_id'[s] = m.epoch_id + 1
    BY <1>1, <1>2 DEF SenderType
  <2> QED
    BY <1>1, <1>3, <2>1, <2>2 DEF SenderInv
<1>9. BatchNetInv' /\ AckNetInv' /\ RequestNetInv'
  BY <1>1 DEF BatchNetInv, AckNetInv, RequestNetInv
<1> QED
  BY <1>4, <1>5, <1>6, <1>7, <1>8, <1>9

(* A slave that accepts a batch extends its log, its buffer and its        *)
(* position by that batch, which is the master's of this epoch.            *)
LEMMA AcceptBatchIInv ==
  ASSUME IInv, NEW s \in Slaves, NEW m, AcceptBatch(s, m)
  PROVE  IInv'
<1> USE DEF IInv, TypeOK
<1> DEFINE next == next_batch_epoch_id[s]
<1>1. /\ m \in batchNet /\ m.dst = s /\ m.batch.epoch_id = next
      /\ next_batch_epoch_id' = [next_batch_epoch_id EXCEPT ![s] = next + 1]
      /\ batch_log' = [batch_log EXCEPT
                         ![s] = append_log(batch_log[s], m.batch, next)]
      /\ write_tx_buffer' = [write_tx_buffer EXCEPT
                               ![s] = Append(write_tx_buffer[s], m.batch)]
      /\ ackNet' = ackNet \cup {AckMsg(r, s, next) : r \in {Master} \cup Peers(s)}
  BY DEF AcceptBatch
<1>2. /\ UNCHANGED <<epoch_pc, batch_epoch_id, rev_batch, determined_epoch_id>>
      /\ UNCHANGED <<next_epoch_id, send_msg, status, batchNet, requestNet>>
  BY DEF AcceptBatch, epochVars, senderVars
<1>3. /\ s # Master /\ s \in Replicas /\ Master \in Replicas
      /\ next \in 0 .. determined_epoch_id /\ next \in EpochIds
      /\ m.batch \in Batches
      /\ m.batch = batch_log[Master][next]
      /\ determined_epoch_id \in Int
  BY <1>1, BatchNetRange DEF EpochThreadType, EpochIds, Replicas
<1>4. /\ DOMAIN batch_log' = Replicas
      /\ DOMAIN batch_log'[s] = 0 .. next
      /\ batch_log'[s][next] = m.batch
      /\ \A e \in 0 .. next - 1 : batch_log'[s][e] = batch_log[s][e]
      /\ \A r \in Replicas \ {s} : batch_log'[r] = batch_log[r]
  <2>1. DOMAIN batch_log[s] = 0 .. next - 1
    BY DEF SlaveInv
  <2>2. /\ DOMAIN batch_log' = Replicas
        /\ batch_log'[s] = append_log(batch_log[s], m.batch, next)
        /\ \A r \in Replicas \ {s} : batch_log'[r] = batch_log[r]
    BY <1>1, <1>3 DEF LogType
  <2>3. next \in Nat
    BY <1>3
  <2> QED
    BY <2>1, <2>2, <2>3, AppendLog
<1>5. /\ next_batch_epoch_id'[s] = next + 1
      /\ \A t \in Slaves \ {s} : next_batch_epoch_id'[t] = next_batch_epoch_id[t]
      /\ \A t \in Slaves : next_batch_epoch_id[t] \in Nat
      /\ \A t \in Slaves : next_batch_epoch_id'[t] >= next_batch_epoch_id[t]
  BY <1>1 DEF SlaveType
<1>6. EpochThreadType' /\ SenderType'
  BY <1>2 DEF EpochThreadType, SenderType
<1>7. SlaveType'
  BY <1>1, <1>2, <1>3 DEF SlaveType, EpochIds
<1>8. LogType'
  <2>1. ASSUME NEW e \in DOMAIN batch_log'[s]
        PROVE  e \in EpochIds /\ batch_log'[s][e] \in Batches
    <3>1. CASE e = next
      BY <1>3, <1>4, <3>1
    <3>2. CASE e # next
      <4>1. e \in 0 .. next - 1 /\ e \in DOMAIN batch_log[s]
        BY <1>3, <1>4, <3>2 DEF SlaveInv
      <4> QED
        BY <1>3, <1>4, <4>1 DEF LogType
    <3> QED
      BY <3>1, <3>2
  <2> QED
    BY <1>4, <2>1 DEF LogType
<1>9. BufferType'
  <2>1. write_tx_buffer[s] \in Seq(Batches)
    BY <1>3 DEF BufferType
  <2>2. Append(write_tx_buffer[s], m.batch) \in Seq(Batches)
    BY <1>3, <2>1
  <2> QED
    BY <1>1, <2>2 DEF BufferType
<1>10. NetType'
  <2>1. \A r \in {Master} \cup Peers(s) :
          AckMsg(r, s, next) \in [dst : Replicas, src : Slaves, epoch_id : EpochIds]
    BY <1>3 DEF AckMsg, Peers, Replicas
  <2> QED
    BY <1>1, <1>2, <2>1 DEF NetType
<1>11. EpochThreadInv' /\ NoHalt'
  BY <1>2, <1>3, <1>4 DEF EpochThreadInv, NoHalt
<1>12. LogInv'
  <2>1. ASSUME NEW e \in DOMAIN batch_log'[s]
        PROVE  batch_log'[s][e].epoch_id = e
    <3>1. CASE e = next
      BY <1>1, <1>4, <3>1
    <3>2. CASE e # next
      <4>1. e \in 0 .. next - 1 /\ e \in DOMAIN batch_log[s]
        BY <1>3, <1>4, <3>2 DEF SlaveInv
      <4> QED
        BY <1>3, <1>4, <4>1 DEF LogInv
    <3> QED
      BY <3>1, <3>2
  <2> QED
    BY <1>4, <2>1 DEF LogInv
<1>13. SlaveInv'
  <2>1. ASSUME NEW t \in Slaves, t # s
        PROVE  /\ next_batch_epoch_id'[t] <= determined_epoch_id + 1
               /\ DOMAIN batch_log'[t] = 0 .. next_batch_epoch_id'[t] - 1
               /\ \A e \in DOMAIN batch_log'[t] :
                    batch_log'[t][e] = batch_log'[Master][e]
    BY <1>3, <1>4, <1>5, <2>1 DEF SlaveInv, Replicas
  <2>2. /\ next_batch_epoch_id'[s] <= determined_epoch_id + 1
        /\ DOMAIN batch_log'[s] = 0 .. next_batch_epoch_id'[s] - 1
    BY <1>3, <1>4, <1>5
  <2>3. ASSUME NEW e \in DOMAIN batch_log'[s]
        PROVE  batch_log'[s][e] = batch_log'[Master][e]
    <3>1. CASE e = next
      BY <1>3, <1>4, <3>1
    <3>2. CASE e # next
      <4>1. e \in 0 .. next - 1 /\ e \in DOMAIN batch_log[s]
        BY <1>3, <1>4, <3>2 DEF SlaveInv
      <4> QED
        BY <1>3, <1>4, <4>1 DEF SlaveInv
    <3> QED
      BY <3>1, <3>2
  <2> QED
    BY <1>2, <2>1, <2>2, <2>3 DEF SlaveInv
<1>14. BufferInv'
  <2>1. /\ write_tx_buffer'[s] = Append(write_tx_buffer[s], m.batch)
        /\ \A r \in Replicas \ {s} : write_tx_buffer'[r] = write_tx_buffer[r]
    BY <1>1, <1>3 DEF BufferType
  <2>2. write_tx_buffer[s] \in Seq(Batches) /\ Len(write_tx_buffer[s]) = next
    BY <1>3 DEF BufferType, BufferInv
  <2>3. Len(write_tx_buffer'[s]) = next + 1
    BY <2>1, <2>2
  <2>4. ASSUME NEW i \in DOMAIN write_tx_buffer'[s]
        PROVE  write_tx_buffer'[s][i] = batch_log[Master][i - 1]
    BY <1>3, <2>1, <2>2 DEF BufferInv
  <2>5. batch_log'[Master] = batch_log[Master]
    BY <1>3, <1>4
  <2>6. ASSUME NEW r \in Replicas, NEW i \in DOMAIN write_tx_buffer'[r]
        PROVE  write_tx_buffer'[r][i] = batch_log'[Master][i - 1]
    BY SMTT(60), <2>1, <2>4, <2>5 DEF BufferInv
  <2>7. write_tx_buffer'[Master] = write_tx_buffer[Master]
    BY <1>3, <2>1
  <2>8. ASSUME NEW t \in Slaves
        PROVE  Len(write_tx_buffer'[t]) = next_batch_epoch_id'[t]
    BY <1>5, <2>1, <2>3 DEF BufferInv, Replicas
  <2> QED
    BY <1>2, <2>6, <2>7, <2>8 DEF BufferInv
<1>15. SenderInv'
  <2>1. batch_log'[Master] = batch_log[Master]
    BY <1>3, <1>4
  <2>2. \A t \in Slaves : next_epoch_id[t] <= next_batch_epoch_id'[t]
    BY <1>5 DEF SenderInv, SenderType
  <2> QED
    BY <1>2, <2>1, <2>2 DEF SenderInv
<1>16. BatchNetInv'
  <2>1. ASSUME NEW n \in batchNet
        PROVE  /\ n.batch.epoch_id <= determined_epoch_id
               /\ n.batch.epoch_id <= next_batch_epoch_id'[n.dst]
               /\ n.batch = batch_log'[Master][n.batch.epoch_id]
    BY <1>3, <1>4, <1>5, BatchNetRange DEF BatchNetInv
  <2> QED
    BY <1>2, <2>1 DEF BatchNetInv
<1>17. AckNetInv'
  <2>1. ASSUME NEW n \in ackNet
        PROVE  n.epoch_id < next_batch_epoch_id'[n.src] /\ n.dst # n.src
    BY <1>5 DEF AckNetInv, NetType, EpochIds
  <2>2. ASSUME NEW r \in {Master} \cup Peers(s)
        PROVE  next < next_batch_epoch_id'[s] /\ r # s
    BY <1>3, <1>5 DEF Peers
  <2> QED
    BY <1>1, <2>1, <2>2 DEF AckNetInv, AckMsg
<1>18. RequestNetInv'
  <2>1. ASSUME NEW n \in requestNet
        PROVE  /\ n.dst # n.src
               /\ n.epoch_id < next_batch_epoch_id'[n.dst]
               /\ n.epoch_id <= next_batch_epoch_id'[n.src]
    BY <1>5 DEF RequestNetInv, NetType, EpochIds
  <2> QED
    BY <1>2, <2>1 DEF RequestNetInv
<1> QED
  BY <1>6, <1>7, <1>8, <1>9, <1>10, <1>11, <1>12, <1>13, <1>14, <1>15, <1>16,
     <1>17, <1>18

(* No batch from beyond a gap is in the network: the assertion holds.      *)
LEMMA OtherBatchIInv ==
  ASSUME IInv, NEW s \in Slaves, NEW m, OtherBatch(s, m)
  PROVE  IInv'
<1> USE DEF IInv, TypeOK
<1>1. /\ m \in batchNet /\ m.dst = s
      /\ m.batch.epoch_id # next_batch_epoch_id[s]
      /\ UNCHANGED <<epoch_pc, batch_epoch_id, rev_batch, determined_epoch_id>>
      /\ UNCHANGED <<next_epoch_id, send_msg, next_batch_epoch_id>>
      /\ UNCHANGED <<batch_log, write_tx_buffer, batchNet, requestNet>>
  BY DEF OtherBatch, epochVars, senderVars, slaveVars, localVars
<1>2. /\ s # Master /\ s \in Replicas /\ Master \in Replicas
      /\ m.batch.epoch_id \in EpochIds
      /\ m.batch.epoch_id < next_batch_epoch_id[s]
  <2>1. /\ m.batch \in Batches
        /\ m.batch.epoch_id \in Int
        /\ m.batch.epoch_id <= next_batch_epoch_id[s]
    BY <1>1, BatchNetRange
  <2>2. next_batch_epoch_id[s] \in Int
    BY DEF SlaveType
  <2> QED
    BY <1>1, <2>1, <2>2 DEF Batches, EpochIds, Replicas
<1>3. /\ ackNet' = ackNet \cup {AckMsg(Master, s, m.batch.epoch_id)}
      /\ UNCHANGED status
  BY <1>2 DEF OtherBatch
<1>4. EpochThreadType' /\ SenderType' /\ SlaveType' /\ LogType' /\ BufferType'
  BY <1>1, <1>3 DEF EpochThreadType, SenderType, SlaveType, LogType, BufferType
<1>5. NetType'
  BY <1>1, <1>2, <1>3 DEF NetType, AckMsg
<1>6. EpochThreadInv' /\ LogInv' /\ NoHalt'
  BY <1>1, <1>3 DEF EpochThreadInv, LogInv, NoHalt
<1>7. SlaveInv' /\ BufferInv' /\ SenderInv'
  BY <1>1 DEF SlaveInv, BufferInv, SenderInv
<1>8. BatchNetInv' /\ RequestNetInv'
  BY <1>1 DEF BatchNetInv, RequestNetInv
<1>9. AckNetInv'
  BY <1>1, <1>2, <1>3 DEF AckNetInv, AckMsg
<1> QED
  BY <1>4, <1>5, <1>6, <1>7, <1>8, <1>9

(* A slave requests a batch only of a peer that has acknowledged it or a   *)
(* later one.                                                              *)
LEMMA RecvPeerAckIInv ==
  ASSUME IInv, NEW s \in Slaves, NEW m, RecvPeerAck(s, m)
  PROVE  IInv'
<1> USE DEF IInv, TypeOK
<1>1. /\ m \in ackNet /\ m.dst = s
      /\ m.epoch_id >= next_batch_epoch_id[s]
      /\ requestNet' = requestNet \cup
                         {RequestMsg(m.src, s, next_batch_epoch_id[s])}
      /\ UNCHANGED <<epoch_pc, batch_epoch_id, rev_batch, determined_epoch_id>>
      /\ UNCHANGED <<next_epoch_id, send_msg, next_batch_epoch_id, status>>
      /\ UNCHANGED <<batch_log, write_tx_buffer, batchNet, ackNet>>
  BY DEF RecvPeerAck, epochVars, senderVars, slaveVars, localVars
<1>2. /\ m.src \in Slaves /\ m.src # s
      /\ next_batch_epoch_id[s] \in EpochIds
      /\ next_batch_epoch_id[s] < next_batch_epoch_id[m.src]
  <2>1. m.src \in Slaves /\ m.epoch_id \in EpochIds
    BY <1>1 DEF NetType
  <2>2. m.epoch_id < next_batch_epoch_id[m.src] /\ m.src # s
    BY <1>1 DEF AckNetInv
  <2>3. next_batch_epoch_id[s] \in Nat /\ next_batch_epoch_id[m.src] \in Nat
    BY <2>1 DEF SlaveType
  <2> QED
    BY <1>1, <2>1, <2>2, <2>3 DEF EpochIds
<1>3. EpochThreadType' /\ SenderType' /\ SlaveType' /\ LogType' /\ BufferType'
  BY <1>1 DEF EpochThreadType, SenderType, SlaveType, LogType, BufferType
<1>4. NetType'
  BY <1>1, <1>2 DEF NetType, RequestMsg
<1>5. EpochThreadInv' /\ LogInv' /\ NoHalt'
  BY <1>1 DEF EpochThreadInv, LogInv, NoHalt
<1>6. SlaveInv' /\ BufferInv' /\ SenderInv'
  BY <1>1 DEF SlaveInv, BufferInv, SenderInv
<1>7. BatchNetInv' /\ AckNetInv'
  BY <1>1 DEF BatchNetInv, AckNetInv
<1>8. RequestNetInv'
  BY <1>1, <1>2 DEF RequestNetInv, RequestMsg, EpochIds
<1> QED
  BY <1>3, <1>4, <1>5, <1>6, <1>7, <1>8

(* A request asks for a batch of the log, and the one who gets it is not   *)
(* behind it.                                                              *)
LEMMA RecvRequestIInv ==
  ASSUME IInv, NEW s \in Slaves, NEW m, RecvRequest(s, m)
  PROVE  IInv'
<1> USE DEF IInv, TypeOK
<1>1. /\ m \in requestNet /\ m.dst = s
      /\ UNCHANGED <<epoch_pc, batch_epoch_id, rev_batch, determined_epoch_id>>
      /\ UNCHANGED <<next_epoch_id, send_msg, next_batch_epoch_id>>
      /\ UNCHANGED <<batch_log, write_tx_buffer, ackNet, requestNet>>
  BY DEF RecvRequest, epochVars, senderVars, slaveVars, localVars
<1>2. /\ m.src \in Slaves /\ m.epoch_id \in Nat
      /\ m.epoch_id < next_batch_epoch_id[s]
      /\ m.epoch_id <= next_batch_epoch_id[m.src]
      /\ next_batch_epoch_id[s] \in Nat
      /\ next_batch_epoch_id[s] <= determined_epoch_id + 1
      /\ determined_epoch_id \in Int
  BY <1>1 DEF NetType, RequestNetInv, EpochIds, SlaveType, SlaveInv, EpochThreadType
<1>3. m.epoch_id \in DOMAIN batch_log[s]
  BY <1>2 DEF SlaveInv
<1> DEFINE batch == batch_log[s][m.epoch_id]
<1>4. /\ batchNet' = batchNet \cup {BatchMsg(m.src, batch)}
      /\ UNCHANGED status
  BY <1>3 DEF RecvRequest, InLog
<1>5. /\ batch \in Batches /\ batch.epoch_id = m.epoch_id
      /\ batch = batch_log[Master][m.epoch_id]
  BY <1>3 DEF LogType, LogInv, SlaveInv, Replicas
<1>6. EpochThreadType' /\ SenderType' /\ SlaveType' /\ LogType' /\ BufferType'
  BY <1>1, <1>4 DEF EpochThreadType, SenderType, SlaveType, LogType, BufferType
<1>7. NetType'
  BY <1>1, <1>2, <1>4, <1>5 DEF NetType, BatchMsg
<1>8. EpochThreadInv' /\ LogInv' /\ NoHalt'
  BY <1>1, <1>4 DEF EpochThreadInv, LogInv, NoHalt
<1>9. SlaveInv' /\ BufferInv' /\ SenderInv'
  BY <1>1 DEF SlaveInv, BufferInv, SenderInv
<1>10. BatchNetInv'
  <2>1. m.epoch_id <= determined_epoch_id
    BY <1>2
  <2> QED
    BY <1>1, <1>2, <1>4, <1>5, <2>1 DEF BatchNetInv, BatchMsg
<1>11. AckNetInv' /\ RequestNetInv'
  BY <1>1 DEF AckNetInv, RequestNetInv
<1> QED
  BY <1>6, <1>7, <1>8, <1>9, <1>10, <1>11

(* Losing a datagram preserves what is said of all of them.                *)
LEMMA DropIInv == IInv /\ (DropBatch \/ DropAck \/ DropRequest) => IInv'
<1> SUFFICES ASSUME IInv, DropBatch \/ DropAck \/ DropRequest PROVE IInv'
  OBVIOUS
<1> USE DEF IInv, TypeOK
<1>1. /\ batchNet' \subseteq batchNet
      /\ ackNet' \subseteq ackNet
      /\ requestNet' \subseteq requestNet
  BY DEF DropBatch, DropAck, DropRequest
<1>2. /\ UNCHANGED <<epoch_pc, batch_epoch_id, rev_batch, determined_epoch_id>>
      /\ UNCHANGED <<next_epoch_id, send_msg, next_batch_epoch_id, status>>
      /\ UNCHANGED <<batch_log, write_tx_buffer>>
  BY DEF DropBatch, DropAck, DropRequest, epochVars, senderVars, slaveVars, localVars
<1>3. EpochThreadType' /\ SenderType' /\ SlaveType' /\ LogType' /\ BufferType'
  BY <1>2 DEF EpochThreadType, SenderType, SlaveType, LogType, BufferType
<1>4. NetType'
  BY <1>1 DEF NetType
<1>5. EpochThreadInv' /\ LogInv' /\ NoHalt'
  BY <1>2 DEF EpochThreadInv, LogInv, NoHalt
<1>6. SlaveInv' /\ BufferInv' /\ SenderInv'
  BY <1>2 DEF SlaveInv, BufferInv, SenderInv
<1>7. BatchNetInv' /\ AckNetInv' /\ RequestNetInv'
  BY <1>1, <1>2 DEF BatchNetInv, AckNetInv, RequestNetInv
<1> QED
  BY <1>3, <1>4, <1>5, <1>6, <1>7

(* A step that changes nothing preserves the invariant.                    *)
LEMMA StutterIInv == IInv /\ UNCHANGED vars => IInv'
<1> SUFFICES ASSUME IInv, UNCHANGED vars PROVE IInv'
  OBVIOUS
<1> USE DEF vars, epochVars, senderVars, slaveVars, localVars, netVars
<1>1. TypeOK'
  BY DEF IInv, TypeOK, EpochThreadType, SenderType, SlaveType, LogType,
         BufferType, NetType
<1>2. NoHalt' /\ EpochThreadInv' /\ LogInv' /\ SlaveInv' /\ BufferInv'
  BY DEF IInv, NoHalt, EpochThreadInv, LogInv, SlaveInv, BufferInv
<1>3. SenderInv' /\ BatchNetInv' /\ AckNetInv' /\ RequestNetInv'
  BY DEF IInv, SenderInv, BatchNetInv, AckNetInv, RequestNetInv
<1> QED
  BY <1>1, <1>2, <1>3 DEF IInv

(* IInv is inductive: it holds initially and every step preserves it.      *)
THEOREM Invariance == Spec => []IInv
<1>1. Init => IInv
  BY InitIInv
<1>2. IInv /\ [Next]_vars => IInv'
  <2> SUFFICES ASSUME IInv, [Next]_vars PROVE IInv'
    OBVIOUS
  <2>1. CASE CutBatch \/ AppendBatch \/ Determine \/ Enqueue
    BY <2>1, CutBatchIInv, AppendBatchIInv, DetermineIInv, EnqueueIInv
  <2>2. ASSUME NEW s \in Slaves, BeginSend(s) \/ Resend(s) \/ RecvAck(s)
        PROVE  IInv'
    BY <2>2, BeginSendIInv, ResendIInv, RecvAckIInv
  <2>3. ASSUME NEW s \in Slaves, NEW m,
               \/ AcceptBatch(s, m) \/ OtherBatch(s, m)
               \/ RecvPeerAck(s, m) \/ RecvRequest(s, m)
        PROVE  IInv'
    BY <2>3, AcceptBatchIInv, OtherBatchIInv, RecvPeerAckIInv, RecvRequestIInv
  <2>4. CASE DropBatch \/ DropAck \/ DropRequest
    BY <2>4, DropIInv
  <2>5. CASE UNCHANGED vars
    BY <2>5, StutterIInv
  <2> QED
    BY <2>1, <2>2, <2>3, <2>4, <2>5 DEF Next
<1> QED
  BY <1>1, <1>2, PTL DEF Spec

-----------------------------------------------------------------------------
(* Type correctness.                                                       *)
THEOREM TypeCorrectness == Spec => []TypeOK
BY Invariance, PTL DEF IInv

(* The assertion on a batch from beyond a gap never fails, and no thread   *)
(* waits for a record that is not in the log, for any number of slaves,    *)
(* regions and epochs, and whatever the network loses, repeats or          *)
(* reorders.                                                               *)
THEOREM NeverHalts == Spec => []NoHalt
BY Invariance, PTL DEF IInv

(* What a buffer holds is within the determined part of the log.           *)
LEMMA RunsOnlyLoggedFromIInv == IInv => RunsOnlyLogged
<1> SUFFICES ASSUME IInv, NEW r \in Replicas, NEW i \in DOMAIN write_tx_buffer[r]
             PROVE  /\ InLog(Master, i - 1)
                    /\ write_tx_buffer[r][i] = batch_log[Master][i - 1]
  BY DEF RunsOnlyLogged
<1>1. i - 1 \in 0 .. determined_epoch_id /\ determined_epoch_id \in Int
  BY BufferRange DEF IInv, TypeOK, EpochThreadType
<1>2. InLog(Master, i - 1)
  BY <1>1 DEF InLog, IInv, EpochThreadInv
<1> QED
  BY <1>2 DEF IInv, BufferInv

(* No replica runs a batch the master has not logged at that epoch.        *)
THEOREM OnlyLoggedRuns == Spec => []RunsOnlyLogged
BY Invariance, RunsOnlyLoggedFromIInv, PTL

(* The write schedulers of any two replicas are given the same batches in  *)
(* the same order.                                                         *)
THEOREM Agreement == Spec => []ReplicaAgreement
<1>1. IInv => ReplicaAgreement
  BY DEF IInv, BufferInv, ReplicaAgreement
<1> QED
  BY <1>1, Invariance, PTL

(* The sender threads leave no batch out for any slave.                    *)
THEOREM NoBatchLeftOut == Spec => []AckedIsLogged
<1>1. ASSUME IInv, NEW s \in Slaves, NEW e \in 0 .. next_epoch_id[s] - 1
      PROVE  InLog(s, e)
  <2>1. next_epoch_id[s] \in Nat /\ next_batch_epoch_id[s] \in Nat
    BY <1>1 DEF IInv, TypeOK, SenderType, SlaveType
  <2>2. next_epoch_id[s] <= next_batch_epoch_id[s]
    BY <1>1 DEF IInv, SenderInv
  <2>3. DOMAIN batch_log[s] = 0 .. next_batch_epoch_id[s] - 1
    BY <1>1 DEF IInv, SlaveInv
  <2> QED
    BY <2>1, <2>2, <2>3 DEF InLog
<1>2. IInv => AckedIsLogged
  BY <1>1 DEF AckedIsLogged
<1> QED
  BY <1>2, Invariance, PTL

(* Every request in the network can be served.                             *)
THEOREM EveryRequestServable == Spec => []RequestsAreServable
<1>1. ASSUME IInv, NEW m \in requestNet
      PROVE  m.dst # m.src /\ InLog(m.dst, m.epoch_id)
  <2>1. m.dst \in Slaves /\ m.epoch_id \in Nat
    BY <1>1 DEF IInv, TypeOK, NetType, EpochIds
  <2>2. m.dst # m.src /\ m.epoch_id < next_batch_epoch_id[m.dst]
    BY <1>1 DEF IInv, RequestNetInv
  <2>3. next_batch_epoch_id[m.dst] \in Nat
    BY <1>1, <2>1 DEF IInv, TypeOK, SlaveType
  <2>4. DOMAIN batch_log[m.dst] = 0 .. next_batch_epoch_id[m.dst] - 1
    BY <1>1, <2>1 DEF IInv, SlaveInv
  <2> QED
    BY <2>1, <2>2, <2>3, <2>4 DEF InLog
<1>2. IInv => RequestsAreServable
  BY <1>1 DEF RequestsAreServable
<1> QED
  BY <1>2, Invariance, PTL

-----------------------------------------------------------------------------
(* A step never goes back: each part of NeverTakenBack.                    *)

LogsGrow ==
  \A r \in Replicas : \A e \in DOMAIN batch_log[r] :
    e \in DOMAIN batch_log'[r] /\ batch_log'[r][e] = batch_log[r][e]

PositionsGrow ==
  \A s \in Slaves : /\ next_epoch_id'[s] >= next_epoch_id[s]
                    /\ next_batch_epoch_id'[s] >= next_batch_epoch_id[s]

(* The master's log is extended, not overwritten.                          *)
LEMMA AppendBatchGrows == IInv /\ AppendBatch => LogsGrow
<1> SUFFICES ASSUME IInv, AppendBatch PROVE LogsGrow
  OBVIOUS
<1>1. /\ determined_epoch_id \in Int
      /\ rev_batch.epoch_id = determined_epoch_id + 1
      /\ DOMAIN batch_log[Master] = 0 .. determined_epoch_id
      /\ DOMAIN batch_log = Replicas
  BY DEF IInv, TypeOK, EpochThreadType, EpochThreadInv, LogType, AppendBatch
<1> QED
  BY <1>1 DEF AppendBatch, append_log, LogsGrow

(* A slave's log is extended, not overwritten, and its position advances.  *)
LEMMA AcceptBatchGrows ==
  ASSUME IInv, NEW s \in Slaves, NEW m, AcceptBatch(s, m)
  PROVE  LogsGrow /\ PositionsGrow
<1>1. /\ next_batch_epoch_id[s] \in Nat
      /\ DOMAIN batch_log[s] = 0 .. next_batch_epoch_id[s] - 1
      /\ DOMAIN batch_log = Replicas
      /\ m.batch.epoch_id = next_batch_epoch_id[s]
  BY DEF IInv, TypeOK, SlaveType, SlaveInv, LogType, AcceptBatch
<1>2. LogsGrow
  BY <1>1 DEF AcceptBatch, append_log, LogsGrow
<1>3. /\ next_batch_epoch_id' = [next_batch_epoch_id EXCEPT ![s] = @ + 1]
      /\ UNCHANGED next_epoch_id
  BY DEF AcceptBatch, senderVars
<1>4. PositionsGrow
  BY <1>3 DEF PositionsGrow, IInv, TypeOK, SenderType, SlaveType
<1> QED
  BY <1>2, <1>4

(* A sender's position advances, whichever batch is acknowledged.          *)
LEMMA RecvAckGrows ==
  ASSUME IInv, NEW s \in Slaves, RecvAck(s)
  PROVE  PositionsGrow
<1>1. PICK m \in ackNet :
        /\ Acknowledges(m.epoch_id, next_epoch_id[s])
        /\ next_epoch_id' = [next_epoch_id EXCEPT ![s] = m.epoch_id + 1]
  BY DEF RecvAck
<1>2. m.epoch_id \in Nat /\ next_epoch_id[s] \in Nat
  BY DEF IInv, TypeOK, NetType, EpochIds, SenderType
<1>3. m.epoch_id >= next_epoch_id[s]
  BY <1>1, <1>2 DEF Acknowledges
<1>4. UNCHANGED next_batch_epoch_id
  BY DEF RecvAck, slaveVars
<1> QED
  BY <1>1, <1>2, <1>3, <1>4
  DEF PositionsGrow, IInv, TypeOK, SenderType, SlaveType

(* Neither a log record nor a position of the protocol is ever taken back. *)
THEOREM NothingTakenBack == Spec => NeverTakenBack
<1>1. ASSUME IInv, [Next]_vars
      PROVE  LogsGrow /\ PositionsGrow
  <2>1. ASSUME UNCHANGED batch_log PROVE LogsGrow
    BY <2>1 DEF LogsGrow
  <2>2. ASSUME UNCHANGED <<next_epoch_id, next_batch_epoch_id>>
        PROVE  PositionsGrow
    BY <1>1, <2>2 DEF PositionsGrow, IInv, TypeOK, SenderType, SlaveType
  <2>3. CASE AppendBatch
    BY <1>1, <2>2, <2>3, AppendBatchGrows DEF AppendBatch, senderVars, slaveVars
  <2>4. ASSUME NEW s \in Slaves, NEW m, AcceptBatch(s, m)
        PROVE  LogsGrow /\ PositionsGrow
    BY <1>1, <2>4, AcceptBatchGrows
  <2>5. ASSUME NEW s \in Slaves, RecvAck(s)
        PROVE  LogsGrow /\ PositionsGrow
    BY <1>1, <2>1, <2>5, RecvAckGrows DEF RecvAck, localVars
  <2>6. CASE CutBatch \/ Determine \/ Enqueue
    BY <2>1, <2>2, <2>6
    DEF CutBatch, Determine, Enqueue, senderVars, slaveVars, localVars
  <2>7. ASSUME NEW s \in Slaves, BeginSend(s) \/ Resend(s)
        PROVE  LogsGrow /\ PositionsGrow
    BY <2>1, <2>2, <2>7 DEF BeginSend, Resend, senderVars, slaveVars, localVars
  <2>8. ASSUME NEW s \in Slaves, NEW m,
               OtherBatch(s, m) \/ RecvPeerAck(s, m) \/ RecvRequest(s, m)
        PROVE  LogsGrow /\ PositionsGrow
    BY <2>1, <2>2, <2>8
    DEF OtherBatch, RecvPeerAck, RecvRequest, senderVars, slaveVars, localVars
  <2>9. CASE DropBatch \/ DropAck \/ DropRequest \/ UNCHANGED vars
    BY <2>1, <2>2, <2>9
    DEF DropBatch, DropAck, DropRequest, vars, senderVars, slaveVars, localVars
  <2> QED
    BY <1>1, <2>3, <2>4, <2>5, <2>6, <2>7, <2>8, <2>9 DEF Next
<1>2. IInv /\ [Next]_vars =>
        [/\ \A r \in Replicas : \A e \in DOMAIN batch_log[r] :
              e \in DOMAIN batch_log'[r] /\ batch_log'[r][e] = batch_log[r][e]
         /\ \A s \in Slaves : /\ next_epoch_id'[s] >= next_epoch_id[s]
                              /\ next_batch_epoch_id'[s] >= next_batch_epoch_id[s]
        ]_vars
  BY <1>1 DEF LogsGrow, PositionsGrow
<1> QED
  BY <1>2, Invariance, PTL DEF Spec, NeverTakenBack

-----------------------------------------------------------------------------
(* The refinement: the batches determined, as a sequence.                  *)

DeterminedIsSeq ==
  /\ determined \in Seq(Batches)
  /\ Len(determined) = determined_epoch_id + 1
  /\ \A i \in 1 .. determined_epoch_id + 1 :
       determined[i] = batch_log[Master][i - 1]

(* Under the invariant, determined is a sequence of batches.               *)
LEMMA DeterminedSeq == IInv => DeterminedIsSeq
<1> SUFFICES ASSUME IInv PROVE DeterminedIsSeq
  OBVIOUS
<1>1. determined_epoch_id + 1 \in Nat /\ determined_epoch_id \in Int
  BY DEF IInv, TypeOK, EpochThreadType
<1>2. \A i \in 1 .. determined_epoch_id + 1 : batch_log[Master][i - 1] \in Batches
  <2>1. \A e \in 0 .. determined_epoch_id : e \in DOMAIN batch_log[Master]
    BY <1>1 DEF IInv, EpochThreadInv
  <2> QED
    BY <1>1, <2>1 DEF IInv, TypeOK, LogType, Replicas
<1>3. determined \in [1 .. determined_epoch_id + 1 -> Batches]
  BY <1>2 DEF determined
<1>4. determined \in Seq(Batches)
  BY <1>1, <1>3, SeqDef
<1>5. Len(determined) = determined_epoch_id + 1
  BY <1>1, <1>3, <1>4, LenProperties
<1> QED
  BY <1>4, <1>5 DEF DeterminedIsSeq, determined

(* Determine appends the closed batch to determined.                       *)
LEMMA DetermineRefines ==
  ASSUME IInv, IInv', Determine
  PROVE  BO!Determine
<1>1. /\ determined_epoch_id' = determined_epoch_id + 1
      /\ UNCHANGED <<batch_log, write_tx_buffer>>
      /\ batch_log[Master][determined_epoch_id + 1] = rev_batch
  BY DEF Determine, localVars, IInv, EpochThreadInv
<1>2. determined_epoch_id \in Int /\ determined_epoch_id + 1 \in Nat
  BY DEF IInv, TypeOK, EpochThreadType
<1>3. rev_batch = [epoch_id |-> determined_epoch_id + 1, tx_set |-> rev_batch.tx_set]
      /\ rev_batch.tx_set \in TxSets /\ rev_batch \in Batches
  <2>1. /\ DOMAIN batch_log[Master] = 0 .. determined_epoch_id + 1
        /\ rev_batch.epoch_id = determined_epoch_id + 1
    BY <1>1, <1>2 DEF Determine, IInv, EpochThreadInv, LogInv, Replicas
  <2>2. rev_batch \in Batches
    BY <1>1, <1>2, <2>1 DEF IInv, TypeOK, LogType, Replicas
  <2> QED
    BY <2>1, <2>2 DEF Batches
<1>4. determined' = Append(determined, rev_batch)
  <2>1. /\ determined' \in Seq(Batches)
        /\ Len(determined') = determined_epoch_id + 2
        /\ \A i \in 1 .. determined_epoch_id + 2 :
             determined'[i] = batch_log[Master][i - 1]
    <3>1. IInv' => DeterminedIsSeq'
      BY DeterminedSeq, PTL
    <3> QED
      BY <1>1, <1>2, <3>1 DEF DeterminedIsSeq
  <2>2. /\ determined \in Seq(Batches)
        /\ Len(determined) = determined_epoch_id + 1
        /\ \A i \in 1 .. determined_epoch_id + 1 :
             determined[i] = batch_log[Master][i - 1]
    BY DeterminedSeq DEF DeterminedIsSeq
  <2>3. rev_batch \in Batches
    BY <1>3
  <2>4. /\ Append(determined, rev_batch) \in Seq(Batches)
        /\ Len(Append(determined, rev_batch)) = determined_epoch_id + 2
        /\ \A i \in 1 .. determined_epoch_id + 1 :
             Append(determined, rev_batch)[i] = batch_log[Master][i - 1]
        /\ Append(determined, rev_batch)[determined_epoch_id + 2] = rev_batch
    BY <1>2, <2>2, <2>3, AppendProperties
  <2>5. \A i \in 1 .. determined_epoch_id + 2 :
          determined'[i] = Append(determined, rev_batch)[i]
    BY SMTT(60), <1>1, <1>2, <2>1, <2>4
  <2> QED
    BY <2>1, <2>4, <2>5, SeqEqual
<1>5. Len(determined) = determined_epoch_id + 1
  BY DeterminedSeq DEF DeterminedIsSeq
<1> QED
  BY <1>1, <1>3, <1>4, <1>5 DEF BO!Determine

(* A buffer that is extended by the batch at its own length is handed that *)
(* batch over.                                                             *)
LEMMA HandOverRefines ==
  ASSUME IInv, NEW r \in Replicas,
         UNCHANGED <<determined_epoch_id>>, UNCHANGED determined,
         Len(write_tx_buffer[r]) \in 0 .. determined_epoch_id,
         write_tx_buffer' =
           [write_tx_buffer EXCEPT
              ![r] = Append(@, batch_log[Master][Len(write_tx_buffer[r])])]
  PROVE  BO!HandOver(r)
<1>1. determined_epoch_id \in Int
  BY DEF IInv, TypeOK, EpochThreadType
<1>2. /\ Len(determined) = determined_epoch_id + 1
      /\ determined[Len(write_tx_buffer[r]) + 1] =
           batch_log[Master][Len(write_tx_buffer[r])]
  BY <1>1, DeterminedSeq DEF DeterminedIsSeq
<1> QED
  BY <1>1, <1>2 DEF BO!HandOver

(* The master hands the batch over to its own scheduler.                   *)
LEMMA EnqueueRefines == ASSUME IInv, Enqueue PROVE BO!HandOver(Master)
<1>1. /\ determined_epoch_id \in Nat
      /\ Len(write_tx_buffer[Master]) = determined_epoch_id
      /\ batch_log[Master][determined_epoch_id] = rev_batch
  BY DEF Enqueue, IInv, TypeOK, EpochThreadType, EpochThreadInv, BufferInv
<1>2. /\ UNCHANGED <<determined_epoch_id, batch_log>>
      /\ write_tx_buffer' = [write_tx_buffer EXCEPT
           ![Master] = Append(@, batch_log[Master][Len(write_tx_buffer[Master])])]
  BY <1>1 DEF Enqueue
<1>3. UNCHANGED determined
  BY <1>2 DEF determined
<1>4. Len(write_tx_buffer[Master]) \in 0 .. determined_epoch_id
  BY <1>1
<1>5. Master \in Replicas
  BY DEF Replicas
<1> QED
  BY <1>2, <1>3, <1>4, <1>5, HandOverRefines

(* A slave that accepts a batch hands it over.                             *)
LEMMA AcceptBatchRefines ==
  ASSUME IInv, NEW s \in Slaves, NEW m, AcceptBatch(s, m)
  PROVE  BO!HandOver(s)
<1>1. /\ m \in batchNet /\ m.dst = s
      /\ m.batch.epoch_id = next_batch_epoch_id[s]
      /\ batch_log' = [batch_log EXCEPT
                         ![s] = append_log(@, m.batch, m.batch.epoch_id)]
      /\ write_tx_buffer' = [write_tx_buffer EXCEPT ![s] = Append(@, m.batch)]
      /\ UNCHANGED determined_epoch_id
  BY DEF AcceptBatch, epochVars
<1>2. /\ m.batch = batch_log[Master][Len(write_tx_buffer[s])]
      /\ Len(write_tx_buffer[s]) \in 0 .. determined_epoch_id
  BY <1>1, BatchNetRange DEF IInv, BufferInv
<1>3. UNCHANGED determined
  <2>1. s # Master
    OBVIOUS
  <2>2. batch_log'[Master] = batch_log[Master]
    BY <1>1, <2>1 DEF IInv, TypeOK, LogType, Replicas
  <2> QED
    BY <1>1, <2>2 DEF determined
<1> QED
  BY <1>1, <1>2, <1>3, HandOverRefines DEF Replicas

(* Writing the log beyond the determined part changes nothing abstract.    *)
LEMMA AppendBatchRefines ==
  ASSUME IInv, AppendBatch PROVE UNCHANGED <<determined, write_tx_buffer>>
<1>1. UNCHANGED <<determined_epoch_id, write_tx_buffer>>
  BY DEF AppendBatch
<1>2. \A e \in 0 .. determined_epoch_id :
        batch_log'[Master][e] = batch_log[Master][e]
  <2>1. /\ \A e \in 0 .. determined_epoch_id : e \in DOMAIN batch_log[Master]
        /\ Master \in Replicas
    BY DEF AppendBatch, IInv, EpochThreadInv, Replicas
  <2> QED
    BY <2>1, AppendBatchGrows DEF LogsGrow
<1>3. \A i \in 1 .. determined_epoch_id + 1 :
        batch_log'[Master][i - 1] = batch_log[Master][i - 1]
  BY <1>2 DEF IInv, TypeOK, EpochThreadType
<1> QED
  BY <1>1, <1>3 DEF determined

(* Batch replication implements its abstract specification, for every      *)
(* number of slaves and epochs.                                            *)
THEOREM Refinement == Spec => ImplementsBatchOrder
<1>1. Init => BO!Init
  BY DEF Init, BO!Init, determined
<1>2. IInv /\ IInv' /\ [Next]_vars => [BO!Next]_(BO!vars)
  <2> SUFFICES ASSUME IInv, IInv', [Next]_vars
               PROVE  BO!Next \/ UNCHANGED <<determined, write_tx_buffer>>
    BY DEF BO!vars
  <2>1. ASSUME UNCHANGED <<determined_epoch_id, batch_log, write_tx_buffer>>
        PROVE  UNCHANGED <<determined, write_tx_buffer>>
    BY <2>1 DEF determined
  <2>2. CASE Determine
    BY <2>2, DetermineRefines DEF BO!Next
  <2>3. CASE Enqueue
    BY <2>3, EnqueueRefines DEF BO!Next, Replicas
  <2>4. ASSUME NEW s \in Slaves, NEW m, AcceptBatch(s, m)
        PROVE  BO!Next
    BY <2>4, AcceptBatchRefines DEF BO!Next, Replicas
  <2>5. CASE AppendBatch
    BY <2>5, AppendBatchRefines
  <2>6. CASE CutBatch
    BY <2>1, <2>6 DEF CutBatch, localVars
  <2>7. ASSUME NEW s \in Slaves, BeginSend(s) \/ Resend(s) \/ RecvAck(s)
        PROVE  UNCHANGED <<determined, write_tx_buffer>>
    BY <2>1, <2>7 DEF BeginSend, Resend, RecvAck, epochVars, localVars
  <2>8. ASSUME NEW s \in Slaves, NEW m,
               OtherBatch(s, m) \/ RecvPeerAck(s, m) \/ RecvRequest(s, m)
        PROVE  UNCHANGED <<determined, write_tx_buffer>>
    BY <2>1, <2>8 DEF OtherBatch, RecvPeerAck, RecvRequest, epochVars, localVars
  <2>9. CASE DropBatch \/ DropAck \/ DropRequest \/ UNCHANGED vars
    BY <2>1, <2>9
    DEF DropBatch, DropAck, DropRequest, vars, epochVars, localVars
  <2> QED
    BY <2>2, <2>3, <2>4, <2>5, <2>6, <2>7, <2>8, <2>9 DEF Next
<1> QED
  BY <1>1, <1>2, Invariance, PTL DEF Spec, BO!Spec, ImplementsBatchOrder

=============================================================================
