--------------------------- MODULE LifecycleProofs ---------------------------
(***************************************************************************)
(* What holds from the start to the finish of the processes, proved for    *)
(* any slaves, clients, assignment of clients to slaves and bounds, and    *)
(* both client programs.                                                   *)
(*                                                                         *)
(* IInv is proved part by part: a lemma for each, with a step for every    *)
(* action the part may notice; all others leave its variables alone.       *)
(***************************************************************************)
EXTENDS Lifecycle, TLAPS

-----------------------------------------------------------------------------
(* A datagram is told by its type and its fields.                          *)
LEMMA DatagramFields ==
  /\ StartMsg.type = "start" /\ \A r : FinishMsg(r).type = "finish"
  /\ \A c, id : /\ AddMsg(c, id).type = "ADD_TO_BATCH"
                /\ AddMsg(c, id).client = c /\ AddMsg(c, id).id = id
                /\ AckAddMsg(c, id).type = "ACK_ADD"
  /\ \A s, e : /\ BatchMsg(s, e).type = "BATCH" /\ BatchMsg(s, e).epoch_id = e
               /\ AckMsg(s, e).type = "ACK_BATCH" /\ AckMsg(s, e).epoch_id = e
BY DEF StartMsg, FinishMsg, AddMsg, AckAddMsg, BatchMsg, AckMsg

(* Those that may exist after so many epochs.                              *)
LEMMA DatagramsExist ==
  ASSUME NEW e \in Int
  PROVE  /\ StartMsg \in Datagrams(e)
         /\ \A r \in Replicas : FinishMsg(r) \in Datagrams(e)
         /\ \A c \in Clients, id \in 0 .. MaxTxId :
              AddMsg(c, id) \in Datagrams(e) /\ AckAddMsg(c, id) \in Datagrams(e)
         /\ \A s \in Slaves, i \in 0 .. e :
              BatchMsg(s, i) \in Datagrams(e) /\ AckMsg(s, i) \in Datagrams(e)
         /\ \A s \in Slaves, i \in Int :
              BatchMsg(s, i) \in Datagrams(e) \/ AckMsg(s, i) \in Datagrams(e)
                => i \in 0 .. e
         /\ Datagrams(e) \subseteq Datagrams(e + 1)
<1>1. /\ StartMsg \in Datagrams(e)
      /\ \A r \in Replicas : FinishMsg(r) \in Datagrams(e)
      /\ \A c \in Clients, id \in 0 .. MaxTxId :
           AddMsg(c, id) \in Datagrams(e) /\ AckAddMsg(c, id) \in Datagrams(e)
      /\ \A s \in Slaves, i \in 0 .. e :
           BatchMsg(s, i) \in Datagrams(e) /\ AckMsg(s, i) \in Datagrams(e)
  BY DEF Datagrams
<1>2. ASSUME NEW s \in Slaves, NEW i \in Int,
             BatchMsg(s, i) \in Datagrams(e) \/ AckMsg(s, i) \in Datagrams(e)
      PROVE  i \in 0 .. e
  BY <1>2, DatagramFields DEF Datagrams
<1>3. 0 .. e \subseteq 0 .. e + 1
  OBVIOUS
<1>4. Datagrams(e) \subseteq Datagrams(e + 1)
  BY <1>3 DEF Datagrams
<1> QED BY <1>1, <1>2, <1>4

(* Every thread goes from one of its places to another.                    *)
LEMMA PcPreserved == IInv /\ [Next]_vars => PcTypes'
<1> SUFFICES ASSUME PcTypes, [Next]_vars
             PROVE  PcTypes'
  BY DEF IInv, TypeOK
<1> USE DEF clientVars, tcpVars, masterVars, schedVars, slaveVars, workerVars,
          txVars
<1>1. CASE StartClients
  BY <1>1 DEF PcTypes, StartClients
<1>2. CASE TimeUp
  BY <1>2 DEF PcTypes, TimeUp
<1>3. CASE SendFinish
  BY <1>3 DEF PcTypes, SendFinish
<1>4. CASE CreateThreads
  BY <1>4 DEF PcTypes, Replicas, CreateThreads
<1>5. CASE MasterStart
  BY <1>5 DEF PcTypes, Replicas, MasterStart
<1>6. CASE MasterFinish
  BY <1>6 DEF PcTypes, Replicas, MasterFinish
<1>7. CASE MasterJoin
  BY <1>7 DEF PcTypes, MasterJoin
<1>8. CASE EpochStart
  BY <1>8 DEF PcTypes, EpochStart, epochRest
<1>9. CASE EpochLoop
  BY <1>9 DEF PcTypes, EpochLoop, epochRest
<1>10. CASE CutBatch
  BY <1>10 DEF PcTypes, CutBatch, epochRest
<1>11. CASE EpochJoin
  BY <1>11 DEF PcTypes, EpochJoin, epochRest
<1>12. ASSUME NEW c \in Clients, ClientRequest(c)
      PROVE  PcTypes'
  BY <1>12 DEF PcTypes, ClientRequest
<1>13. ASSUME NEW c \in Clients, ClientReceive(c)
      PROVE  PcTypes'
  BY <1>13 DEF PcTypes, ClientReceive
<1>14. ASSUME NEW c \in Clients, RecvStart(c)
      PROVE  PcTypes'
  BY <1>14 DEF PcTypes, RecvStart, recvRest
<1>15. ASSUME NEW c \in Clients, RecvLoop(c)
      PROVE  PcTypes'
  BY <1>15 DEF PcTypes, RecvLoop, recvRest
<1>16. ASSUME NEW c \in Clients, RecvAdd(c)
      PROVE  PcTypes'
  BY <1>16 DEF PcTypes, RecvAdd, recvRest
<1>17. ASSUME NEW c \in Clients, Accept(c)
      PROVE  PcTypes'
  BY <1>17 DEF PcTypes, Accept
<1>18. ASSUME NEW c \in Clients, WorkerLoop(c)
      PROVE  PcTypes'
  BY <1>18 DEF PcTypes, WorkerLoop, workerRest
<1>19. ASSUME NEW c \in Clients, WorkerReceive(c)
      PROVE  PcTypes'
  BY <1>19 DEF PcTypes, WorkerReceive, workerRest
<1>20. ASSUME NEW c \in Clients, SendAdd(c)
      PROVE  PcTypes'
  BY <1>20 DEF PcTypes, SendAdd, workerRest
<1>21. ASSUME NEW c \in Clients, WaitAck(c)
      PROVE  PcTypes'
  BY <1>21 DEF PcTypes, WaitAck, workerRest
<1>22. ASSUME NEW c \in Clients, WaitFlag(c)
      PROVE  PcTypes'
  <2>1. UNCHANGED <<request, workerRest>>
    BY <1>22 DEF WaitFlag
  <2>2. /\ UNCHANGED response \/ response' = [response EXCEPT ![c] = TRUE]
        /\ \/ worker_pc' = [worker_pc EXCEPT ![c] = "ended"]
           \/ worker_pc' = [worker_pc EXCEPT ![c] = "loop"]
    BY <1>22 DEF WaitFlag
  <2>3. response' \in [Clients -> BOOLEAN]
    BY <2>2 DEF PcTypes
  <2>4. worker_pc' \in [Clients -> {"none", "loop", "receive", "send_add",
                                  "wait_ack", "wait_flag", "ended"}]
    BY <2>2 DEF PcTypes
  <2> QED BY <2>1, <2>3, <2>4 DEF PcTypes, workerRest
<1>23. ASSUME NEW s \in Slaves, SendStartLoop(s)
      PROVE  PcTypes'
  BY <1>23 DEF PcTypes, SendStartLoop, sendRest
<1>24. ASSUME NEW s \in Slaves, SendLoop(s)
      PROVE  PcTypes'
  BY <1>24 DEF PcTypes, SendLoop, sendRest
<1>25. ASSUME NEW s \in Slaves, Send(s)
      PROVE  PcTypes'
  BY <1>25 DEF PcTypes, Send, sendRest
<1>26. ASSUME NEW s \in Slaves, RecvAck(s)
      PROVE  PcTypes'
  BY <1>26 DEF PcTypes, RecvAck, sendRest
<1>27. ASSUME NEW s \in Slaves, SendTimeout(s)
      PROVE  PcTypes'
  BY <1>27 DEF PcTypes, SendTimeout, sendRest
<1>28. ASSUME NEW s \in Slaves, SequencerLoop(s)
      PROVE  PcTypes'
  BY <1>28 DEF PcTypes, SequencerLoop, slaveRest
<1>29. ASSUME NEW s \in Slaves, RecvBatch(s)
      PROVE  PcTypes'
  BY <1>29 DEF PcTypes, RecvBatch, slaveRest
<1>30. ASSUME NEW s \in Slaves, AllAccepted(s)
      PROVE  PcTypes'
  BY <1>30 DEF PcTypes, AllAccepted, slaveRest
<1>31. ASSUME NEW s \in Slaves, SlaveFinish(s)
      PROVE  PcTypes'
  BY <1>31 DEF PcTypes, Replicas, SlaveFinish, slaveRest
<1>32. ASSUME NEW s \in Slaves, InterfaceJoin(s)
      PROVE  PcTypes'
  BY <1>32 DEF PcTypes, InterfaceJoin, slaveRest
<1>33. ASSUME NEW s \in Slaves, SlaveJoin(s)
      PROVE  PcTypes'
  BY <1>33 DEF PcTypes, SlaveJoin, slaveRest
<1>34. ASSUME NEW r \in Replicas, WriteLoop(r)
      PROVE  PcTypes'
  BY <1>34 DEF PcTypes, WriteLoop, schedRest
<1>35. ASSUME NEW r \in Replicas, ExecuteBatch(r)
      PROVE  PcTypes'
  BY <1>35 DEF PcTypes, ExecuteBatch, schedRest
<1>36. CASE UNCHANGED vars
  BY <1>36 DEF PcTypes, vars
<1> QED
  BY <1>1, <1>2, <1>3, <1>4, <1>5, <1>6, <1>7, <1>8, <1>9, <1>10, <1>11,
     <1>12, <1>13, <1>14, <1>15, <1>16, <1>17, <1>18, <1>19, <1>20, <1>21,
     <1>22, <1>23, <1>24, <1>25, <1>26, <1>27, <1>28, <1>29, <1>30, <1>31,
     <1>32, <1>33, <1>34, <1>35, <1>36 DEF Next, ClientMain, MasterMain,
     EpochThread, Receive, Client, RecvThread, Worker, SendThread,
     Interface, WriteScheduler

(* EpochInv and TurnInv bound the counters, Datagrams the network.         *)
LEMMA CountsPreserved == IInv /\ [Next]_vars => CountTypes'
<1> SUFFICES ASSUME IInv, [Next]_vars
             PROVE  CountTypes'
  OBVIOUS
<1> USE ReplicaAssumption, BoundAssumption, DatagramsExist DEF clientVars, tcpVars,
        masterVars, schedVars, slaveVars, workerVars, txVars
<1>1. CASE StartClients
  BY <1>1 DEF IInv, TypeOK, CountTypes, StartClients
<1>2. CASE SendFinish
  BY <1>2 DEF IInv, TypeOK, CountTypes, SendFinish
<1>3. CASE CutBatch
  <2>1. /\ determined_epoch_id \in -1 .. MaxEpoch /\ determined_epoch_id < MaxEpoch
        /\ determined_epoch_id' = determined_epoch_id + 1
    BY <1>3 DEF IInv, TypeOK, CountTypes, PcTypes, EpochInv, CutBatch
  <2>2. 0 .. determined_epoch_id + 1 \subseteq 0 .. determined_epoch_id' + 1
    BY <2>1
  <2>3. net' \subseteq Datagrams(determined_epoch_id')
    BY <1>3, <2>1 DEF IInv, TypeOK, CountTypes, PcTypes, CutBatch, epochRest
  <2>4. UNCHANGED epochRest /\ epoch_pc' = "loop"
    BY <1>3 DEF CutBatch
  <2>5. determined_epoch_id' \in -1 .. MaxEpoch
    BY <2>1
  <2> QED BY <2>2, <2>3, <2>4, <2>5 DEF IInv, TypeOK, CountTypes, PcTypes, epochRest
<1>4. ASSUME NEW c \in Clients, RecvAdd(c)
      PROVE  CountTypes'
  <2>1. PICK id \in 0 .. MaxTxId :
          /\ net' = net \cup {AckAddMsg(c, id)}
          /\ \/ UNCHANGED <<recieved_tx_id, tx_epoch>>
             \/ /\ recieved_tx_id' = [recieved_tx_id EXCEPT ![c] = id]
                /\ tx_epoch' = [tx_epoch EXCEPT ![c] = determined_epoch_id + 1]
    BY <1>4 DEF RecvAdd
  <2>2. UNCHANGED determined_epoch_id /\ determined_epoch_id \in -1 .. MaxEpoch
    BY <1>4 DEF RecvAdd, recvRest, IInv, TypeOK, CountTypes, PcTypes
  <2>3. net' \subseteq Datagrams(determined_epoch_id')
    BY <2>1, <2>2 DEF IInv, TypeOK, CountTypes, PcTypes
  <2>4. /\ recieved_tx_id' \in [Clients -> -1 .. MaxTxId]
        /\ tx_epoch' \in [Clients -> -1 .. MaxEpoch + 1]
    <3>1. determined_epoch_id + 1 \in -1 .. MaxEpoch + 1 /\ id \in -1 .. MaxTxId
      BY <2>2
    <3>2. /\ recieved_tx_id \in [Clients -> -1 .. MaxTxId]
          /\ tx_epoch \in [Clients -> -1 .. MaxEpoch + 1]
      BY DEF IInv, TypeOK, CountTypes, PcTypes
    <3> QED BY <2>1, <3>1, <3>2
  <2>5. recv_pc' = [recv_pc EXCEPT ![c] = "loop"] /\ UNCHANGED recvRest
    BY <1>4 DEF RecvAdd
  <2> QED BY <2>2, <2>3, <2>4, <2>5 DEF IInv, TypeOK, CountTypes, PcTypes, recvRest
<1>5. ASSUME NEW c \in Clients, WorkerReceive(c)
      PROVE  CountTypes'
  <2>1. request[c] # "none" /\ request[c] # "finish" => tx_id[c] < MaxTxId
    <3>1. request[c] \in {"none", "tx", "finish"}
      BY DEF IInv, TypeOK, CountTypes, PcTypes
    <3> QED BY <3>1 DEF IInv, TurnInv
  <2>2. tx_id' \in [Clients -> -1 .. MaxTxId]
    <3>1. tx_id \in [Clients -> -1 .. MaxTxId]
      BY DEF IInv, TypeOK, CountTypes, PcTypes
    <3>2. tx_id[c] < MaxTxId => tx_id[c] + 1 \in -1 .. MaxTxId
      BY <3>1
    <3>3. \/ UNCHANGED tx_id
          \/ tx_id[c] < MaxTxId /\ tx_id' = [tx_id EXCEPT ![c] = @ + 1]
      BY <1>5, <2>1 DEF WorkerReceive
    <3> QED BY <3>1, <3>2, <3>3
  <2>3. /\ tx_epoch' \in [Clients -> -1 .. MaxEpoch + 1]
        /\ complete_flag' \in [Clients -> {0, 1}]
    <3>1. -1 \in -1 .. MaxEpoch + 1
      OBVIOUS
    <3>2. /\ tx_epoch \in [Clients -> -1 .. MaxEpoch + 1]
          /\ complete_flag \in [Clients -> {0, 1}]
      BY DEF IInv, TypeOK, CountTypes, PcTypes
    <3>3. /\ UNCHANGED tx_epoch \/ tx_epoch' = [tx_epoch EXCEPT ![c] = -1]
          /\ UNCHANGED complete_flag \/ complete_flag' = [complete_flag EXCEPT ![c] = 0]
      BY <1>5 DEF WorkerReceive, txVars
    <3> QED BY <3>1, <3>2, <3>3
  <2>4. /\ worker_pc' \in [Clients -> {"none", "loop", "receive", "send_add",
                                      "wait_ack", "wait_flag", "ended"}]
        /\ request' \in [Clients -> {"none", "tx", "finish"}]
    <3>1. /\ worker_pc \in [Clients -> {"none", "loop", "receive", "send_add",
                                       "wait_ack", "wait_flag", "ended"}]
          /\ request \in [Clients -> {"none", "tx", "finish"}]
      BY DEF IInv, TypeOK, CountTypes, PcTypes
    <3>2. /\ request' = [request EXCEPT ![c] = "none"]
          /\ \/ worker_pc' = [worker_pc EXCEPT ![c] = "send_add"]
             \/ worker_pc' = [worker_pc EXCEPT ![c] = "ended"]
      BY <1>5 DEF WorkerReceive
    <3> QED BY <3>1, <3>2
  <2>5. UNCHANGED <<response, net, workerRest>>
    BY <1>5 DEF WorkerReceive
  <2> QED BY <2>2, <2>3, <2>4, <2>5 DEF IInv, TypeOK, CountTypes, PcTypes,
             workerRest
<1>6. ASSUME NEW c \in Clients, SendAdd(c)
      PROVE  CountTypes'
  <2>1. worker_pc[c] = "send_add" => tx_id[c] \in 0 .. MaxTxId
    BY DEF IInv, TypeOK, CountTypes, PcTypes, TurnInv, TxEpochInv
  <2>2. net' \subseteq Datagrams(determined_epoch_id')
    BY <1>6, <2>1 DEF SendAdd, IInv, TypeOK, CountTypes, PcTypes, workerRest,
       masterVars
  <2> QED BY <1>6, <2>2 DEF IInv, TypeOK, CountTypes, PcTypes, SendAdd, workerRest
<1>7. ASSUME NEW s \in Slaves, Send(s)
      PROVE  CountTypes'
  <2>1. send_pc[s] = "send" => next_epoch_id[s] \in 0 .. determined_epoch_id
    BY DEF IInv, TypeOK, CountTypes, PcTypes, EpochInv
  <2>2. net' \subseteq Datagrams(determined_epoch_id')
    BY <1>7, <2>1 DEF Send, IInv, TypeOK, CountTypes, PcTypes, sendRest, masterVars
  <2> QED BY <1>7, <2>2 DEF IInv, TypeOK, CountTypes, PcTypes, Send, sendRest
<1>8. ASSUME NEW s \in Slaves, RecvAck(s)
      PROVE  CountTypes'
  BY <1>8 DEF IInv, TypeOK, CountTypes, RecvAck, sendRest
<1>9. ASSUME NEW s \in Slaves, RecvBatch(s)
      PROVE  CountTypes'
  <2>1. PICK e \in 0 .. next_batch_epoch_id[s] :
          /\ BatchMsg(s, e) \in net
          /\ net' = net \cup {AckMsg(s, e)}
          /\ \/ e = next_batch_epoch_id[s] /\ next_batch_epoch_id' =
                  [next_batch_epoch_id EXCEPT ![s] = @ + 1]
             \/ UNCHANGED next_batch_epoch_id
    BY <1>9 DEF RecvBatch
  <2>2. UNCHANGED determined_epoch_id /\ determined_epoch_id \in -1 .. MaxEpoch
    BY <1>9 DEF RecvBatch, slaveRest, masterVars, IInv, TypeOK, CountTypes, PcTypes
  <2>3. e \in 0 .. determined_epoch_id
    BY <2>1, <2>2 DEF IInv, TypeOK, CountTypes, PcTypes
  <2>4. net' \subseteq Datagrams(determined_epoch_id')
    BY <2>1, <2>2, <2>3 DEF IInv, TypeOK, CountTypes, PcTypes
  <2>5. next_batch_epoch_id' \in [Slaves -> 0 .. determined_epoch_id' + 1]
    <3>1. next_batch_epoch_id \in [Slaves -> 0 .. determined_epoch_id + 1]
      BY DEF IInv, TypeOK, CountTypes, PcTypes
    <3>2. e = next_batch_epoch_id[s] =>
            next_batch_epoch_id[s] + 1 \in 0 .. determined_epoch_id + 1
      BY <2>2, <2>3
    <3> QED BY <2>1, <2>2, <3>1, <3>2
  <2> QED BY <1>9, <2>2, <2>4, <2>5 DEF IInv, TypeOK, CountTypes, PcTypes,
             RecvBatch, slaveRest
<1>10. ASSUME NEW r \in Replicas, ExecuteBatch(r)
      PROVE  CountTypes'
  <2>1. /\ executed[r] < determined_epoch_id + 1
        /\ executed[r] \in 0 .. determined_epoch_id + 1
        /\ determined_epoch_id \in -1 .. MaxEpoch
    <3>1. executed[r] < Queued(r)
      BY <1>10 DEF ExecuteBatch, IInv, EpochInv
    <3>2. Queued(r) <= determined_epoch_id + 1
      BY DEF Queued, IInv, TypeOK, CountTypes, PcTypes, Replicas
    <3> QED BY <3>1, <3>2 DEF IInv, TypeOK, CountTypes, PcTypes, Queued, Replicas
  <2>2. UNCHANGED determined_epoch_id
    BY <1>10 DEF ExecuteBatch, schedRest, masterVars
  <2>3. executed' \in [Replicas -> 0 .. determined_epoch_id' + 1]
    BY <1>10, <2>1, <2>2 DEF ExecuteBatch, IInv, TypeOK, CountTypes, PcTypes
  <2>4. /\ complete_flag' \in [Clients -> {0, 1}]
        /\ write_pc' \in [Replicas -> {"none", "loop", "execute", "ended"}]
    BY <1>10 DEF ExecuteBatch, IInv, TypeOK, CountTypes, PcTypes
  <2>5. UNCHANGED schedRest
    BY <1>10 DEF ExecuteBatch
  <2> QED BY <2>3, <2>4, <2>5 DEF IInv, TypeOK, CountTypes, PcTypes, schedRest
<1>11. CASE UNCHANGED <<determined_epoch_id, next_epoch_id, recieved_tx_id,
                        executed, next_batch_epoch_id, tx_id, complete_flag,
                        tx_epoch, net>>
  BY <1>11 DEF IInv, TypeOK, CountTypes
<1>12. CASE TimeUp \/ CreateThreads \/ MasterStart \/ MasterFinish \/
             MasterJoin \/ EpochStart \/ EpochLoop \/ EpochJoin
  <2>1. UNCHANGED <<determined_epoch_id, next_epoch_id, recieved_tx_id, executed,
                    next_batch_epoch_id, tx_id, complete_flag, tx_epoch, net>>
    BY <1>12 DEF
      TimeUp, CreateThreads, MasterStart, MasterFinish, MasterJoin,
      EpochStart, EpochLoop, EpochJoin, epochRest
  <2> QED BY <1>11, <2>1
<1>13. ASSUME NEW c \in Clients,
             ClientRequest(c) \/ ClientReceive(c) \/ RecvStart(c) \/
             RecvLoop(c) \/ Accept(c) \/ WorkerLoop(c) \/ WaitAck(c) \/
             WaitFlag(c)
      PROVE  CountTypes'
  <2>1. UNCHANGED <<determined_epoch_id, next_epoch_id, recieved_tx_id, executed,
                    next_batch_epoch_id, tx_id, complete_flag, tx_epoch, net>>
    BY <1>13 DEF
      ClientRequest, ClientReceive, RecvStart, RecvLoop, Accept,
      WorkerLoop, WaitAck, WaitFlag, recvRest, workerRest
  <2> QED BY <1>11, <2>1
<1>14. ASSUME NEW s \in Slaves,
             SendStartLoop(s) \/ SendLoop(s) \/ SendTimeout(s) \/
             SequencerLoop(s) \/ AllAccepted(s) \/ SlaveFinish(s) \/
             InterfaceJoin(s) \/ SlaveJoin(s)
      PROVE  CountTypes'
  <2>1. UNCHANGED <<determined_epoch_id, next_epoch_id, recieved_tx_id, executed,
                    next_batch_epoch_id, tx_id, complete_flag, tx_epoch, net>>
    BY <1>14 DEF
      SendStartLoop, SendLoop, SendTimeout, SequencerLoop, AllAccepted,
      SlaveFinish, InterfaceJoin, SlaveJoin, sendRest, slaveRest
  <2> QED BY <1>11, <2>1
<1>15. ASSUME NEW r \in Replicas,
             WriteLoop(r)
      PROVE  CountTypes'
  <2>1. UNCHANGED <<determined_epoch_id, next_epoch_id, recieved_tx_id, executed,
                    next_batch_epoch_id, tx_id, complete_flag, tx_epoch, net>>
    BY <1>15 DEF
      WriteLoop, schedRest
  <2> QED BY <1>11, <2>1
<1>16. CASE UNCHANGED vars
  BY <1>11, <1>16 DEF vars
<1> QED
  BY <1>1, <1>2, <1>3, <1>4, <1>5, <1>6, <1>7, <1>8, <1>9, <1>10, <1>12,
     <1>13, <1>14, <1>15, <1>16 DEF Next, ClientMain, MasterMain,
     EpochThread, Receive, Client, RecvThread, Worker, SendThread,
     Interface, WriteScheduler

(* Only StartClients and SendFinish send what the master acts on.          *)
LEMMA BeforeStartPreserved == IInv /\ [Next]_vars => BeforeStartInv'
<1> SUFFICES ASSUME IInv, [Next]_vars
             PROVE  BeforeStartInv'
  OBVIOUS
<1> USE ReplicaAssumption, DatagramFields
<1>1. CASE StartClients
  BY <1>1 DEF IInv, BeforeStartInv, Finish, StartClients, clientVars,
     masterVars
<1>2. CASE SendFinish
  BY <1>2 DEF IInv, BeforeStartInv, Finish, SendFinish, clientVars, masterVars
<1>3. CASE CreateThreads
  BY <1>3 DEF IInv, BeforeStartInv, Finish, CreateThreads, clientVars,
     masterVars
<1>4. CASE MasterStart
  BY <1>4 DEF IInv, BeforeStartInv, Finish, MasterStart, clientVars,
     masterVars
<1>5. CASE MasterFinish
  BY <1>5 DEF IInv, BeforeStartInv, Finish, Replicas, MasterFinish,
     clientVars, masterVars
<1>6. CASE EpochStart
  BY <1>6 DEF IInv, BeforeStartInv, Finish, EpochStart, epochRest,
     clientVars, masterVars
<1>7. CASE EpochLoop
  BY <1>7 DEF IInv, BeforeStartInv, Finish, EpochLoop, epochRest,
     clientVars, masterVars
<1>8. CASE CutBatch
  BY <1>8 DEF IInv, BeforeStartInv, Finish, CutBatch, epochRest,
     clientVars, masterVars
<1>9. CASE EpochJoin
  BY <1>9 DEF IInv, BeforeStartInv, Finish, EpochJoin, epochRest,
     clientVars, masterVars
<1>10. ASSUME NEW c \in Clients, RecvAdd(c)
      PROVE  BeforeStartInv'
  BY <1>10 DEF IInv, BeforeStartInv, Finish, RecvAdd, recvRest,
     clientVars, masterVars
<1>11. ASSUME NEW c \in Clients, SendAdd(c)
      PROVE  BeforeStartInv'
  BY <1>11 DEF IInv, BeforeStartInv, Finish, SendAdd, workerRest,
     clientVars, masterVars
<1>12. ASSUME NEW s \in Slaves, Send(s)
      PROVE  BeforeStartInv'
  BY <1>12 DEF IInv, BeforeStartInv, Finish, Send, sendRest, clientVars,
     masterVars
<1>13. ASSUME NEW s \in Slaves, RecvBatch(s)
      PROVE  BeforeStartInv'
  BY <1>13 DEF IInv, BeforeStartInv, Finish, RecvBatch, slaveRest,
     clientVars, masterVars
<1>14. ASSUME NEW s \in Slaves, SlaveFinish(s)
      PROVE  BeforeStartInv'
  BY <1>14 DEF IInv, BeforeStartInv, Finish, SlaveFinish, slaveRest,
     clientVars, masterVars
<1>15. CASE UNCHANGED <<client_main, epoch_pc, determined_epoch_id,
                        system_finish_request, net>>
  BY <1>15 DEF IInv, BeforeStartInv, Finish
<1>16. CASE TimeUp \/ MasterJoin
  <2>1. UNCHANGED <<client_main, epoch_pc, determined_epoch_id,
                    system_finish_request, net>>
    BY <1>16 DEF
    TimeUp, MasterJoin, clientVars, masterVars
  <2> QED BY <1>15, <2>1
<1>17. ASSUME NEW c \in Clients,
             ClientRequest(c) \/ ClientReceive(c) \/ RecvStart(c) \/
             RecvLoop(c) \/ Accept(c) \/ WorkerLoop(c) \/
             WorkerReceive(c) \/ WaitAck(c) \/ WaitFlag(c)
      PROVE  BeforeStartInv'
  <2>1. UNCHANGED <<client_main, epoch_pc, determined_epoch_id,
                    system_finish_request, net>>
    BY <1>17 DEF
    ClientRequest, ClientReceive, RecvStart, RecvLoop, Accept, WorkerLoop,
    WorkerReceive, WaitAck, WaitFlag, recvRest, workerRest, clientVars,
    masterVars
  <2> QED BY <1>15, <2>1
<1>18. ASSUME NEW s \in Slaves,
             SendStartLoop(s) \/ SendLoop(s) \/ RecvAck(s) \/
             SendTimeout(s) \/ SequencerLoop(s) \/ AllAccepted(s) \/
             InterfaceJoin(s) \/ SlaveJoin(s)
      PROVE  BeforeStartInv'
  <2>1. UNCHANGED <<client_main, epoch_pc, determined_epoch_id,
                    system_finish_request, net>>
    BY <1>18 DEF
    SendStartLoop, SendLoop, RecvAck, SendTimeout, SequencerLoop,
    AllAccepted, InterfaceJoin, SlaveJoin, sendRest, slaveRest,
    clientVars, masterVars
  <2> QED BY <1>15, <2>1
<1>19. ASSUME NEW r \in Replicas,
             WriteLoop(r) \/ ExecuteBatch(r)
      PROVE  BeforeStartInv'
  <2>1. UNCHANGED <<client_main, epoch_pc, determined_epoch_id,
                    system_finish_request, net>>
    BY <1>19 DEF
    WriteLoop, ExecuteBatch, schedRest, clientVars, masterVars
  <2> QED BY <1>15, <2>1
<1>20. CASE UNCHANGED vars
  BY <1>15, <1>20 DEF vars, clientVars, masterVars
<1> QED BY <1>1, <1>2, <1>3, <1>4, <1>5, <1>6, <1>7, <1>8, <1>9, <1>10,
   <1>11, <1>12, <1>13, <1>14, <1>16, <1>17, <1>18, <1>19, <1>20 DEF Next,
   ClientMain,
  MasterMain, EpochThread, Receive, Client, RecvThread, Worker, SendThread,
  Interface, WriteScheduler

(* A sender, a sequencer and a scheduler follow what is before them.       *)
LEMMA EpochPreserved == IInv /\ [Next]_vars => EpochInv'
<1> SUFFICES ASSUME IInv, [Next]_vars
             PROVE  EpochInv'
  OBVIOUS
<1> USE ReplicaAssumption, BoundAssumption
<1>1. CASE CreateThreads
  BY <1>1 DEF IInv, TypeOK, PcTypes, CountTypes, EpochInv, Queued, Replicas,
     CreateThreads,
     masterVars, schedVars, slaveVars
<1>2. CASE EpochStart
  BY <1>2 DEF IInv, TypeOK, PcTypes, CountTypes, EpochInv, Queued, Replicas,
     EpochStart,
     epochRest, masterVars, schedVars, slaveVars
<1>3. CASE EpochLoop
  BY <1>3 DEF IInv, TypeOK, PcTypes, CountTypes, EpochInv, Queued, Replicas,
     EpochLoop,
     epochRest, masterVars, schedVars, slaveVars
<1>4. CASE CutBatch
  BY <1>4 DEF IInv, TypeOK, PcTypes, CountTypes, EpochInv, Queued, Replicas,
     CutBatch,
     epochRest, masterVars, schedVars, slaveVars
<1>5. CASE EpochJoin
  BY <1>5 DEF IInv, TypeOK, PcTypes, CountTypes, EpochInv, Queued, Replicas,
     EpochJoin,
     epochRest, masterVars, schedVars, slaveVars
<1>6. ASSUME NEW s \in Slaves, SendStartLoop(s)
      PROVE  EpochInv'
  BY <1>6 DEF IInv, TypeOK, PcTypes, CountTypes, EpochInv, Queued, Replicas,
     SendStartLoop,
     sendRest, masterVars, schedVars, slaveVars
<1>7. ASSUME NEW s \in Slaves, SendLoop(s)
      PROVE  EpochInv'
  BY <1>7 DEF IInv, TypeOK, PcTypes, CountTypes, EpochInv, Queued, Replicas,
     SendLoop,
     sendRest, masterVars, schedVars, slaveVars
<1>8. ASSUME NEW s \in Slaves, Send(s)
      PROVE  EpochInv'
  BY <1>8 DEF IInv, TypeOK, PcTypes, CountTypes, EpochInv, Queued, Replicas, Send,
     sendRest,
     masterVars, schedVars, slaveVars
<1>9. ASSUME NEW s \in Slaves, RecvAck(s)
      PROVE  EpochInv'
  BY <1>9 DEF IInv, TypeOK, PcTypes, CountTypes, EpochInv, Queued, Replicas,
     RecvAck, sendRest,
     masterVars, schedVars, slaveVars
<1>10. ASSUME NEW s \in Slaves, SendTimeout(s)
      PROVE  EpochInv'
  BY <1>10 DEF IInv, TypeOK, PcTypes, CountTypes, EpochInv, Queued, Replicas,
     SendTimeout,
     sendRest, masterVars, schedVars, slaveVars
<1>11. ASSUME NEW s \in Slaves, RecvBatch(s)
      PROVE  EpochInv'
  BY SMTT(60), <1>11 DEF IInv, TypeOK, PcTypes, CountTypes, EpochInv, Queued,
     Replicas, RecvBatch,
     slaveRest, masterVars, schedVars, slaveVars
<1>12. ASSUME NEW r \in Replicas, WriteLoop(r)
      PROVE  EpochInv'
  BY <1>12 DEF IInv, TypeOK, PcTypes, CountTypes, EpochInv, Queued, Replicas,
     WriteLoop,
     schedRest, masterVars, schedVars, slaveVars
<1>13. ASSUME NEW r \in Replicas, ExecuteBatch(r)
      PROVE  EpochInv'
  BY <1>13 DEF IInv, TypeOK, PcTypes, CountTypes, EpochInv, Queued, Replicas,
     ExecuteBatch,
     schedRest, masterVars, schedVars, slaveVars
<1>14. CASE UNCHANGED <<epoch_pc, determined_epoch_id, send_pc, next_epoch_id,
                        executed, next_batch_epoch_id, write_pc>>
  BY <1>14 DEF IInv, TypeOK, PcTypes, CountTypes, EpochInv, Queued, Replicas
<1>15. CASE StartClients \/ TimeUp \/ SendFinish \/ MasterStart \/
             MasterFinish \/ MasterJoin
  <2>1. UNCHANGED <<epoch_pc, determined_epoch_id, send_pc, next_epoch_id,
                    executed, next_batch_epoch_id, write_pc>>
    BY <1>15 DEF
    StartClients, TimeUp, SendFinish, MasterStart, MasterFinish,
    MasterJoin, masterVars, schedVars, slaveVars
  <2> QED BY <1>14, <2>1
<1>16. ASSUME NEW c \in Clients,
             ClientRequest(c) \/ ClientReceive(c) \/ RecvStart(c) \/
             RecvLoop(c) \/ RecvAdd(c) \/ Accept(c) \/ WorkerLoop(c) \/
             WorkerReceive(c) \/ SendAdd(c) \/ WaitAck(c) \/ WaitFlag(c)
      PROVE  EpochInv'
  <2>1. UNCHANGED <<epoch_pc, determined_epoch_id, send_pc, next_epoch_id,
                    executed, next_batch_epoch_id, write_pc>>
    BY <1>16 DEF
    ClientRequest, ClientReceive, RecvStart, RecvLoop, RecvAdd, Accept,
    WorkerLoop, WorkerReceive, SendAdd, WaitAck, WaitFlag, recvRest,
    workerRest, masterVars, schedVars, slaveVars
  <2> QED BY <1>14, <2>1
<1>17. ASSUME NEW s \in Slaves,
             SequencerLoop(s) \/ AllAccepted(s) \/ SlaveFinish(s) \/
             InterfaceJoin(s) \/ SlaveJoin(s)
      PROVE  EpochInv'
  <2>1. UNCHANGED <<epoch_pc, determined_epoch_id, send_pc, next_epoch_id,
                    executed, next_batch_epoch_id, write_pc>>
    BY <1>17 DEF
    SequencerLoop, AllAccepted, SlaveFinish, InterfaceJoin, SlaveJoin,
    slaveRest, masterVars, schedVars, slaveVars
  <2> QED BY <1>14, <2>1
<1>18. CASE UNCHANGED vars
  BY <1>14, <1>18 DEF vars, masterVars, schedVars, slaveVars
<1> QED BY <1>1, <1>2, <1>3, <1>4, <1>5, <1>6, <1>7, <1>8, <1>9, <1>10,
   <1>11, <1>12, <1>13, <1>15, <1>16, <1>17, <1>18 DEF Next, ClientMain,
  MasterMain, EpochThread, Receive, Client, RecvThread, Worker, SendThread,
  Interface, WriteScheduler

(* The interface of a slave decides when its process may end.              *)
LEMMA FinishPreserved == IInv /\ [Next]_vars => (SlaveSchedulerRuns /\ FinishInv)'
<1> SUFFICES ASSUME IInv, [Next]_vars
             PROVE  (SlaveSchedulerRuns /\ FinishInv)'
  OBVIOUS
<1> USE ReplicaAssumption
<1>1. CASE CreateThreads
  BY <1>1 DEF IInv, TypeOK, PcTypes, CountTypes, SlaveSchedulerRuns, FinishInv,
     Finish,
     Replicas, CreateThreads, schedVars, slaveVars, workerVars
<1>2. CASE MasterStart
  BY <1>2 DEF IInv, TypeOK, PcTypes, CountTypes, SlaveSchedulerRuns, FinishInv,
     Finish,
     Replicas, MasterStart, schedVars, slaveVars, workerVars
<1>3. CASE MasterFinish
  BY <1>3 DEF IInv, TypeOK, PcTypes, CountTypes, SlaveSchedulerRuns, FinishInv,
     Finish,
     Replicas, MasterFinish, schedVars, slaveVars, workerVars
<1>4. ASSUME NEW c \in Clients, Accept(c)
      PROVE  (SlaveSchedulerRuns /\ FinishInv)'
  BY <1>4 DEF IInv, TypeOK, PcTypes, CountTypes, SlaveSchedulerRuns, FinishInv,
     Finish,
     Replicas, Accept, schedVars, slaveVars, workerVars
<1>5. ASSUME NEW c \in Clients, WorkerLoop(c)
      PROVE  (SlaveSchedulerRuns /\ FinishInv)'
  BY <1>5 DEF IInv, TypeOK, PcTypes, CountTypes, SlaveSchedulerRuns, FinishInv,
     Finish,
     Replicas, WorkerLoop, workerRest, schedVars, slaveVars, workerVars
<1>6. ASSUME NEW c \in Clients, WorkerReceive(c)
      PROVE  (SlaveSchedulerRuns /\ FinishInv)'
  BY <1>6 DEF IInv, TypeOK, PcTypes, CountTypes, SlaveSchedulerRuns, FinishInv,
     Finish,
     Replicas, WorkerReceive, workerRest, schedVars, slaveVars, workerVars
<1>7. ASSUME NEW c \in Clients, SendAdd(c)
      PROVE  (SlaveSchedulerRuns /\ FinishInv)'
  BY <1>7 DEF IInv, TypeOK, PcTypes, CountTypes, SlaveSchedulerRuns, FinishInv,
     Finish,
     Replicas, SendAdd, workerRest, schedVars, slaveVars, workerVars
<1>8. ASSUME NEW c \in Clients, WaitAck(c)
      PROVE  (SlaveSchedulerRuns /\ FinishInv)'
  BY <1>8 DEF IInv, TypeOK, PcTypes, CountTypes, SlaveSchedulerRuns, FinishInv,
     Finish,
     Replicas, WaitAck, workerRest, schedVars, slaveVars, workerVars
<1>9. ASSUME NEW c \in Clients, WaitFlag(c)
      PROVE  (SlaveSchedulerRuns /\ FinishInv)'
  BY <1>9 DEF IInv, TypeOK, PcTypes, CountTypes, SlaveSchedulerRuns, FinishInv,
     Finish,
     Replicas, WaitFlag, workerRest, schedVars, slaveVars, workerVars
<1>10. ASSUME NEW s \in Slaves, AllAccepted(s)
      PROVE  (SlaveSchedulerRuns /\ FinishInv)'
  BY <1>10 DEF IInv, TypeOK, PcTypes, CountTypes, SlaveSchedulerRuns, FinishInv,
     Finish,
     Replicas, AllAccepted, slaveRest, schedVars, slaveVars, workerVars
<1>11. ASSUME NEW s \in Slaves, SlaveFinish(s)
      PROVE  (SlaveSchedulerRuns /\ FinishInv)'
  BY <1>11 DEF IInv, TypeOK, PcTypes, CountTypes, SlaveSchedulerRuns, FinishInv,
     Finish,
     Replicas, SlaveFinish, slaveRest, schedVars, slaveVars, workerVars
<1>12. ASSUME NEW s \in Slaves, InterfaceJoin(s)
      PROVE  (SlaveSchedulerRuns /\ FinishInv)'
  BY <1>12 DEF IInv, TypeOK, PcTypes, CountTypes, SlaveSchedulerRuns, FinishInv,
     Finish,
     Replicas, InterfaceJoin, slaveRest, schedVars, slaveVars, workerVars
<1>13. ASSUME NEW s \in Slaves, SlaveJoin(s)
      PROVE  (SlaveSchedulerRuns /\ FinishInv)'
  BY <1>13 DEF IInv, TypeOK, PcTypes, CountTypes, SlaveSchedulerRuns, FinishInv,
     Finish,
     Replicas, SlaveJoin, slaveRest, schedVars, slaveVars, workerVars
<1>14. ASSUME NEW r \in Replicas, WriteLoop(r)
      PROVE  (SlaveSchedulerRuns /\ FinishInv)'
  BY <1>14 DEF IInv, TypeOK, PcTypes, CountTypes, SlaveSchedulerRuns, FinishInv,
     Finish,
     Replicas, WriteLoop, schedRest, schedVars, slaveVars, workerVars
<1>15. ASSUME NEW r \in Replicas, ExecuteBatch(r)
      PROVE  (SlaveSchedulerRuns /\ FinishInv)'
  BY <1>15 DEF IInv, TypeOK, PcTypes, CountTypes, SlaveSchedulerRuns, FinishInv,
     Finish,
     Replicas, ExecuteBatch, schedRest, schedVars, slaveVars, workerVars
<1>16. CASE UNCHANGED <<system_finish_request, write_pc, interface_pc, slave_main,
                        worker_pc>>
  BY <1>16 DEF IInv, TypeOK, PcTypes, CountTypes, SlaveSchedulerRuns, FinishInv,
     Finish, Replicas
<1>17. CASE StartClients \/ TimeUp \/ SendFinish \/ MasterJoin \/
             EpochStart \/ EpochLoop \/ CutBatch \/ EpochJoin
  <2>1. UNCHANGED <<system_finish_request, write_pc, interface_pc, slave_main,
                    worker_pc>>
    BY <1>17 DEF
    StartClients, TimeUp, SendFinish, MasterJoin, EpochStart, EpochLoop,
    CutBatch, EpochJoin, epochRest, schedVars, slaveVars, workerVars
  <2> QED BY <1>16, <2>1
<1>18. ASSUME NEW c \in Clients,
             ClientRequest(c) \/ ClientReceive(c) \/ RecvStart(c) \/
             RecvLoop(c) \/ RecvAdd(c)
      PROVE  (SlaveSchedulerRuns /\ FinishInv)'
  <2>1. UNCHANGED <<system_finish_request, write_pc, interface_pc, slave_main,
                    worker_pc>>
    BY <1>18 DEF
    ClientRequest, ClientReceive, RecvStart, RecvLoop, RecvAdd, recvRest,
    schedVars, slaveVars, workerVars
  <2> QED BY <1>16, <2>1
<1>19. ASSUME NEW s \in Slaves,
             SendStartLoop(s) \/ SendLoop(s) \/ Send(s) \/ RecvAck(s) \/
             SendTimeout(s) \/ SequencerLoop(s) \/ RecvBatch(s)
      PROVE  (SlaveSchedulerRuns /\ FinishInv)'
  <2>1. UNCHANGED <<system_finish_request, write_pc, interface_pc, slave_main,
                    worker_pc>>
    BY <1>19 DEF
    SendStartLoop, SendLoop, Send, RecvAck, SendTimeout, SequencerLoop,
    RecvBatch, sendRest, slaveRest, schedVars, slaveVars, workerVars
  <2> QED BY <1>16, <2>1
<1>20. CASE UNCHANGED vars
  BY <1>16, <1>20 DEF vars, schedVars, slaveVars, workerVars
<1> QED BY <1>1, <1>2, <1>3, <1>4, <1>5, <1>6, <1>7, <1>8, <1>9, <1>10,
   <1>11, <1>12, <1>13, <1>14, <1>15, <1>17, <1>18, <1>19, <1>20 DEF Next,
   ClientMain,
  MasterMain, EpochThread, Receive, Client, RecvThread, Worker, SendThread,
  Interface, WriteScheduler

(* A client moves only when its worker has answered or ended.              *)
LEMMA TurnPreserved == IInv /\ [Next]_vars => TurnInv'
<1> SUFFICES ASSUME IInv, [Next]_vars
             PROVE  TurnInv'
  OBVIOUS
<1> USE ReplicaAssumption, BoundAssumption
<1>1. CASE MasterStart
  BY <1>1 DEF IInv, TypeOK, PcTypes, CountTypes, TurnInv, FinishInv, Finish,
     MasterStart,
     clientVars, tcpVars, workerVars, txVars
<1>2. CASE MasterFinish
  BY <1>2 DEF IInv, TypeOK, PcTypes, CountTypes, TurnInv, FinishInv, Finish,
     MasterFinish,
     clientVars, tcpVars, workerVars, txVars
<1>3. ASSUME NEW c \in Clients, ClientRequest(c)
      PROVE  TurnInv'
  BY <1>3 DEF IInv, TypeOK, PcTypes, CountTypes, TurnInv, FinishInv, Finish,
     ClientRequest,
     clientVars, tcpVars, workerVars, txVars
<1>4. ASSUME NEW c \in Clients, ClientReceive(c)
      PROVE  TurnInv'
  BY <1>4 DEF IInv, TypeOK, PcTypes, CountTypes, TurnInv, FinishInv, Finish,
     ClientReceive,
     clientVars, tcpVars, workerVars, txVars
<1>5. ASSUME NEW c \in Clients, Accept(c)
      PROVE  TurnInv'
  BY <1>5 DEF IInv, TypeOK, PcTypes, CountTypes, TurnInv, FinishInv, Finish, Accept,
     clientVars, tcpVars, workerVars, txVars
<1>6. ASSUME NEW c \in Clients, WorkerLoop(c)
      PROVE  TurnInv'
  BY <1>6 DEF IInv, TypeOK, PcTypes, CountTypes, TurnInv, FinishInv, Finish,
     WorkerLoop,
     workerRest, clientVars, tcpVars, workerVars, txVars
<1>7. ASSUME NEW c \in Clients, WorkerReceive(c)
      PROVE  TurnInv'
  BY <1>7 DEF IInv, TypeOK, PcTypes, CountTypes, TurnInv, FinishInv, Finish,
     WorkerReceive,
     workerRest, clientVars, tcpVars, workerVars, txVars
<1>8. ASSUME NEW c \in Clients, SendAdd(c)
      PROVE  TurnInv'
  BY <1>8 DEF IInv, TypeOK, PcTypes, CountTypes, TurnInv, FinishInv, Finish,
     SendAdd,
     workerRest, clientVars, tcpVars, workerVars, txVars
<1>9. ASSUME NEW c \in Clients, WaitAck(c)
      PROVE  TurnInv'
  BY <1>9 DEF IInv, TypeOK, PcTypes, CountTypes, TurnInv, FinishInv, Finish,
     WaitAck,
     workerRest, clientVars, tcpVars, workerVars, txVars
<1>10. ASSUME NEW c \in Clients, WaitFlag(c)
      PROVE  TurnInv'
  BY <1>10 DEF IInv, TypeOK, PcTypes, CountTypes, TurnInv, FinishInv, Finish,
     WaitFlag,
     workerRest, clientVars, tcpVars, workerVars, txVars
<1>11. ASSUME NEW s \in Slaves, SlaveFinish(s)
      PROVE  TurnInv'
  BY <1>11 DEF IInv, TypeOK, PcTypes, CountTypes, TurnInv, FinishInv, Finish,
     SlaveFinish,
     slaveRest, clientVars, tcpVars, workerVars, txVars
<1>12. ASSUME NEW r \in Replicas, ExecuteBatch(r)
      PROVE  TurnInv'
  BY <1>12 DEF IInv, TypeOK, PcTypes, CountTypes, TurnInv, FinishInv, Finish,
     ExecuteBatch,
     schedRest, clientVars, tcpVars, workerVars, txVars
<1>13. CASE UNCHANGED <<system_finish_request, client_pc, request, response,
                        worker_pc, tx_id, complete_flag>>
  BY <1>13 DEF IInv, TypeOK, PcTypes, CountTypes, TurnInv, FinishInv, Finish
<1>14. CASE StartClients \/ TimeUp \/ SendFinish \/ CreateThreads \/
             MasterJoin \/ EpochStart \/ EpochLoop \/ CutBatch \/
             EpochJoin
  <2>1. UNCHANGED <<system_finish_request, client_pc, request, response, worker_pc,
                    tx_id, complete_flag>>
    BY <1>14 DEF
    StartClients, TimeUp, SendFinish, CreateThreads, MasterJoin,
    EpochStart, EpochLoop, CutBatch, EpochJoin, epochRest, clientVars,
    tcpVars, workerVars, txVars
  <2> QED BY <1>13, <2>1
<1>15. ASSUME NEW c \in Clients,
             RecvStart(c) \/ RecvLoop(c) \/ RecvAdd(c)
      PROVE  TurnInv'
  <2>1. UNCHANGED <<system_finish_request, client_pc, request, response, worker_pc,
                    tx_id, complete_flag>>
    BY <1>15 DEF
    RecvStart, RecvLoop, RecvAdd, recvRest, clientVars, tcpVars,
    workerVars, txVars
  <2> QED BY <1>13, <2>1
<1>16. ASSUME NEW s \in Slaves,
             SendStartLoop(s) \/ SendLoop(s) \/ Send(s) \/ RecvAck(s) \/
             SendTimeout(s) \/ SequencerLoop(s) \/ RecvBatch(s) \/
             AllAccepted(s) \/ InterfaceJoin(s) \/ SlaveJoin(s)
      PROVE  TurnInv'
  <2>1. UNCHANGED <<system_finish_request, client_pc, request, response, worker_pc,
                    tx_id, complete_flag>>
    BY <1>16 DEF
    SendStartLoop, SendLoop, Send, RecvAck, SendTimeout, SequencerLoop,
    RecvBatch, AllAccepted, InterfaceJoin, SlaveJoin, sendRest, slaveRest,
    clientVars, tcpVars, workerVars, txVars
  <2> QED BY <1>13, <2>1
<1>17. ASSUME NEW r \in Replicas,
             WriteLoop(r)
      PROVE  TurnInv'
  <2>1. UNCHANGED <<system_finish_request, client_pc, request, response, worker_pc,
                    tx_id, complete_flag>>
    BY <1>17 DEF
    WriteLoop, schedRest, clientVars, tcpVars, workerVars, txVars
  <2> QED BY <1>13, <2>1
<1>18. CASE UNCHANGED vars
  BY <1>13, <1>18 DEF vars, clientVars, tcpVars, workerVars, txVars
<1> QED BY <1>1, <1>2, <1>3, <1>4, <1>5, <1>6, <1>7, <1>8, <1>9, <1>10,
   <1>11, <1>12, <1>14, <1>15, <1>16, <1>17, <1>18 DEF Next, ClientMain,
  MasterMain, EpochThread, Receive, Client, RecvThread, Worker, SendThread,
  Interface, WriteScheduler

(* A new transaction comes to the master only while its worker waits.      *)
LEMMA TxEpochPreserved == IInv /\ [Next]_vars => TxEpochInv'
<1> SUFFICES ASSUME IInv, [Next]_vars
             PROVE  TxEpochInv'
  OBVIOUS
<1> USE ReplicaAssumption, BoundAssumption, DatagramFields
<1>1. CASE StartClients
  BY <1>1 DEF IInv, TypeOK, PcTypes, CountTypes, TurnInv, EpochInv, TxEpochInv,
     StartClients,
     masterVars, schedVars, workerVars, txVars
<1>2. CASE SendFinish
  BY <1>2 DEF IInv, TypeOK, PcTypes, CountTypes, TurnInv, EpochInv, TxEpochInv,
     SendFinish,
     masterVars, schedVars, workerVars, txVars
<1>3. ASSUME NEW c \in Clients, RecvAdd(c)
      PROVE  TxEpochInv'
  BY SMTT(60), <1>3 DEF IInv, TypeOK, PcTypes, CountTypes, TurnInv, EpochInv,
     TxEpochInv, RecvAdd,
     recvRest, masterVars, schedVars, workerVars, txVars
<1>4. ASSUME NEW c \in Clients, WorkerReceive(c)
      PROVE  TxEpochInv'
  BY <1>4 DEF IInv, TypeOK, PcTypes, CountTypes, TurnInv, EpochInv, TxEpochInv,
     WorkerReceive,
     workerRest, masterVars, schedVars, workerVars, txVars
<1>5. ASSUME NEW c \in Clients, SendAdd(c)
      PROVE  TxEpochInv'
  BY SMTT(60), <1>5 DEF IInv, TypeOK, PcTypes, CountTypes, TurnInv, EpochInv,
     TxEpochInv, SendAdd,
     workerRest, masterVars, schedVars, workerVars, txVars
<1>6. ASSUME NEW s \in Slaves, Send(s)
      PROVE  TxEpochInv'
  BY <1>6 DEF IInv, TypeOK, PcTypes, CountTypes, TurnInv, EpochInv, TxEpochInv,
     Send, sendRest,
     masterVars, schedVars, workerVars, txVars
<1>7. ASSUME NEW s \in Slaves, RecvBatch(s)
      PROVE  TxEpochInv'
  BY <1>7 DEF IInv, TypeOK, PcTypes, CountTypes, TurnInv, EpochInv, TxEpochInv,
     RecvBatch,
     slaveRest, masterVars, schedVars, workerVars, txVars
<1>8. ASSUME NEW r \in Replicas, ExecuteBatch(r)
      PROVE  TxEpochInv'
  BY <1>8 DEF IInv, TypeOK, PcTypes, CountTypes, TurnInv, EpochInv, TxEpochInv,
     ExecuteBatch,
     schedRest, masterVars, schedVars, workerVars, txVars
<1>9. CASE UNCHANGED <<recieved_tx_id, tx_id, tx_epoch, complete_flag, executed,
                       net>>
  BY <1>9 DEF IInv, TypeOK, PcTypes, CountTypes, TurnInv, EpochInv, TxEpochInv
<1>10. CASE TimeUp \/ CreateThreads \/ MasterStart \/ MasterFinish \/
             MasterJoin \/ EpochStart \/ EpochLoop \/ CutBatch \/
             EpochJoin
  <2>1. UNCHANGED <<recieved_tx_id, tx_id, tx_epoch, complete_flag, executed, net>>
    BY <1>10 DEF
    TimeUp, CreateThreads, MasterStart, MasterFinish, MasterJoin,
    EpochStart, EpochLoop, CutBatch, EpochJoin, epochRest, masterVars,
    schedVars, workerVars, txVars
  <2> QED BY <1>9, <2>1
<1>11. ASSUME NEW c \in Clients,
             ClientRequest(c) \/ ClientReceive(c) \/ RecvStart(c) \/
             RecvLoop(c) \/ Accept(c) \/ WorkerLoop(c) \/ WaitAck(c) \/
             WaitFlag(c)
      PROVE  TxEpochInv'
  <2>1. UNCHANGED <<recieved_tx_id, tx_id, tx_epoch, complete_flag, executed, net>>
    BY <1>11 DEF
    ClientRequest, ClientReceive, RecvStart, RecvLoop, Accept, WorkerLoop,
    WaitAck, WaitFlag, recvRest, workerRest, masterVars, schedVars,
    workerVars, txVars
  <2> QED BY <1>9, <2>1
<1>12. ASSUME NEW s \in Slaves,
             SendStartLoop(s) \/ SendLoop(s) \/ RecvAck(s) \/
             SendTimeout(s) \/ SequencerLoop(s) \/ AllAccepted(s) \/
             SlaveFinish(s) \/ InterfaceJoin(s) \/ SlaveJoin(s)
      PROVE  TxEpochInv'
  <2>1. UNCHANGED <<recieved_tx_id, tx_id, tx_epoch, complete_flag, executed, net>>
    BY <1>12 DEF
    SendStartLoop, SendLoop, RecvAck, SendTimeout, SequencerLoop,
    AllAccepted, SlaveFinish, InterfaceJoin, SlaveJoin, sendRest,
    slaveRest, masterVars, schedVars, workerVars, txVars
  <2> QED BY <1>9, <2>1
<1>13. ASSUME NEW r \in Replicas,
             WriteLoop(r)
      PROVE  TxEpochInv'
  <2>1. UNCHANGED <<recieved_tx_id, tx_id, tx_epoch, complete_flag, executed, net>>
    BY <1>13 DEF
    WriteLoop, schedRest, masterVars, schedVars, workerVars, txVars
  <2> QED BY <1>9, <2>1
<1>14. CASE UNCHANGED vars
  BY <1>9, <1>14 DEF vars, masterVars, schedVars, workerVars, txVars
<1> QED BY <1>1, <1>2, <1>3, <1>4, <1>5, <1>6, <1>7, <1>8, <1>10, <1>11,
   <1>12, <1>13, <1>14 DEF Next, ClientMain,
  MasterMain, EpochThread, Receive, Client, RecvThread, Worker, SendThread,
  Interface, WriteScheduler

-----------------------------------------------------------------------------
LEMMA InitInv == Init => IInv
<1> SUFFICES ASSUME Init
             PROVE  IInv
  OBVIOUS
<1> USE ReplicaAssumption, BoundAssumption DEF Init, Finish, FinishAtStart
<1>1. TypeOK
  <2>1. /\ system_finish_request \in [Replicas -> {-1, 0, 1}]
        /\ write_pc \in [Replicas -> {"none", "loop", "execute", "ended"}]
    OBVIOUS
  <2>2. 0 \in 0 .. -1 + 1 /\ -1 \in -1 .. MaxEpoch /\ -1 \in -1 .. MaxTxId
        /\ -1 \in -1 .. MaxEpoch + 1
    OBVIOUS
  <2>3. /\ determined_epoch_id = -1
        /\ next_epoch_id \in [Slaves -> 0 .. -1 + 1]
        /\ executed \in [Replicas -> 0 .. -1 + 1]
        /\ next_batch_epoch_id \in [Slaves -> 0 .. -1 + 1]
        /\ recieved_tx_id \in [Clients -> -1 .. MaxTxId]
        /\ tx_id \in [Clients -> -1 .. MaxTxId]
        /\ tx_epoch \in [Clients -> -1 .. MaxEpoch + 1]
    BY <2>2
  <2> QED BY <2>1, <2>2, <2>3 DEF TypeOK, PcTypes, CountTypes
<1>2. SlaveSchedulerRuns /\ FinishInv
  BY DEF SlaveSchedulerRuns, FinishInv, Replicas
<1>3. BeforeStartInv
  BY DEF BeforeStartInv, Replicas
<1>4. EpochInv
  <2>1. \A r \in Replicas : executed[r] = 0 /\ write_pc[r] # "execute" /\ Queued(r) = 0
    BY DEF Queued, Replicas
  <2> QED BY <2>1 DEF EpochInv
<1>5. TurnInv
  BY DEF TurnInv
<1>6. TxEpochInv
  BY DEF TxEpochInv
<1> QED BY <1>1, <1>2, <1>3, <1>4, <1>5, <1>6 DEF IInv

(* IInv holds in every reachable state: of its parts, FinishInv and        *)
(* TurnInv are about the threads of a slave and its clients, EpochInv and  *)
(* TxEpochInv about how far batches and transactions are.                  *)
THEOREM Invariance == Spec => []IInv
<1>1. IInv /\ [Next]_vars => IInv'
  BY PcPreserved, CountsPreserved, BeforeStartPreserved,
     EpochPreserved, FinishPreserved,
     TurnPreserved, TxEpochPreserved DEF IInv, TypeOK, CountTypes
<1> QED BY <1>1, InitInv, PTL DEF Spec

(* With the invariant of the run: until a client program has been started, *)
(* no batch is determined, queued or executed anywhere, and the scheduler  *)
(* of a slave ends only after the slave's finish request.                  *)
THEOREM NothingBeforeStart == Spec => []StartInv
<1>1. IInv => MasterWaitsForStart
  <2> SUFFICES ASSUME IInv, client_main = "start", NEW r \in Replicas
               PROVE  Queued(r) = 0 /\ executed[r] = 0
    BY DEF MasterWaitsForStart
  <2>1. determined_epoch_id = -1
    BY DEF IInv, BeforeStartInv
  <2>2. executed[r] \in 0 .. 0 /\ (r # Master => next_batch_epoch_id[r] \in 0 .. 0)
    BY <2>1 DEF IInv, TypeOK, PcTypes, CountTypes, Replicas
  <2> QED BY <2>1, <2>2 DEF Queued
<1>2. IInv => StartInv
  BY <1>1 DEF StartInv
<1> QED BY <1>2, Invariance, PTL

(* Wherever the finish request finds a worker, it does not tell its client *)
(* that a transaction is done which the slave has not executed.            *)
THEOREM AnswersAreTrue == Spec => []NoFalseAnswer
<1>1. IInv => NoFalseAnswer
  BY DEF IInv, NoFalseAnswer, TurnInv, TxEpochInv
<1> QED BY <1>1, Invariance, PTL

(* Before the finish request of a slave its scheduler never raises the     *)
(* flag of a worker that has ended and freed its Tx: such a worker ended   *)
(* at a farewell, and the flag was up before that.                         *)
THEOREM LiveTxNotified == Spec => NotifiesLiveTx
<1>1. IInv /\ [Next]_vars =>
        [\A c \in Clients :
           complete_flag[c] = 0 /\ complete_flag'[c] = 1
             => worker_pc[c] # "ended" \/ Finish(Home[c]) = 1]_vars
  BY DEF IInv, TurnInv
<1> QED BY <1>1, Invariance, PTL DEF Spec, NotifiesLiveTx
=============================================================================
