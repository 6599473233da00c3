------------------------------ MODULE Lifecycle ------------------------------
(***************************************************************************)
(* Start and finish of the system: when each thread begins to work, and    *)
(* whether it ends once the finish request has come.                       *)
(*                                                                         *)
(*   client/client_time.c                the start and finish datagrams    *)
(*   client/client_txnum.c               the client program without them   *)
(*   master/master.c, slave/slave.c      the processes and their joins     *)
(*   master/master_sequencer.c, slave/slave_sequencer.c,                   *)
(*   client_interface/client_interface.c, scheduler/*.c                    *)
(*                                       the loops on                      *)
(*                                       system_finish_request             *)
(*                                                                         *)
(* Of the work in between only what decides where a thread is at the       *)
(* finish is kept.  All requests are writes, as the clients' write_rate is *)
(* 100, so that the read schedulers, whose loop is that of the write       *)
(* schedulers, have nothing to do.  A batch is its epoch, and tx_epoch     *)
(* says whose transactions are in it.  Batches come from the master only,  *)
(* and are never full.                                                     *)
(***************************************************************************)
EXTENDS Integers

CONSTANTS
  Master, Slaves, Clients,
  Home,      \* Home[c]: the slave client c is connected to
  Program,   \* "client_time" or "client_txnum"
  MaxEpoch,  \* bound: the last epoch the master determines
  MaxTxId    \* bound: the last transaction id of a client

Replicas == {Master} \cup Slaves

ASSUME ReplicaAssumption == Master \notin Slaves /\ Home \in [Clients -> Slaves]
ASSUME ProgramAssumption == Program \in {"client_time", "client_txnum"}
ASSUME BoundAssumption   == MaxEpoch \in Nat /\ MaxTxId \in Nat

VARIABLES
  system_finish_request,  \* of each process: -1 before the start on the
                          \* master, 0 continue, 1 finish
  \* the client program
  client_main,  \* "start", "run", "join"
  time_up,      \* execute_time has passed
  client_pc,    \* of client thread c: "connect", "request", "wait", "ended"
  request,      \* what it sent over TCP: "none", "tx", "finish"
  response,     \* whether a response is on its way to it
  \* the master
  master_main,  \* "create", "listen", "join", "ended"
  epoch_pc,     \* "none", "wait_start", "loop", "collect", "join", "ended"
  recv_pc,      \* per client: "none", "wait_start", "loop", "recv", "ended"
  send_pc,      \* per slave: "none", "wait_start", "loop", "send",
                \* "wait_ack", "ended"
  determined_epoch_id, next_epoch_id, recieved_tx_id,
  write_pc,     \* write scheduler: "none", "loop", "execute", "ended"
  executed,     \* how many batches the write scheduler has executed
  \* a slave
  interface_pc, \* "accept", "listen", "join", "ended"
  sequencer_pc, \* "loop", "recv", "ended"
  next_batch_epoch_id,
  slave_main,   \* "write_scheduler", "ended"
  worker_pc,    \* per client: "none", "loop", "receive", "send_add",
                \* "wait_ack", "wait_flag", "ended"
  tx_id,        \* the transaction worker c is at
  complete_flag,
  tx_epoch,     \* the epoch of the batch it is in, -1 if in none
  net           \* the datagrams sent so far.  UDP: each may be received at
                \* any later time, repeatedly, in any order, or never

clientVars == <<client_main, time_up, client_pc>>
tcpVars    == <<request, response>>
masterVars == <<master_main, epoch_pc, recv_pc, send_pc, determined_epoch_id,
                next_epoch_id, recieved_tx_id>>
schedVars  == <<write_pc, executed>>
slaveVars  == <<interface_pc, sequencer_pc, next_batch_epoch_id, slave_main>>
workerVars == <<worker_pc, tx_id>>
txVars     == <<complete_flag, tx_epoch>>
vars == <<system_finish_request, clientVars, tcpVars, masterVars, schedVars,
          slaveVars, workerVars, txVars, net>>

Finish(r) == system_finish_request[r]

StartMsg == [type |-> "start"]
FinishMsg(r) == [type |-> "finish", dst |-> r]
AddMsg(c, id) == [type |-> "ADD_TO_BATCH", client |-> c, id |-> id]
AckAddMsg(c, id) == [type |-> "ACK_ADD", client |-> c, id |-> id]
BatchMsg(s, e) == [type |-> "BATCH", dst |-> s, epoch_id |-> e]
AckMsg(s, e) == [type |-> "ACK_BATCH", src |-> s, epoch_id |-> e]

-----------------------------------------------------------------------------
(* Mutant: the master, too, keeps the 0 of create_config. *)
InitialContinue == [r \in Replicas |-> 0]

(* master.c sets -1 before it creates a thread, create_config 0.           *)
FinishAtStart == [r \in Replicas |-> IF r = Master THEN -1 ELSE 0]

Init ==
  /\ system_finish_request = FinishAtStart
  /\ client_main = "start"
  /\ time_up = FALSE
  /\ client_pc = [c \in Clients |-> "connect"]
  /\ request = [c \in Clients |-> "none"]
  /\ response = [c \in Clients |-> FALSE]
  /\ master_main = "create"
  /\ epoch_pc = "none"
  /\ recv_pc = [c \in Clients |-> "none"]
  /\ send_pc = [s \in Slaves |-> "none"]
  /\ determined_epoch_id = -1
  /\ next_epoch_id = [s \in Slaves |-> 0]
  /\ recieved_tx_id = [c \in Clients |-> -1]
  /\ write_pc = [r \in Replicas |-> IF r = Master THEN "none" ELSE "loop"]
  /\ executed = [r \in Replicas |-> 0]
  /\ interface_pc = [s \in Slaves |-> "accept"]
  /\ sequencer_pc = [s \in Slaves |-> "loop"]
  /\ next_batch_epoch_id = [s \in Slaves |-> 0]
  /\ slave_main = [s \in Slaves |-> "write_scheduler"]
  /\ worker_pc = [c \in Clients |-> "none"]
  /\ tx_id = [c \in Clients |-> -1]
  /\ complete_flag = [c \in Clients |-> 0]
  /\ tx_epoch = [c \in Clients |-> -1]
  /\ net = {}

-----------------------------------------------------------------------------
(* client_time sends one start datagram, to the master ...  client_txnum   *)
(* creates its threads and joins them.                                     *)
StartClients ==
  /\ client_main = "start"
  /\ IF Program = "client_time"
       THEN client_main' = "run" /\ net' = net \cup {StartMsg}
       ELSE client_main' = "join" /\ UNCHANGED net
  /\ UNCHANGED <<system_finish_request, time_up, client_pc, tcpVars,
                 masterVars, schedVars, slaveVars, workerVars, txVars>>

TimeUp ==
  /\ client_main = "run"
  /\ time_up' = TRUE
  /\ UNCHANGED <<system_finish_request, client_main, client_pc, tcpVars,
                 masterVars, schedVars, slaveVars, workerVars, txVars, net>>

(* ... and one finish datagram to every replica when the time is up.       *)
SendFinish ==
  /\ client_main = "run" /\ time_up
  /\ client_main' = "join"
  /\ net' = net \cup {FinishMsg(r) : r \in Replicas}
  /\ UNCHANGED <<system_finish_request, time_up, client_pc, tcpVars,
                 masterVars, schedVars, slaveVars, workerVars, txVars>>

(* A client thread requests, one transaction at a time ...                 *)
ClientRequest(c) ==
  /\ client_pc[c] = "request"
  /\ client_pc' = [client_pc EXCEPT ![c] = "wait"]
  /\ request' = [request EXCEPT ![c] = "tx"]
  /\ UNCHANGED <<system_finish_request, client_main, time_up, response,
                 masterVars, schedVars, slaveVars, workerVars, txVars, net>>

(* ... until a response comes after the time or, in client_txnum, until    *)
(* tx_num transactions are done.  Then it requests the finish of its       *)
(* worker and ends.  It also stops waiting if the slave has ended.         *)
WasLast(c) ==
  IF Program = "client_time" THEN time_up ELSE tx_id[c] = MaxTxId

ClientReceive(c) ==
  /\ client_pc[c] = "wait"
  /\ response[c] \/ slave_main[Home[c]] = "ended"
  /\ response' = [response EXCEPT ![c] = FALSE]
  /\ IF WasLast(c)
       THEN /\ client_pc' = [client_pc EXCEPT ![c] = "ended"]
            /\ request' = [request EXCEPT ![c] = "finish"]
       ELSE /\ tx_id[c] < MaxTxId
            /\ client_pc' = [client_pc EXCEPT ![c] = "request"]
            /\ UNCHANGED request
  /\ UNCHANGED <<system_finish_request, client_main, time_up, masterVars,
                 schedVars, slaveVars, workerVars, txVars, net>>

-----------------------------------------------------------------------------
(* master.c creates the sequencer, which creates its receiving and sending *)
(* threads, and the schedulers, and then opens its port.                   *)
CreateThreads ==
  /\ master_main = "create"
  /\ master_main' = "listen"
  /\ epoch_pc' = "wait_start"
  /\ recv_pc' = [c \in Clients |-> "wait_start"]
  /\ send_pc' = [s \in Slaves |-> "wait_start"]
  /\ write_pc' = [write_pc EXCEPT ![Master] = "loop"]
  /\ UNCHANGED <<system_finish_request, clientVars, tcpVars,
                 determined_epoch_id, next_epoch_id, recieved_tx_id, executed,
                 slaveVars, workerVars, txVars, net>>

MasterStart ==
  /\ master_main = "listen"
  /\ StartMsg \in net
  /\ system_finish_request' = [system_finish_request EXCEPT ![Master] = 0]
  /\ UNCHANGED <<clientVars, tcpVars, masterVars, schedVars, slaveVars,
                 workerVars, txVars, net>>

MasterFinish ==
  /\ master_main = "listen"
  /\ FinishMsg(Master) \in net
  /\ system_finish_request' = [system_finish_request EXCEPT ![Master] = 1]
  /\ master_main' = "join"
  /\ UNCHANGED <<clientVars, tcpVars, epoch_pc, recv_pc, send_pc,
                 determined_epoch_id, next_epoch_id, recieved_tx_id, schedVars,
                 slaveVars, workerVars, txVars, net>>

MasterJoin ==
  /\ master_main = "join"
  /\ epoch_pc = "ended" /\ write_pc[Master] = "ended"
  /\ master_main' = "ended"
  /\ UNCHANGED <<system_finish_request, clientVars, tcpVars, epoch_pc, recv_pc,
                 send_pc, determined_epoch_id, next_epoch_id, recieved_tx_id,
                 schedVars, slaveVars, workerVars, txVars, net>>

epochRest == <<system_finish_request, clientVars, tcpVars, master_main, recv_pc,
               send_pc, next_epoch_id, recieved_tx_id, schedVars, slaveVars,
               workerVars, txVars, net>>

(* Mutant: the epoch thread waits for a 1. *)
EpochStartAtOne ==
  /\ epoch_pc = "wait_start" /\ Finish(Master) = 1
  /\ epoch_pc' = "loop"
  /\ UNCHANGED <<determined_epoch_id, epochRest>>

EpochStart ==
  /\ epoch_pc = "wait_start" /\ Finish(Master) = 0
  /\ epoch_pc' = "loop"
  /\ UNCHANGED <<determined_epoch_id, epochRest>>

EpochLoop ==
  /\ epoch_pc = "loop"
  /\ \/ /\ Finish(Master) = 0 /\ determined_epoch_id < MaxEpoch
        /\ epoch_pc' = "collect"
     \/ Finish(Master) # 0 /\ epoch_pc' = "join"
  /\ UNCHANGED <<determined_epoch_id, epochRest>>

(* The epoch is over, be there a finish request by now or not.             *)
CutBatch ==
  /\ epoch_pc = "collect"
  /\ determined_epoch_id' = determined_epoch_id + 1
  /\ epoch_pc' = "loop"
  /\ UNCHANGED epochRest

EpochJoin ==
  /\ epoch_pc = "join"
  /\ \A c \in Clients : recv_pc[c] = "ended"
  /\ \A s \in Slaves : send_pc[s] = "ended"
  /\ epoch_pc' = "ended"
  /\ UNCHANGED <<determined_epoch_id, epochRest>>

recvRest == <<system_finish_request, clientVars, tcpVars, master_main, epoch_pc,
              send_pc, determined_epoch_id, next_epoch_id, schedVars, slaveVars,
              workerVars, complete_flag>>

RecvStart(c) ==
  /\ recv_pc[c] = "wait_start" /\ Finish(Master) = 0
  /\ recv_pc' = [recv_pc EXCEPT ![c] = "loop"]
  /\ UNCHANGED <<recieved_tx_id, tx_epoch, net, recvRest>>

RecvLoop(c) ==
  /\ recv_pc[c] = "loop"
  /\ recv_pc' = [recv_pc EXCEPT
                   ![c] = IF Finish(Master) = 0 THEN "recv" ELSE "ended"]
  /\ UNCHANGED <<recieved_tx_id, tx_epoch, net, recvRest>>

(* recvfrom blocks until a datagram comes.  A transaction that is new goes *)
(* into the collecting batch.                                              *)
RecvAdd(c) ==
  /\ recv_pc[c] = "recv"
  /\ \E id \in 0 .. MaxTxId :
       /\ AddMsg(c, id) \in net
       /\ net' = net \cup {AckAddMsg(c, id)}
       /\ IF id <= recieved_tx_id[c]
            THEN UNCHANGED <<recieved_tx_id, tx_epoch>>
            ELSE /\ recieved_tx_id' = [recieved_tx_id EXCEPT ![c] = id]
                 /\ tx_epoch' = [tx_epoch EXCEPT
                                   ![c] = determined_epoch_id + 1]
  /\ recv_pc' = [recv_pc EXCEPT ![c] = "loop"]
  /\ UNCHANGED recvRest

sendRest == <<system_finish_request, clientVars, tcpVars, master_main, epoch_pc,
              recv_pc, determined_epoch_id, recieved_tx_id, schedVars,
              slaveVars, workerVars, txVars>>

SendStartLoop(s) ==
  /\ send_pc[s] = "wait_start" /\ Finish(Master) = 0
  /\ send_pc' = [send_pc EXCEPT ![s] = "loop"]
  /\ UNCHANGED <<next_epoch_id, net, sendRest>>

SendLoop(s) ==
  /\ send_pc[s] = "loop"
  /\ \/ /\ Finish(Master) = 0 /\ determined_epoch_id >= next_epoch_id[s]
        /\ send_pc' = [send_pc EXCEPT ![s] = "send"]
     \/ /\ Finish(Master) # 0
        /\ send_pc' = [send_pc EXCEPT ![s] = "ended"]
  /\ UNCHANGED <<next_epoch_id, net, sendRest>>

(* Mutant: the sender does not look for the finish before it resends. *)
SendAlways(s) ==
  /\ send_pc[s] = "send"
  /\ send_pc' = [send_pc EXCEPT ![s] = "wait_ack"]
  /\ net' = net \cup {BatchMsg(s, next_epoch_id[s])}
  /\ UNCHANGED <<next_epoch_id, sendRest>>

Send(s) ==
  /\ send_pc[s] = "send"
  /\ IF Finish(Master) = 1
       THEN send_pc' = [send_pc EXCEPT ![s] = "loop"] /\ UNCHANGED net
       ELSE /\ send_pc' = [send_pc EXCEPT ![s] = "wait_ack"]
            /\ net' = net \cup {BatchMsg(s, next_epoch_id[s])}
  /\ UNCHANGED <<next_epoch_id, sendRest>>

(* Waiting for the ACK, the sender does not look for the finish.           *)
RecvAck(s) ==
  /\ send_pc[s] = "wait_ack"
  /\ AckMsg(s, next_epoch_id[s]) \in net
  /\ next_epoch_id' = [next_epoch_id EXCEPT ![s] = @ + 1]
  /\ send_pc' = [send_pc EXCEPT ![s] = "loop"]
  /\ UNCHANGED <<net, sendRest>>

SendTimeout(s) ==
  /\ send_pc[s] = "wait_ack"
  /\ send_pc' = [send_pc EXCEPT ![s] = "send"]
  /\ UNCHANGED <<next_epoch_id, net, sendRest>>

-----------------------------------------------------------------------------
schedRest == <<system_finish_request, clientVars, tcpVars, masterVars,
               slaveVars, workerVars, tx_epoch, net>>

(* How many batches were added to the scheduler's queue.                   *)
Queued(r) ==
  IF r = Master THEN determined_epoch_id + 1 ELSE next_batch_epoch_id[r]

WriteLoop(r) ==
  /\ write_pc[r] = "loop"
  /\ \/ /\ Finish(r) = 0 /\ executed[r] < Queued(r)
        /\ write_pc' = [write_pc EXCEPT ![r] = "execute"]
     \/ /\ Finish(r) # 0
        /\ write_pc' = [write_pc EXCEPT ![r] = "ended"]
  /\ UNCHANGED <<executed, complete_flag, schedRest>>

(* The whole batch, also if the finish request comes meanwhile.            *)
ExecuteBatch(r) ==
  /\ write_pc[r] = "execute"
  /\ complete_flag' = [c \in Clients |->
                         IF Home[c] = r /\ tx_epoch[c] = executed[r]
                           THEN 1 ELSE complete_flag[c]]
  /\ executed' = [executed EXCEPT ![r] = @ + 1]
  /\ write_pc' = [write_pc EXCEPT ![r] = "loop"]
  /\ UNCHANGED schedRest

-----------------------------------------------------------------------------
slaveRest == <<clientVars, tcpVars, masterVars, schedVars, workerVars, txVars>>

SequencerLoop(s) ==
  /\ sequencer_pc[s] = "loop"
  /\ sequencer_pc' = [sequencer_pc EXCEPT
                        ![s] = IF Finish(s) = 0 THEN "recv" ELSE "ended"]
  /\ UNCHANGED <<system_finish_request, interface_pc, next_batch_epoch_id,
                 slave_main, net, slaveRest>>

(* The sequencer blocks until a batch comes, and accepts or acknowledges   *)
(* it again.                                                               *)
RecvBatch(s) ==
  /\ sequencer_pc[s] = "recv"
  /\ \E e \in 0 .. next_batch_epoch_id[s] :
       /\ BatchMsg(s, e) \in net
       /\ net' = net \cup {AckMsg(s, e)}
       /\ IF e = next_batch_epoch_id[s]
            THEN next_batch_epoch_id' = [next_batch_epoch_id EXCEPT ![s] = @ + 1]
            ELSE UNCHANGED next_batch_epoch_id
  /\ sequencer_pc' = [sequencer_pc EXCEPT ![s] = "loop"]
  /\ UNCHANGED <<system_finish_request, interface_pc, slave_main, slaveRest>>

(* The client interface accepts every client before it opens the port for  *)
(* the finish request.                                                     *)
Accept(c) ==
  /\ interface_pc[Home[c]] = "accept"
  /\ client_main # "start" /\ client_pc[c] = "connect"
  /\ client_pc' = [client_pc EXCEPT ![c] = "request"]
  /\ worker_pc' = [worker_pc EXCEPT ![c] = "loop"]
  /\ UNCHANGED <<system_finish_request, client_main, time_up, tcpVars,
                 masterVars, schedVars, slaveVars, tx_id, txVars, net>>

AllAccepted(s) ==
  /\ interface_pc[s] = "accept"
  /\ \A c \in Clients : Home[c] = s => worker_pc[c] # "none"
  /\ interface_pc' = [interface_pc EXCEPT ![s] = "listen"]
  /\ UNCHANGED <<system_finish_request, sequencer_pc, next_batch_epoch_id,
                 slave_main, net, slaveRest>>

SlaveFinish(s) ==
  /\ interface_pc[s] = "listen"
  /\ FinishMsg(s) \in net
  /\ system_finish_request' = [system_finish_request EXCEPT ![s] = 1]
  /\ interface_pc' = [interface_pc EXCEPT ![s] = "join"]
  /\ UNCHANGED <<sequencer_pc, next_batch_epoch_id, slave_main, net, slaveRest>>

InterfaceJoin(s) ==
  /\ interface_pc[s] = "join"
  /\ \A c \in Clients : Home[c] = s => worker_pc[c] = "ended"
  /\ interface_pc' = [interface_pc EXCEPT ![s] = "ended"]
  /\ UNCHANGED <<system_finish_request, sequencer_pc, next_batch_epoch_id,
                 slave_main, net, slaveRest>>

(* main of slave.c is the write scheduler, and joins the other threads.    *)
SlaveJoin(s) ==
  /\ slave_main[s] = "write_scheduler"
  /\ write_pc[s] = "ended" /\ interface_pc[s] = "ended"
  /\ sequencer_pc[s] = "ended"
  /\ slave_main' = [slave_main EXCEPT ![s] = "ended"]
  /\ UNCHANGED <<system_finish_request, interface_pc, sequencer_pc,
                 next_batch_epoch_id, net, slaveRest>>

-----------------------------------------------------------------------------
workerRest == <<system_finish_request, clientVars, masterVars, schedVars,
                slaveVars>>

WorkerLoop(c) ==
  /\ worker_pc[c] = "loop"
  /\ worker_pc' = [worker_pc EXCEPT
                     ![c] = IF Finish(Home[c]) # 1 THEN "receive" ELSE "ended"]
  /\ UNCHANGED <<tx_id, tcpVars, txVars, net, workerRest>>

(* A request comes over TCP, a transaction or the client's farewell.       *)
WorkerReceive(c) ==
  /\ worker_pc[c] = "receive"
  /\ request[c] # "none"
  /\ request' = [request EXCEPT ![c] = "none"]
  /\ IF request[c] = "finish"
       THEN /\ worker_pc' = [worker_pc EXCEPT ![c] = "ended"]
            /\ UNCHANGED <<tx_id, txVars>>
       ELSE /\ worker_pc' = [worker_pc EXCEPT ![c] = "send_add"]
            /\ tx_id' = [tx_id EXCEPT ![c] = @ + 1]
            /\ tx_epoch' = [tx_epoch EXCEPT ![c] = -1]
            /\ complete_flag' = [complete_flag EXCEPT ![c] = 0]
  /\ UNCHANGED <<response, net, workerRest>>

SendAdd(c) ==
  /\ worker_pc[c] = "send_add"
  /\ IF Finish(Home[c]) = 1
       THEN worker_pc' = [worker_pc EXCEPT ![c] = "wait_flag"] /\ UNCHANGED net
       ELSE /\ worker_pc' = [worker_pc EXCEPT ![c] = "wait_ack"]
            /\ net' = net \cup {AddMsg(c, tx_id[c])}
  /\ UNCHANGED <<tx_id, tcpVars, txVars, workerRest>>

(* Until the ACK comes, or the RTO passes, or the finish request is there. *)
WaitAck(c) ==
  /\ worker_pc[c] = "wait_ack"
  /\ \/ /\ AckAddMsg(c, tx_id[c]) \in net
        /\ worker_pc' = [worker_pc EXCEPT ![c] = "wait_flag"]
     \/ worker_pc' = [worker_pc EXCEPT ![c] = "send_add"]
  /\ UNCHANGED <<tx_id, tcpVars, txVars, net, workerRest>>

(* Mutant: the worker waits for the flag alone. *)
WaitFlagOnly(c) ==
  /\ worker_pc[c] = "wait_flag"
  /\ complete_flag[c] = 1
  /\ IF Finish(Home[c]) = 1
       THEN /\ worker_pc' = [worker_pc EXCEPT ![c] = "ended"]
            /\ UNCHANGED response
       ELSE /\ worker_pc' = [worker_pc EXCEPT ![c] = "loop"]
            /\ response' = [response EXCEPT ![c] = TRUE]
  /\ UNCHANGED <<tx_id, request, txVars, net, workerRest>>

(* Mutant: the worker answers, whatever ended the waiting. *)
WaitFlagAnswers(c) ==
  /\ worker_pc[c] = "wait_flag"
  /\ complete_flag[c] = 1 \/ Finish(Home[c]) # 0
  /\ worker_pc' = [worker_pc EXCEPT ![c] = "loop"]
  /\ response' = [response EXCEPT ![c] = TRUE]
  /\ UNCHANGED <<tx_id, request, txVars, net, workerRest>>

(* Mutant: the worker answers as soon as the master has acknowledged. *)
WaitFlagAtOnce(c) ==
  /\ worker_pc[c] = "wait_flag"
  /\ IF Finish(Home[c]) = 1
       THEN /\ worker_pc' = [worker_pc EXCEPT ![c] = "ended"]
            /\ UNCHANGED response
       ELSE /\ worker_pc' = [worker_pc EXCEPT ![c] = "loop"]
            /\ response' = [response EXCEPT ![c] = TRUE]
  /\ UNCHANGED <<tx_id, request, txVars, net, workerRest>>

(* The flag or the finish request ends the waiting; only without a finish  *)
(* request the client is answered.                                         *)
WaitFlag(c) ==
  /\ worker_pc[c] = "wait_flag"
  /\ complete_flag[c] = 1 \/ Finish(Home[c]) # 0
  /\ IF Finish(Home[c]) = 1
       THEN /\ worker_pc' = [worker_pc EXCEPT ![c] = "ended"]
            /\ UNCHANGED response
       ELSE /\ worker_pc' = [worker_pc EXCEPT ![c] = "loop"]
            /\ response' = [response EXCEPT ![c] = TRUE]
  /\ UNCHANGED <<tx_id, request, txVars, net, workerRest>>

-----------------------------------------------------------------------------
(* The steps that need a datagram, apart from those that do not: the       *)
(* network promises nothing.                                               *)
Receive ==
  \/ MasterStart \/ MasterFinish
  \/ \E c \in Clients : RecvAdd(c)
  \/ \E s \in Slaves : RecvAck(s) \/ RecvBatch(s) \/ SlaveFinish(s)

ClientMain == StartClients \/ TimeUp \/ SendFinish
Client(c) == ClientRequest(c) \/ ClientReceive(c)
MasterMain == CreateThreads \/ MasterJoin
EpochThread == EpochStart \/ EpochLoop \/ CutBatch \/ EpochJoin
RecvThread(c) == RecvStart(c) \/ RecvLoop(c)
SendThread(s) == SendStartLoop(s) \/ SendLoop(s) \/ Send(s) \/ SendTimeout(s)
WriteScheduler(r) == WriteLoop(r) \/ ExecuteBatch(r)
Interface(s) == AllAccepted(s) \/ InterfaceJoin(s)
Worker(c) == WorkerLoop(c) \/ WorkerReceive(c) \/ SendAdd(c) \/ WaitAck(c)
             \/ WaitFlag(c)

Next ==
  \/ ClientMain \/ MasterMain \/ EpochThread \/ Receive
  \/ \E c \in Clients : Client(c) \/ RecvThread(c) \/ Accept(c) \/ Worker(c)
  \/ \E s \in Slaves :
       SendThread(s) \/ SequencerLoop(s) \/ Interface(s) \/ SlaveJoin(s)
  \/ \E r \in Replicas : WriteScheduler(r)

Spec == Init /\ [][Next]_vars

(* A thread keeps running as long as it does not block, and TCP delivers;  *)
(* of the datagrams nothing is assumed.  For the beginning and the end of  *)
(* the epochs, the senders and the workers it is enough that these threads *)
(* run; the others may stop at any time.                                   *)
EndFairness ==
  /\ WF_vars(CreateThreads) /\ WF_vars(EpochStart)
  /\ \A c \in Clients : WF_vars(Client(c)) /\ WF_vars(Worker(c))
  /\ \A s \in Slaves : WF_vars(SendThread(s))

EndSpec == Spec /\ EndFairness

(* All of them run, and the time passes.                                   *)
Fairness ==
  /\ WF_vars(ClientMain) /\ WF_vars(MasterMain) /\ WF_vars(EpochThread)
  /\ \A c \in Clients : /\ WF_vars(Client(c)) /\ WF_vars(RecvThread(c))
                        /\ WF_vars(Accept(c)) /\ WF_vars(Worker(c))
  /\ \A s \in Slaves : /\ WF_vars(SendThread(s)) /\ WF_vars(SequencerLoop(s))
                       /\ WF_vars(Interface(s)) /\ WF_vars(SlaveJoin(s))
  /\ \A r \in Replicas : WF_vars(WriteScheduler(r))

FairSpec == Spec /\ Fairness

-----------------------------------------------------------------------------
(* The datagrams that may exist when the epochs up to e are determined.    *)
Datagrams(e) ==
  {StartMsg} \cup {FinishMsg(r) : r \in Replicas}
  \cup {AddMsg(c, id) : c \in Clients, id \in 0 .. MaxTxId}
  \cup {AckAddMsg(c, id) : c \in Clients, id \in 0 .. MaxTxId}
  \cup {BatchMsg(s, i) : s \in Slaves, i \in 0 .. e}
  \cup {AckMsg(s, i) : s \in Slaves, i \in 0 .. e}

PcTypes ==
  /\ system_finish_request \in [Replicas -> {-1, 0, 1}]
  /\ client_main \in {"start", "run", "join"} /\ time_up \in BOOLEAN
  /\ client_pc \in [Clients -> {"connect", "request", "wait", "ended"}]
  /\ request \in [Clients -> {"none", "tx", "finish"}]
  /\ response \in [Clients -> BOOLEAN]
  /\ master_main \in {"create", "listen", "join", "ended"}
  /\ epoch_pc \in {"none", "wait_start", "loop", "collect", "join", "ended"}
  /\ recv_pc \in [Clients -> {"none", "wait_start", "loop", "recv", "ended"}]
  /\ send_pc \in [Slaves -> {"none", "wait_start", "loop", "send", "wait_ack",
                             "ended"}]
  /\ write_pc \in [Replicas -> {"none", "loop", "execute", "ended"}]
  /\ interface_pc \in [Slaves -> {"accept", "listen", "join", "ended"}]
  /\ sequencer_pc \in [Slaves -> {"loop", "recv", "ended"}]
  /\ slave_main \in [Slaves -> {"write_scheduler", "ended"}]
  /\ worker_pc \in [Clients -> {"none", "loop", "receive", "send_add",
                                "wait_ack", "wait_flag", "ended"}]

CountTypes ==
  /\ determined_epoch_id \in -1 .. MaxEpoch
  /\ next_epoch_id \in [Slaves -> 0 .. determined_epoch_id + 1]
  /\ recieved_tx_id \in [Clients -> -1 .. MaxTxId]
  /\ executed \in [Replicas -> 0 .. determined_epoch_id + 1]
  /\ next_batch_epoch_id \in [Slaves -> 0 .. determined_epoch_id + 1]
  /\ tx_id \in [Clients -> -1 .. MaxTxId]
  /\ complete_flag \in [Clients -> {0, 1}]
  /\ tx_epoch \in [Clients -> -1 .. MaxEpoch + 1]
  /\ net \subseteq Datagrams(determined_epoch_id)

(* Every variable stays in its range; in particular a batch is sent, and   *)
(* acknowledged, only after the master has determined it, so the sending   *)
(* threads run at most one epoch past the last one (lines 407-409 of       *)
(* master_sequencer.c).                                                    *)
TypeOK == PcTypes /\ CountTypes

(* A client is answered only after its slave has executed the batch with   *)
(* its transaction: a worker that the finish request got out of the        *)
(* waiting, while the transaction is on its way to the master, in a batch  *)
(* or in the slave's queue, sends nothing (client_interface.c:160-165).    *)
NoFalseAnswer ==
  \A c \in Clients : response[c] =>
    tx_epoch[c] # -1 /\ executed[Home[c]] > tx_epoch[c]

(* "clientが起動するまで待つ" (master_sequencer.c:181): until the client      *)
(* program has been started the master determines nothing, although its    *)
(* threads, and those of the slaves, have long been running.               *)
MasterWaitsForStart ==
  client_main = "start" => \A r \in Replicas : Queued(r) = 0 /\ executed[r] = 0

(* The scheduler of a slave runs until the finish request has come to that *)
(* slave, in whichever order the requests of the client reach the replicas *)
(* (write_scheduler.c:25).                                                 *)
SlaveSchedulerRuns ==
  \A s \in Slaves : write_pc[s] = "ended" => Finish(s) = 1

-----------------------------------------------------------------------------
(* The client program has not been started: no datagram tells the master   *)
(* to begin, and its threads wait.                                         *)
BeforeStartInv ==
  client_main = "start" =>
    /\ epoch_pc \in {"none", "wait_start"} /\ determined_epoch_id = -1
    /\ Finish(Master) = -1
    /\ StartMsg \notin net /\ \A r \in Replicas : FinishMsg(r) \notin net

(* No thread is ahead of what is determined, sent or queued.               *)
EpochInv ==
  /\ epoch_pc = "collect" => determined_epoch_id < MaxEpoch
  /\ \A s \in Slaves :
       send_pc[s] \in {"send", "wait_ack"} => next_epoch_id[s] <= determined_epoch_id
  /\ \A r \in Replicas : /\ executed[r] <= Queued(r)
                         /\ write_pc[r] = "execute" => executed[r] < Queued(r)

(* The ends of a slave: its interface takes the finish request, waits for  *)
(* the workers and ends before the process does.                           *)
FinishInv ==
  \A s \in Slaves :
    /\ interface_pc[s] \in {"accept", "listen"} => Finish(s) = 0
    /\ interface_pc[s] \in {"join", "ended"} => Finish(s) = 1
    /\ interface_pc[s] = "ended" =>
         \A c \in Clients : Home[c] = s => worker_pc[c] = "ended"
    /\ slave_main[s] = "ended" => interface_pc[s] = "ended"

(* A client and its worker take turns: what the one has sent, the other    *)
(* waits for.  A worker ends at the finish request or at the farewell of a *)
(* client whose last transaction was executed.                             *)
TurnInv ==
  \A c \in Clients :
    /\ client_pc[c] = "connect" =>
         /\ worker_pc[c] = "none" /\ tx_id[c] = -1
         /\ request[c] = "none" /\ ~response[c]
    /\ client_pc[c] = "request" => tx_id[c] < MaxTxId
    /\ client_pc[c] = "ended" => complete_flag[c] = 1 \/ Finish(Home[c]) = 1
    /\ request[c] = "tx" =>
         /\ tx_id[c] < MaxTxId
         /\ \/ worker_pc[c] = "ended"
            \/ client_pc[c] = "wait" /\ worker_pc[c] \in {"loop", "receive"}
    /\ request[c] = "finish" => client_pc[c] = "ended"
    /\ response[c] => /\ client_pc[c] = "wait" /\ request[c] = "none"
                      /\ worker_pc[c] \in {"loop", "receive", "ended"}
                      /\ complete_flag[c] = 1
    /\ worker_pc[c] = "none" => client_pc[c] = "connect"
    /\ worker_pc[c] \in {"loop", "receive"} =>
         tx_id[c] = -1 \/ complete_flag[c] = 1
    /\ worker_pc[c] \in {"send_add", "wait_ack", "wait_flag"} =>
         client_pc[c] = "wait" /\ request[c] = "none" /\ tx_id[c] >= 0
    /\ worker_pc[c] = "ended" => client_pc[c] = "ended" \/ Finish(Home[c]) = 1

(* The master takes the transactions of a client in their order, and the   *)
(* next one only when the one before was executed, so that tx_epoch is     *)
(* that of the transaction the worker is at.                               *)
TxEpochInv ==
  \A c \in Clients :
    /\ recieved_tx_id[c] \in {tx_id[c] - 1, tx_id[c]}
    /\ \A id \in 0 .. MaxTxId : AddMsg(c, id) \in net => id <= tx_id[c]
    /\ tx_epoch[c] # -1 => recieved_tx_id[c] = tx_id[c]
    /\ complete_flag[c] = 1 => /\ tx_epoch[c] # -1
                               /\ executed[Home[c]] > tx_epoch[c]

(* What holds in every state and is inductive.                             *)
IInv ==
  /\ TypeOK /\ SlaveSchedulerRuns /\ BeforeStartInv /\ EpochInv
  /\ FinishInv /\ TurnInv /\ TxEpochInv

(* Nothing goes ahead without the start, and nothing but the finish ends a *)
(* scheduler of a slave (master_sequencer.c:181, write_scheduler.c:25).    *)
StartInv == IInv /\ MasterWaitsForStart

(* "1なら終了、0なら継続" (configuration.h:175): the scheduler of every        *)
(* replica runs until its process has got the finish request.               *)
SchedulerRunsUntilFinish ==
  \A r \in Replicas : write_pc[r] = "ended" => Finish(r) = 1

(* Once the finish request is at a slave, all its workers end, wherever it *)
(* finds them: resending, waiting for an ACK or a flag that will not come, *)
(* or blocked on the client, which asks once more or says farewell         *)
(* (client_interface.c:134-165, 275-347).                                  *)
WorkersEnd ==
  \A c \in Clients :
    (Finish(Home[c]) = 1) ~> (worker_pc[c] = "ended")

(* Once the finish request is at the master, every sending thread that had *)
(* started ends, also the one that resends a batch to a slave that has     *)
(* ended already (master_sequencer.c:407-500).                             *)
SendersEnd ==
  \A s \in Slaves :
    (Finish(Master) = 1 /\ send_pc[s] # "wait_start") ~> (send_pc[s] = "ended")

(* "3. システム終了要請を受信" (master_sequencer.c:260): a receiving thread   *)
(* gets the finish request, and ends.                                      *)
ReceiversEnd ==
  \A c \in Clients :
    (Finish(Master) = 1 /\ recv_pc[c] # "wait_start") ~> (recv_pc[c] = "ended")

(* "clientが起動するまで待つ" (master_sequencer.c:181): when client_time has   *)
(* been started and its start datagram arrives, the epochs begin, unless    *)
(* the finish came first.  (client_txnum sends no start datagram: with it   *)
(* they never begin.)                                                       *)
MasterStartsWithClient ==
  WF_vars(MasterStart) =>
    (client_main # "start" /\ Program = "client_time"
       ~> epoch_pc \notin {"none", "wait_start"} \/ Finish(Master) = 1)

(* The write scheduler raises no flag of a worker that has ended and freed *)
(* its Tx (client_interface.c:222, write_scheduler.c:59-62), as long as the *)
(* slave has no finish request: a client says farewell only when it has its *)
(* answer (client_time.c:184-213).  After the finish request this may       *)
(* happen, since a worker then leaves a transaction that is not executed.   *)
NotifiesLiveTx ==
  [][\A c \in Clients :
       complete_flag[c] = 0 /\ complete_flag'[c] = 1
         => worker_pc[c] # "ended" \/ Finish(Home[c]) = 1]_vars
=============================================================================
