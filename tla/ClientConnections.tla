--------------------------- MODULE ClientConnections ---------------------------
(***************************************************************************)
(* The TCP connections between the threads of a client program and the     *)
(* workers of the client interface of one slave.                           *)
(*                                                                         *)
(*   client/client_time.c:138-224, client_txnum.c:124-205   client threads *)
(*   client_interface/client_interface.c:36-224      accepting, workers    *)
(*   network/tcp/tcp_server.c, tcp_client.c          send, recv, accept    *)
(*                                                                         *)
(* A connection is a stream of bytes each way: recv returns what has come, *)
(* and both sides decode only what is at the beginning of their buffer.    *)
(* It returns 0 when the other side has closed, and neither side treats    *)
(* that as an error: what was in the buffer before is decoded again.  A    *)
(* send to a side that is closed makes that side reset the connection,     *)
(* and a send on a connection that was reset raises SIGPIPE, which no      *)
(* process handles.  A worker does not close its connection when it ends;  *)
(* the end of the process does.                                            *)
(*                                                                         *)
(* When the transaction of a worker is done (Complete) is for module       *)
(* Transactions to say; but it is a write, as the write_rate of both       *)
(* programs is 100, and so in a batch of the master, who creates none      *)
(* before the start that client_time sends, and none after the finish.     *)
(* The operator may run a client program after another; each has           *)
(* CLIENT_NUM threads for this slave.                                      *)
(***************************************************************************)
EXTENDS Configuration, Sequences, FiniteSets

CONSTANTS
  Runs,      \* bound: how often a client program is run
  MaxTxId    \* bound: the last transaction id of a thread; tx_num - 1

ASSUME RunsAssumption == Runs \in Nat \ {0} /\ MaxTxId \in Nat

Clients == [run : 1 .. Runs, id : 0 .. CLIENT_NUM - 1]

VARIABLES
  program,      \* of each run: "client_time" or "client_txnum"
  run_state,    \* "waits", "running", "ended", "killed"
  time_up,      \* execute_time of the run has passed
  finish_sent,  \* the main thread of client_time has sent the finish request
  client_pc,    \* "connect", "request", "receive", "farewell", "ended"
  tx_id,
  msg,          \* the client's buffer, for what it sends and receives
  rows,         \* the rows of result.csv: the transaction, and the message
                \* that was decoded as the response
  up, down,     \* the messages on the way to the worker, to the client
  reset,        \* the connection was reset
  queue,        \* the connections that wait to be accepted
  worker_pc,    \* "none", "loop", "receive", "wait_flag", "ended"
  recv_msg,     \* the worker's buffer
  complete_flag,
  served,        \* history: the requests that the worker has begun to serve
  finish,       \* system_finish_request of the slave
  slave,        \* "up", "ended"
  master        \* "waits" for the start, "running": it creates batches, "ended"

runVars    == <<program, run_state, time_up, finish_sent>>
clientVars == <<client_pc, tx_id, msg, rows>>
tcpVars    == <<up, down, reset, queue>>
workerVars == <<worker_pc, recv_msg, complete_flag, served>>
processVars == <<finish, slave, master>>
connectionVars == <<runVars, clientVars, tcpVars, workerVars, processVars>>

Request(id)  == [type |-> "REQUEST_TX", id |-> id]
Response(id) == [type |-> "RESPONSE_TX", id |-> id]
FinishRequest == [type |-> "FINISH_REQUEST", id |-> 0]
NoMessage     == [type |-> "none", id |-> 0]

ConnectionsInit ==
  /\ program \in [1 .. Runs -> {"client_time", "client_txnum"}]
  /\ run_state = [r \in 1 .. Runs |-> "waits"]
  /\ time_up = [r \in 1 .. Runs |-> FALSE]
  /\ finish_sent = [r \in 1 .. Runs |-> FALSE]
  /\ client_pc = [c \in Clients |-> "connect"]
  /\ tx_id = [c \in Clients |-> 0]
  /\ msg = [c \in Clients |-> NoMessage]
  /\ rows = [c \in Clients |-> <<>>]
  /\ up = [c \in Clients |-> <<>>]
  /\ down = [c \in Clients |-> <<>>]
  /\ reset = [c \in Clients |-> FALSE]
  /\ queue = <<>>
  /\ worker_pc = [c \in Clients |-> "none"]
  /\ recv_msg = [c \in Clients |-> NoMessage]
  /\ complete_flag = [c \in Clients |-> 0]
  /\ served = [c \in Clients |-> <<>>]
  /\ finish = 0
  /\ slave = "up"
  /\ master = "waits"

-----------------------------------------------------------------------------
(* The operator starts a client program when the one before is over.       *)
(* client_time sends a start datagram to the master before it creates its  *)
(* threads, client_txnum does not.                                         *)
StartProgram(r) ==
  /\ run_state[r] = "waits"
  /\ \A p \in 1 .. r - 1 : run_state[p] \in {"ended", "killed"}
  /\ run_state' = [run_state EXCEPT ![r] = "running"]
  /\ UNCHANGED <<program, time_up, finish_sent, clientVars, tcpVars,
                 workerVars, processVars>>

(* The main thread of client_time waits execute_time, and sends the finish *)
(* requests, to the master first; client_txnum only joins its threads.     *)
TimeUp(r) ==
  /\ run_state[r] = "running" /\ program[r] = "client_time"
  /\ IF time_up[r]
       THEN finish_sent' = [finish_sent EXCEPT ![r] = TRUE] /\ UNCHANGED time_up
       ELSE time_up' = [time_up EXCEPT ![r] = TRUE] /\ UNCHANGED finish_sent
  /\ UNCHANGED <<program, run_state, clientVars, tcpVars, workerVars,
                 processVars>>

JoinThreads(r) ==
  /\ run_state[r] = "running"
  /\ program[r] = "client_time" => finish_sent[r]
  /\ \A c \in Clients : c.run = r => client_pc[c] = "ended"
  /\ run_state' = [run_state EXCEPT ![r] = "ended"]
  /\ UNCHANGED <<program, time_up, finish_sent, clientVars, tcpVars,
                 workerVars, processVars>>

Running(c) == run_state[c.run] = "running"

(* The kernel completes the connection; the slave accepts it later.  The   *)
(* connection to a slave that has ended is refused: the thread goes on     *)
(* with a socket on which sending raises SIGPIPE, as after a reset.        *)
Connect(c) ==
  /\ Running(c) /\ client_pc[c] = "connect"
  /\ client_pc' = [client_pc EXCEPT ![c] = "request"]
  /\ \/ slave = "up" /\ queue' = Append(queue, c) /\ UNCHANGED reset
     \/ slave # "up" /\ reset' = [reset EXCEPT ![c] = TRUE] /\ UNCHANGED queue
  /\ UNCHANGED <<runVars, tx_id, msg, rows, up, down, workerVars, processVars>>

(* What becomes of a client's message: SIGPIPE ends the whole program.     *)
Send(c, m) ==
  IF reset[c]
    THEN /\ run_state' = [run_state EXCEPT ![c.run] = "killed"]
         /\ UNCHANGED <<up, reset>>
  ELSE IF slave # "up"
    THEN reset' = [reset EXCEPT ![c] = TRUE] /\ UNCHANGED <<run_state, up>>
  ELSE up' = [up EXCEPT ![c] = Append(@, m)] /\ UNCHANGED <<run_state, reset>>

SendRequest(c) ==
  /\ Running(c) /\ client_pc[c] = "request"
  /\ client_pc' = [client_pc EXCEPT ![c] = "receive"]
  /\ msg' = [msg EXCEPT ![c] = Request(tx_id[c])]
  /\ Send(c, Request(tx_id[c]))
  /\ UNCHANGED <<program, time_up, finish_sent, tx_id, rows, down, queue,
                 workerVars, processVars>>

(* Mutant: the thread records the row before it looks at the time. *)
ReceiveRecords(c) ==
  /\ Running(c) /\ client_pc[c] = "receive"
  /\ down[c] # <<>> \/ reset[c] \/ slave # "up"
  /\ msg' = [msg EXCEPT ![c] = IF down[c] # <<>> THEN Head(down[c]) ELSE @]
  /\ down' = [down EXCEPT ![c] = <<>>]
  /\ tx_id[c] < MaxTxId \/ time_up[c.run] \/ program[c.run] = "client_txnum"
  /\ rows' = [rows EXCEPT ![c] = Append(@, <<tx_id[c], msg'[c]>>)]
  /\ IF time_up[c.run] \/ tx_id[c] = MaxTxId
       THEN /\ client_pc' = [client_pc EXCEPT ![c] = "farewell"]
            /\ UNCHANGED tx_id
       ELSE /\ client_pc' = [client_pc EXCEPT ![c] = "request"]
            /\ tx_id' = [tx_id EXCEPT ![c] = @ + 1]
  /\ UNCHANGED <<runVars, up, reset, queue, workerVars, processVars>>

(* The response, or nothing because the other side is gone: then the       *)
(* request is still in the buffer.  client_time stops when the time is up, *)
(* and client_txnum after tx_num transactions.                             *)
ReceiveResponse(c) ==
  /\ Running(c) /\ client_pc[c] = "receive"
  /\ down[c] # <<>> \/ reset[c] \/ slave # "up"
  /\ msg' = [msg EXCEPT ![c] = IF down[c] # <<>> THEN Head(down[c]) ELSE @]
  /\ down' = [down EXCEPT ![c] = <<>>]
  /\ tx_id[c] < MaxTxId \/ time_up[c.run] \/ program[c.run] = "client_txnum"
  /\ IF time_up[c.run]
       THEN /\ client_pc' = [client_pc EXCEPT ![c] = "farewell"]
            /\ UNCHANGED <<tx_id, rows>>
       ELSE /\ rows' = [rows EXCEPT ![c] = Append(@, <<tx_id[c], msg'[c]>>)]
            /\ IF tx_id[c] = MaxTxId
                 THEN /\ client_pc' = [client_pc EXCEPT ![c] = "farewell"]
                      /\ UNCHANGED tx_id
                 ELSE /\ client_pc' = [client_pc EXCEPT ![c] = "request"]
                      /\ tx_id' = [tx_id EXCEPT ![c] = @ + 1]
  /\ UNCHANGED <<runVars, up, reset, queue, workerVars, processVars>>

(* Mutant: the thread closes without asking for the finish. *)
FarewellForgotten(c) ==
  /\ Running(c) /\ client_pc[c] = "farewell"
  /\ client_pc' = [client_pc EXCEPT ![c] = "ended"]
  /\ UNCHANGED <<runVars, tx_id, msg, rows, tcpVars, workerVars, processVars>>

(* The request to finish, and the end of the thread and its connection.    *)
Farewell(c) ==
  /\ Running(c) /\ client_pc[c] = "farewell"
  /\ client_pc' = [client_pc EXCEPT ![c] = "ended"]
  /\ msg' = [msg EXCEPT ![c] = FinishRequest]
  /\ Send(c, FinishRequest)
  /\ UNCHANGED <<program, time_up, finish_sent, tx_id, rows, down, queue,
                 workerVars, processVars>>

-----------------------------------------------------------------------------
Accepted == {c \in Clients : worker_pc[c] # "none"}

(* Mutant: one connection too few is accepted. *)
AcceptTooFew ==
  /\ slave = "up" /\ queue # <<>>
  /\ Cardinality(Accepted) + 1 < CLIENT_NUM
  /\ worker_pc' = [worker_pc EXCEPT ![Head(queue)] = "loop"]
  /\ queue' = Tail(queue)
  /\ UNCHANGED <<runVars, clientVars, up, down, reset, recv_msg, complete_flag,
                 served, processVars>>

(* The client interface accepts CLIENT_NUM connections, each with a worker *)
(* of its own, and only then opens the port for the finish request.        *)
Accept ==
  /\ slave = "up" /\ queue # <<>>
  /\ Cardinality(Accepted) < CLIENT_NUM
  /\ worker_pc' = [worker_pc EXCEPT ![Head(queue)] = "loop"]
  /\ queue' = Tail(queue)
  /\ UNCHANGED <<runVars, clientVars, up, down, reset, recv_msg, complete_flag,
                 served, processVars>>

(* The finish datagram of a run may come at any later time, or never.      *)
RecvFinish ==
  /\ slave = "up" /\ Cardinality(Accepted) = CLIENT_NUM
  /\ \E r \in 1 .. Runs : finish_sent[r]
  /\ finish' = 1
  /\ UNCHANGED <<runVars, clientVars, tcpVars, workerVars, slave, master>>

(* The datagrams to the master; each may be lost, or late.  A master that  *)
(* gets the finish request first is one that never gets the start.         *)
MasterStart ==
  /\ master = "waits"
  /\ \E r \in 1 .. Runs : program[r] = "client_time" /\ run_state[r] # "waits"
  /\ master' = "running"
  /\ UNCHANGED <<runVars, clientVars, tcpVars, workerVars, finish, slave>>

MasterFinish ==
  /\ master = "running"
  /\ \E r \in 1 .. Runs : finish_sent[r]
  /\ master' = "ended"
  /\ UNCHANGED <<runVars, clientVars, tcpVars, workerVars, finish, slave>>

(* The workers are joined, the other threads end, and with the process all *)
(* its connections; those with data that was not read are reset.           *)
EndSlave ==
  /\ slave = "up" /\ finish = 1
  /\ \A c \in Accepted : worker_pc[c] = "ended"
  /\ slave' = "ended"
  /\ reset' = [c \in Clients |->
                 up[c] # <<>> \/ \E i \in 1 .. Len(queue) : queue[i] = c]
  /\ up' = [c \in Clients |-> <<>>]
  /\ queue' = <<>>
  /\ UNCHANGED <<runVars, clientVars, down, workerVars, finish, master>>

(* Nobody is there any more on the client's side of the connection.        *)
Gone(c) == client_pc[c] = "ended" \/ run_state[c.run] = "killed"

WorkerLoop(c) ==
  /\ slave = "up" /\ worker_pc[c] = "loop"
  /\ worker_pc' = [worker_pc EXCEPT
                     ![c] = IF finish # 1 THEN "receive" ELSE "ended"]
  /\ UNCHANGED <<runVars, clientVars, tcpVars, recv_msg, complete_flag, served,
                 processVars>>

(* Mutant: the worker does not end at the request to finish. *)
WorkerGoesOn(c) ==
  /\ slave = "up" /\ worker_pc[c] = "receive"
  /\ up[c] # <<>> \/ Gone(c)
  /\ recv_msg' = [recv_msg EXCEPT
                    ![c] = IF up[c] # <<>> THEN Head(up[c]) ELSE @]
  /\ up' = [up EXCEPT ![c] = <<>>]
  /\ IF recv_msg'[c].type = "REQUEST_TX"
       THEN /\ worker_pc' = [worker_pc EXCEPT ![c] = "wait_flag"]
            /\ complete_flag' = [complete_flag EXCEPT ![c] = 0]
            /\ served' = [served EXCEPT ![c] = Append(@, recv_msg'[c].id)]
       ELSE /\ worker_pc' = [worker_pc EXCEPT ![c] = "loop"]
            /\ UNCHANGED <<complete_flag, served>>
  /\ UNCHANGED <<runVars, clientVars, down, reset, queue, processVars>>

(* recv blocks as long as nothing has come and the client is there.  Of    *)
(* two messages that come at once the worker sees the first.  From a       *)
(* client that is gone it gets nothing, and decodes what is in the buffer. *)
WorkerReceive(c) ==
  /\ slave = "up" /\ worker_pc[c] = "receive"
  /\ up[c] # <<>> \/ Gone(c)
  /\ recv_msg' = [recv_msg EXCEPT
                    ![c] = IF up[c] # <<>> THEN Head(up[c]) ELSE @]
  /\ up' = [up EXCEPT ![c] = <<>>]
  /\ IF recv_msg'[c].type = "REQUEST_TX"
       THEN /\ worker_pc' = [worker_pc EXCEPT ![c] = "wait_flag"]
            /\ complete_flag' = [complete_flag EXCEPT ![c] = 0]
            /\ served' = [served EXCEPT ![c] = Append(@, recv_msg'[c].id)]
       ELSE /\ worker_pc' = [worker_pc EXCEPT
                               ![c] = IF recv_msg'[c].type = "FINISH_REQUEST"
                                        THEN "ended" ELSE "loop"]
            /\ UNCHANGED <<complete_flag, served>>
  /\ UNCHANGED <<runVars, clientVars, down, reset, queue, processVars>>

(* The scheduler has executed the worker's write.  Its batch may have come *)
(* before the master got the finish request, but not before the start.     *)
Complete(c) ==
  /\ master # "waits"
  /\ slave = "up" /\ worker_pc[c] = "wait_flag" /\ complete_flag[c] = 0
  /\ complete_flag' = [complete_flag EXCEPT ![c] = 1]
  /\ UNCHANGED <<runVars, clientVars, tcpVars, worker_pc, recv_msg, served,
                 processVars>>

(* The flag or the finish request ends the waiting; after a finish request *)
(* nothing is answered.                                                    *)
WorkerAnswer(c) ==
  /\ slave = "up" /\ worker_pc[c] = "wait_flag"
  /\ complete_flag[c] = 1 \/ finish = 1
  /\ IF finish = 1
       THEN worker_pc' = [worker_pc EXCEPT ![c] = "ended"] /\ UNCHANGED down
       ELSE /\ worker_pc' = [worker_pc EXCEPT ![c] = "loop"]
            /\ down' = [down EXCEPT
                          ![c] = IF Gone(c) THEN @
                                 ELSE Append(@, Response(recv_msg[c].id))]
  /\ UNCHANGED <<runVars, clientVars, up, reset, queue, recv_msg,
                 complete_flag, served, processVars>>

-----------------------------------------------------------------------------
Program(r) == StartProgram(r) \/ TimeUp(r) \/ JoinThreads(r)
Client(c) == Connect(c) \/ SendRequest(c) \/ ReceiveResponse(c) \/ Farewell(c)
Worker(c) == WorkerLoop(c) \/ WorkerReceive(c) \/ WorkerAnswer(c)

ConnectionsNext ==
  \/ \E r \in 1 .. Runs : Program(r)
  \/ \E c \in Clients : Client(c) \/ Worker(c) \/ Complete(c)
  \/ Accept \/ RecvFinish \/ EndSlave \/ MasterStart \/ MasterFinish

ConnectionsSpec == ConnectionsInit /\ [][ConnectionsNext]_connectionVars

(* The threads run, TCP delivers, and while the master creates batches a   *)
(* write is executed at some time (EveryRequestAnswered of Transactions).  *)
(* Of the start and finish datagrams nothing is assumed, nor that the      *)
(* process of the slave ends: its other threads may block (Lifecycle).     *)
ConnectionsFairness ==
  /\ \A r \in 1 .. Runs : WF_connectionVars(Program(r))
  /\ \A c \in Clients :
       /\ WF_connectionVars(Client(c)) /\ WF_connectionVars(Worker(c))
       /\ WF_connectionVars(master = "running" /\ Complete(c))
  /\ WF_connectionVars(Accept)

FairConnectionsSpec == ConnectionsSpec /\ ConnectionsFairness

-----------------------------------------------------------------------------
Messages ==
  {Request(id) : id \in 0 .. MaxTxId} \cup {Response(id) : id \in 0 .. MaxTxId}
    \cup {FinishRequest}

(* The ranges; and TCP being a stream, one message at most is on its way,  *)
(* in one direction: two at once would be served as one                     *)
(* (client_interface.c:135-143, client_time.c:184-189).                    *)
ConnectionsTypeOK ==
  /\ program \in [1 .. Runs -> {"client_time", "client_txnum"}]
  /\ run_state \in [1 .. Runs -> {"waits", "running", "ended", "killed"}]
  /\ time_up \in [1 .. Runs -> BOOLEAN]
  /\ finish_sent \in [1 .. Runs -> BOOLEAN]
  /\ client_pc \in [Clients -> {"connect", "request", "receive", "farewell",
                                "ended"}]
  /\ tx_id \in [Clients -> 0 .. MaxTxId]
  /\ msg \in [Clients -> Messages \cup {NoMessage}]
  /\ rows \in [Clients -> Seq((0 .. MaxTxId) \X Messages)]
  /\ up \in [Clients -> Seq(Messages)] /\ down \in [Clients -> Seq(Messages)]
  /\ \A c \in Clients : Len(up[c]) + Len(down[c]) <= 1
  /\ reset \in [Clients -> BOOLEAN]
  /\ queue \in Seq(Clients)
  /\ worker_pc \in [Clients -> {"none", "loop", "receive", "wait_flag",
                                "ended"}]
  /\ Cardinality(Accepted) <= CLIENT_NUM /\ IsFiniteSet(Accepted)
  /\ served \in [Clients -> Seq(0 .. MaxTxId)]
  /\ recv_msg \in [Clients -> Messages \cup {NoMessage}]
  /\ complete_flag \in [Clients -> {0, 1}]
  /\ finish \in {0, 1} /\ slave \in {"up", "ended"}
  /\ master \in {"waits", "running", "ended"}

(* Who may have ended, and why.  The programs run one after another; the    *)
(* slave ends only because a client_time whose time is up has asked for it; *)
(* and until then no connection is reset, and no program killed.            *)
RunInv ==
  \A r \in 1 .. Runs :
    /\ run_state[r] # "waits" =>
         \A p \in 1 .. r - 1 : run_state[p] \in {"ended", "killed"}
    /\ finish_sent[r] => time_up[r]
    /\ time_up[r] => run_state[r] # "waits"
    /\ run_state[r] = "killed" => slave = "ended"
SlaveInv ==
  /\ slave = "ended" => finish = 1 /\ queue = <<>>
  /\ finish = 1 => \E r \in 1 .. Runs : finish_sent[r]
  /\ \A c \in Clients :
       /\ reset[c] => slave = "ended"
       /\ slave = "ended" => up[c] = <<>>

(* A connection waits once, before it has a worker.                        *)
WaitingInv ==
  /\ \A i \in 1 .. Len(queue) :
       client_pc[queue[i]] # "connect" /\ worker_pc[queue[i]] = "none"
  /\ \A i, j \in 1 .. Len(queue) : queue[i] = queue[j] => i = j

(* The client at each place: what is in its buffer, the rows it has, and    *)
(* the response that may be on its way to it.                              *)
ClientInv ==
  \A c \in Clients :
    /\ client_pc[c] = "connect" => worker_pc[c] = "none" /\ up[c] = <<>>
    /\ client_pc[c] = "receive" => msg[c] = Request(tx_id[c])
    /\ IF client_pc[c] \in {"farewell", "ended"}
         THEN Len(rows[c]) \in {tx_id[c], tx_id[c] + 1}
         ELSE Len(rows[c]) = tx_id[c]
    /\ down[c] \in {<<>>, <<Response(tx_id[c])>>}
    /\ down[c] # <<>> =>
         /\ client_pc[c] = "receive" /\ up[c] = <<>>
         /\ worker_pc[c] # "wait_flag"

(* Client and worker take turns.  While the slave is up, the request of a   *)
(* client that waits is on its way, or with the worker, or answered; or the *)
(* worker has ended at the request to finish, and it is not answered at    *)
(* all.  A client that goes has had its answer, and asks for the finish.   *)
RequestInv(c) ==
  \/ /\ up[c] = <<Request(tx_id[c])>> /\ Len(served[c]) = tx_id[c]
     /\ worker_pc[c] # "wait_flag"
  \/ /\ up[c] = <<>> /\ Len(served[c]) = tx_id[c] + 1
     /\ \/ worker_pc[c] = "wait_flag" /\ recv_msg[c] = Request(tx_id[c])
        \/ worker_pc[c] \in {"loop", "receive"} /\ down[c] # <<>>
        \/ worker_pc[c] = "ended"
AnsweredInv(c) ==
  /\ Len(served[c]) =
       IF client_pc[c] \in {"farewell", "ended"} THEN tx_id[c] + 1 ELSE tx_id[c]
  /\ worker_pc[c] # "wait_flag"
  /\ IF client_pc[c] = "ended"
       THEN \/ up[c] = <<FinishRequest>>
            \/ up[c] = <<>> /\ worker_pc[c] = "ended"
       ELSE up[c] = <<>>
TurnInv ==
  slave = "up" =>
    \A c \in Clients :
      IF client_pc[c] = "receive" THEN RequestInv(c) ELSE AnsweredInv(c)

(* A worker takes every request of its client once, and in order: it does  *)
(* not come back to recv after the client has gone, where the request      *)
(* still in the buffer would be served again (client_interface.c:135-143). *)
TakenOnce ==
  \A c \in Clients : served[c] = [i \in 1 .. Len(served[c]) |-> i - 1]

(* A row of result.csv is about the response to its transaction, not about *)
(* what was in the buffer when the slave was gone (client_time.c:184-202); *)
(* unless the slave was asked to finish in an earlier run: whoever then     *)
(* connects before it ends gets nothing, and takes it for a response.       *)
RowsAreAnswers ==
  \A c \in Clients :
    \/ \E p \in 1 .. c.run - 1 : finish_sent[p]
    \/ \A i \in 1 .. Len(rows[c]) : rows[c][i] = <<i - 1, Response(i - 1)>>

(* Both sides of a connection agree on whose turn it is, one message at     *)
(* most is on its way, and a worker takes each request once; these hold in  *)
(* every state and are inductive (client_interface.c:135-169,              *)
(* client_time.c:176-213).                                                 *)
ConnectionsInv ==
  /\ ConnectionsTypeOK /\ RunInv /\ SlaveInv /\ WaitingInv /\ ClientInv
  /\ TurnInv /\ TakenOnce

(* The worker of a client that is gone ends, also without a finish         *)
(* request to the slave: it is the client that asks for it                 *)
(* (client_time.c:210-213, client_interface.c:152-157).                    *)
WorkersFollowClients ==
  \A c \in Clients :
    (client_pc[c] = "ended") ~> (worker_pc[c] = "ended" \/ slave = "ended")

(* The first client program ends once the master creates batches, unless   *)
(* the master or the slave gets a finish request, after which a write need *)
(* not be answered any more: a thread of the client then waits in recv     *)
(* (client_time.c:114-123).  Before the start nothing is answered, which   *)
(* client_txnum does not send; and a program after the first waits for     *)
(* ever if the first did not make the slave end, as only CLIENT_NUM        *)
(* connections are accepted.                                               *)
ProgramEnds ==
  (run_state[1] = "running" /\ master = "running") ~>
    (run_state[1] # "running" \/ finish = 1 \/ master = "ended")
=============================================================================
