# Verification of the epoch-batch replication system

TLA+ models of the replicated key-value store in this repository, TLC
configurations that check them on small instances, and TLAPS proofs for all
instances. Paths and line numbers are relative to the repository.

## 1. The system

One master (replica 0) and `REPLICA_NUM - 1` slaves keep a copy each of a
storage of counters. Clients are connected to the slaves. A slave executes reads
itself; writes go to the master, who collects them for an epoch into a *batch*,
closes the batch, and replicates it to all slaves. Every replica executes the
batches in epoch order.

```
 client --TCP--> client interface --ADD_TO_BATCH (UDP)--> receiving thread
   ^                (slave)        <----ACK_ADD-----         (master)
   |                   |                                        | batch
 response        read_tx_buffer                            epoch thread
   ^                   v                                        | log, determined_epoch_id
   +---- Tx flag -- schedulers <-- write_tx_buffer <--+         v
                       |                              |    sender threads
                    storage                      sequencer <--BATCH-- one per slave
                                                  (slave)  ---ACK-->
                                                   ^   |
                                   other slaves of the region: ACK, REQUEST, BATCH
```

| component | source | state | operations |
|---|---|---|---|
| epoch thread | `master/master_sequencer.c:94-253` | `batch`, `determined_epoch_id` | close a batch, log it, determine it, give it to the scheduler |
| sender threads, one per slave | `master/master_sequencer.c:367-657` | `next_epoch_id`, the batch being sent | read the log, send, resend at the RTO, take an ACK |
| receiving threads, one per client | `master/master_sequencer.c:262-359` | `recieved_tx_id` | receive ADD_TO_BATCH, acknowledge, add to the batch |
| slave sequencer | `slave/slave_sequencer.c` | `next_batch_epoch_id` | accept a batch, acknowledge one again, ask a peer, serve a peer |
| client interface, one thread per client | `client_interface/client_interface.c` | its `Tx`, `wait_for_exe` | take a request, send it to the master or queue a read, answer |
| write scheduler | `scheduler/write_scheduler.c` | count of epochs | execute a batch, notify the client |
| read scheduler | `scheduler/read_scheduler.c` | - | execute a read |
| client | `client/client_time.c`, `client_txnum.c` | count of transactions | request, wait for the response; start and finish the system |
| batch log | `utils/log.c` | a file of 1024-byte records | `append_log`, `read_log` |
| queues | `batch/batch_list.c`, `tx/transaction_list.c` | linked list, mutex | add, try to delete |
| storage | `utils/storage.c` | records with a mutex each | read, increment |
| messages | `utils/message.c`, `utils/bytes.c` | - | encode, decode |
| transport | `network/udp`, `network/tcp` | sockets | send, receive |
| processes | `master/master.c`, `slave/slave.c` | `system_finish_request` | start, finish, join |

Threads of a process share memory (the `Config`, the `batch`, the `Tx` of a
client) and two kinds of mutex: one for the batch, one for each file, queue and
record. `determined_epoch_id`, `complete_flag`, `wait_for_exe` and
`system_finish_request` are shared without one; the Makefile compiles without
optimisation, so the models let every thread see the latest value, and put
atomic steps between the accesses.

There are two methods. In the *conventional* one each slave gets every batch
from its sender thread and acknowledges it to the master. In the *proposed* one
it also acknowledges to the other slaves of its region; who sees an ACK of a
batch it lacks asks the sender of the ACK for the batch *it expects next*. A
sender thread that is acknowledged a later batch than it sent jumps ahead.

What is hard: UDP may lose, repeat, delay and reorder every datagram between
nodes; batches reach a slave from several senders; acknowledgements may be late
or of another epoch; a transaction may be executed before the master's ACK of it
arrives; the retries of a client's thread race with the epoch. There is no crash
recovery: a process that starts removes its log (`utils/log.c:31`).

What makes the components correct:

- replication: all replicas execute the same batches, in epoch order, each
  once; no assertion fails and no read of the log blocks; every batch gets
  there and is acknowledged;
- the way of a transaction: it is executed exactly once on each replica, the
  client is told of its own transaction, only when it was executed, with the
  right epoch; a client reads its own writes; every request is answered;
- start and finish: threads run from the start to the finish request, and end;
- messages and log: what is read is what was written, whatever the buffers held
  before, in however many parts the file is transferred;
- numbers: when ids, epochs and counts leave the range of a short, what was
  acknowledged stays in its batch and what was logged stays as it is (the system
  does not go on then: no ACK matches from id 32768 on, the master ends at epoch
  32768);
- lists and records: no addition or increment is lost, a read gives a value the
  record has meanwhile, no freed node is touched;
- sockets: every thread gets its own port; every request over TCP is served once,
  and every row of the results is about the answer to its request.

## 2. The plan

| # | module | what | state |
|---|---|---|---|
| 1 | `BatchOrder` | abstract: one sequence of batches, each replica follows it | done |
| 2 | `BatchReplication` | epoch thread, sender threads, slave sequencers, log, UDP; implements `BatchOrder` | done |
| 3 | `BatchReplicationProofs` | inductive invariant, safety, refinement | done |
| 4 | `Transactions` | clients, client interface, receiving threads, batch, schedulers, storage; uses `BatchOrder` for replication | done |
| 5 | `Lifecycle` | start and finish datagrams, `system_finish_request`, the loops and joins of master and slave | done |
| 6 | `ShortIds`, `EncodingsProofs` | the widths of transaction ids and epoch ids, and what goes wrong first | done |
| 7 | `BatchLog`, `BatchLogFile` | records, offsets, and `read_all`/`write_all` with short reads and writes; implements `BatchLog` | done |
| 8 | `FifoQueue`, `LinkedQueue` | `batch_list`/`transaction_list` with several threads, and their memory; implements `FifoQueue` | done |
| 9 | `MessageCodec`, `EncodingsProofs` | all messages as bytes, in reused buffers; decoding after encoding | done |
| 10 | `Shorts`, `ShortsProofs`, `Storage`, `SharedMemoryProofs` | the records under their mutexes, with the width of the value | done |
| 11 | `Configuration`, `Ports`, `SocketsProofs` | the ports of all sockets of all processes | done |
| 12 | `ClientConnections`, `SocketsProofs` | the TCP connections of clients and workers | done |
| 13 | `TransactionsProofs` | inductive invariant, all safety properties of `Transactions`, its use of `BatchOrder` | done |
| 14 | `LifecycleProofs` | inductive invariant, the safety and action properties of `Lifecycle` | done |
| 15 | `SharedMemoryProofs` | the list: inductive invariant, safety of memory, refinement of `FifoQueue` | done |
| 16 | `BatchLogFileProofs` | inductive invariant, complete reads, refinement of `BatchLog` | done |

`MCBatchReplication`, `MCTransactions`, `MCLifecycle` give the constants values.
`MCEncodings` (6, 7, 9, 11) and `MCSharedResources` (8, 10, 12) put together
components that share no state: the variable `part` chooses at the
beginning which of them a behaviour is of, and the properties of each hold of the
behaviours of all. Their interleavings would show nothing more.

The abstract specification is the seam: `BatchReplication` is shown to implement
`BatchOrder`, and `Transactions` composes the rest of the system with
`BatchOrder` instead of the protocol. That keeps both small enough to check, and
`UsesBatchOrder` checks that `Transactions` does to batches only what
`BatchOrder` allows. In the same way `BatchReplication` takes from the log and the
queues what `BatchLog` and `FifoQueue` promise, `Transactions` takes from the
records and the messages what `Storage` and `MessageCodec` show, and every module
takes sockets for granted as `Ports` does for all of them.

## 3. The modules

### BatchOrder

`determined` is the sequence of determined batches, `handed[r]` what replica `r`
gave its write scheduler. `Determine` appends a batch numbered by its position;
`HandOver(r)` gives `r` the first batch it lacks.

### BatchReplication

| action | code | |
|---|---|---|
| `CutBatch`, `AppendBatch`, `Determine`, `Enqueue` | `master_sequencer.c:189-217` | one step for each access the other threads can see in between |
| `BeginSend(s)` | `:407-423`, `:554-570` | guard on `determined_epoch_id`, `read_log`, first send |
| `Resend(s)` | `:492-497`, `:642-650` | the RTO may pass at any time |
| `RecvAck(s)` | `:446-491`, `:593-640` | an ACK at the port of the sender of `s`; `Acknowledges` is `>=` or `=` |
| `AcceptBatch(s, m)` | `slave_sequencer.c:87-157`, `:364-408` | the expected batch: position, log, buffer, ACKs |
| `OtherBatch(s, m)` | `:158-190`, `:409-445` | an older batch is acknowledged to the master again; one from beyond a gap fails `assert(0)` |
| `RecvPeerAck(s, m)` | `:192-247` | proposed method |
| `RecvRequest(s, m)` | `:249-303` | proposed method |
| `DropBatch`, `DropAck`, `DropRequest` | UDP | |

A handler of the slave is one step: it is the only thread of its sequencer and
nobody else uses its log. A datagram stays in its set when it is received, so it
may be delivered any number of times and in any order; that is duplication,
delay and reordering, and a datagram that is simply never delivered is a lost
one. The Drop actions remove datagrams for good; they add no state of the nodes
that is not reachable without them, and matter only to liveness, where fairness
would otherwise make every datagram arrive.

`read_log` of an epoch that is not on the file does not return: `read_all` loops
on a `read(2)` of 0 bytes (`utils/log.c:125`), with the mutex held. So
`status[r]` becomes `"read_log"`, and on the master no thread gets the log any
more. `NoHalt` says that this and the failed assertion never happen.

Bound: `MaxEpoch`, the last epoch that is closed. It is at most 32767, the
largest `short`; within it the conversions between `int` and `short` keep the
value.

### Transactions

| action | code | |
|---|---|---|
| `RequestWrite(c)`, `RequestRead(c)` | `client_time.c:162-181`, `client_interface.c:135-156`, `:229-281` | next request of the client over TCP; `init_tx`, then register and send, or queue |
| `ResendAdd(c)`, `RecvAckAdd(c)` | `client_interface.c:274-347` | the RTO; the ACK with the very id |
| `Respond(c)` | `:159-175` | the flag is up |
| `RecvAdd(c, m)` | `master_sequencer.c:289-341` | acknowledge, then compare ids |
| `AddToBatch(c)` | `:67-83`, `:343-345` | under the mutex, if there is room |
| `CutBatch`, `Determine` | `:189-217` | swap under the mutex; log and determine |
| `HandOver(s)` | | `BatchOrder` |
| `WriteToStorage(s)`, `NotifyClient(s)`, `EndBatch(s)` | `write_scheduler.c:17-68` | the loop over a batch, in the order of the code |
| `ExecuteRead(s)` | `read_scheduler.c` | |
| `DropAdd`, `DropAckAdd` | UDP | |

The Tx of a client's thread is one struct for all its requests, and the write
scheduler writes to it through `wait_for_exe` without looking at ids; the model
keeps both. The value a client sends is not used by `write_to_storage`, which
increments the record (`utils/storage.c:66`); so the value of a record counts
writes, and `ReadsOwnWrites` and `Convergence` can see a lost or repeated one.
It is a short (`utils/storage.h:9`), as module `Shorts` has it: with `HALF` =
32768 the count goes on from -32768 after 32767 writes, which nothing in the
program prevents. So `ReadsOwnWrites` says that a read returns the count, as a
short, of some writes, at least all its client was told of and at most all made.
`NotifyClient` is one step though it writes twice, as the flag is raised last
(`write_scheduler.c:61-62`) and nobody looks at the epoch before.
`reported` and `floor` are history variables for `RealTimeOrder`; no action's
guard reads them.

Bounds: `MaxTxId` (requests per client), `MaxRequests` (requests of all clients
together), `MaxEmptyBatches` (batches without a
transaction; others are bounded by the requests). The master's own scheduler is
not part of this module: no client is connected to the master.

### Lifecycle

The threads again, but each reduced to where it looks at
`system_finish_request` and where it blocks. The variable is -1 on the master
until the start datagram, 0 on a slave from the beginning, and 1 after the
finish datagram, which comes to each process at a time of its own or never.

| action | code | |
|---|---|---|
| `StartClients`, `TimeUp`, `SendFinish` | `client_time.c:64-123` | one datagram for each process, not repeated; with `Program = "client_txnum"` none |
| `ClientRequest(c)`, `ClientReceive(c)` | `:158-223`, `client_txnum.c:149` | loop until a response comes after the time, or the last transaction (`WasLast(c)`) |
| `CreateThreads`, `MasterStart`, `MasterFinish`, `MasterJoin` | `master.c:42-94` | the port is opened after the threads are created |
| `EpochStart`, `EpochLoop`, `CutBatch`, `EpochJoin` | `master_sequencer.c:181-253` | |
| `RecvStart(c)`, `RecvLoop(c)`, `RecvAdd(c)` | `:285-358` | blocks in `recvfrom` |
| `SendStartLoop(s)`, `SendLoop(s)`, `Send(s)`, `RecvAck(s)`, `SendTimeout(s)` | `:403-500` | looks at the request before each send, not while it waits for the ACK |
| `WriteLoop(r)`, `ExecuteBatch(r)` | `write_scheduler.c:24-36` | |
| `SequencerLoop(s)`, `RecvBatch(s)` | `slave_sequencer.c:338-447` | blocks in `recvfrom` |
| `Accept(c)`, `AllAccepted(s)`, `SlaveFinish(s)`, `InterfaceJoin(s)`, `SlaveJoin(s)` | `client_interface.c:66-114`, `slave.c:63-83` | the finish port is opened after all clients are connected |
| `WorkerLoop(c)` ... `WaitFlag(c)` | `client_interface.c:134-174`, `:273-348` | |

Simplifications: writes only, one batch is its epoch number, batches come from
the master and are never full, the read scheduler (the same loop as the write
scheduler, and a consumer of `LinkedQueue` that may `Stop`) is left out. A datagram once sent may be received at any later time,
repeatedly, or never.

### MessageCodec

A state is one link between two threads: the buffer of the sender, the bytes on
their way, the buffer of the receiver. `Send...` are the calls of `create_..._msg`
with the send that follows; they write over what the buffer held. `Receive` is
`recvfrom` or `recv`, which leaves what lies behind a shorter message (`Overlay`).
The getters read at the offsets of the source: `id` is the only unsigned field,
`type` of a request is written as a short into one byte and then half covered by
the key (`message.c:90`), a batch says itself how long it is.

| definition | code |
|---|---|
| `Lo`, `Hi`, `Signed`, `GetShort`, `GetChar` | `utils/bytes.c` |
| `CreateRequestTx` ... `CreateAboutBatch` | `message.c:84-283`, `message.h:16-126` |
| `GetRequestTx` ... `GetAboutBatch`, `Decode` | `message.c:13-297` |
| `TxNum` | `batch.c:33-41` |

`Understood` says that a message on its way is decoded to what it was created
from. The two terminate messages have no caller.

### BatchLog, BatchLogFile

`BatchLog` promises that the logs of all replicas are the same batches in epoch
order, and that a replica sends only batches of its log. `BatchLogFile` has the
file cell by cell.

| action | code | |
|---|---|---|
| `CloseBatch`, `Determine` | `master_sequencer.c:211-214` | the epoch thread begins to append, and lets the senders read |
| `ReceiveBatch(s)`, `Acknowledge(s)` | `slave_sequencer.c:87-111`, `:364-369` | a slave appends the whole datagram |
| `ReadToSend(s)`, `ReadForPeer(s)`, `SendFromLog(t, s)` | `master_sequencer.c:407-423`, `slave_sequencer.c:273-282` | |
| `Open(t)` | `log.c:61-66`, `:92-101` | mutex and `lseek` |
| `WriteSome(t)`, `EndAppend(t)` | `log.c:67-75`, `:144-156` | `write(2)` may take fewer bytes |
| `ReadSome(t)`, `EndRead(t)` | `log.c:102-110`, `:121-134` | `read(2)` may give fewer; at the end of the file it gives none, for ever |

A sender thread reads an epoch once and then only later ones; that it may jump
ahead is all that is kept here of the acknowledgement.

What a slave appends has the length of the datagram, which is that of a record;
behind the header it does not fit (`log.c:59`), and its last cells are lost. The
refinement shows that this never cuts a batch, which needs the assumption that
the message of a batch is shorter than a record by the header (995 of 1020 bytes
in the program).

### FifoQueue, LinkedQueue

| action | code |
|---|---|
| `CreateNode`, `LockToAdd`, `Link`, `SetTail`, `UnlockAdd` | `add_node_...`, `batch_list.c:38-54`, `transaction_list.c:42-58` |
| `LockToDelete`, `FindEmpty`, `UnlinkLast`, `UnlinkFirst`, `ClearTail`, `TakeItem`, `UnlockDelete`, `FreeNode` | `try_delete_node_...`, `batch_list.c:61-84` |
| `Stop`, `FreeListNode`, `FreeList` | the end of a thread; `free_..._list` after the joins |

A step is at most one write that other threads see. `malloc` gives any address
that is not in use, `free` leaves the contents. An item is in the abstract queue
while its node is reachable from `head`; it is taken when that ends.

### Storage

`CallWrite`, `CallRead`, `LockRecord`, `Load`, `Store`, `UnlockRecord` are the steps of
`write_to_storage` and `read_from_storage` (`storage.c:41-70`). The value is a
short, `2 * HALF` values (`Shorts`); what a writer is called with is ignored. The
histories `writes`, `stored` and `before` are what the properties are about. A
replica has one thread that writes and one that reads; the functions are
documented as thread safe (`storage.c:36`, `:56`), and the model has any number.

### ShortIds

One client, its thread, the master's thread for it and the epoch thread, with
shorts of `2 * HALF` values: the id in a Tx is unsigned, that of an `ACK_ADD` is
not, the epoch id of a batch is not, and the offset in the log is made from it.
A negative offset makes `lseek` fail and ends the master (`CloseEpoch`).

| action | code |
|---|---|
| `RequestWrite`, `RequestRead`, `ResendAdd`, `RecvAckAdd`, `Respond` | `client_interface.c:142-175`, `:249-341` |
| `RecvAdd(m)` | `master_sequencer.c:289-345` |
| `CloseEpoch` | `master_sequencer.c:188-217`, `log.c:52-71` |
| `ExecuteBatch` | `write_scheduler.c:45-68` |

### Ports

A socket is named for its use, its process, and the slave and the client it is
for; `Port` is the number `configuration.c` computes for it, `Host` the machine.
`Bind(s)` fails when the address is taken, and nobody looks (`udp_server.c:80-90`,
`tcp_server.c:109-113`). `EndProcess(r)` ends a process that may be started again.
Its ports are free then, but that of the client interface only if the process had
no connections or its clients had closed theirs first: no socket has SO_REUSEADDR, and
connections the process was the first to close hold the port (`lingering`) until
`TimeWaitOver`. A client interface without its port accepts nobody and ends
(`client_interface.c:67-71`), so that its finish port is not opened (`MayBind`). With `OneHost` all processes are
on one machine, as in the experiments of `configuration.c` on one PC.

### ClientConnections

| action | code |
|---|---|
| `StartProgram(r)`, `TimeUp(r)`, `JoinThreads(r)` | `client_txnum.c:35-94`, `client_time.c:98-123` |
| `Connect(c)`, `SendRequest(c)`, `ReceiveResponse(c)`, `Farewell(c)` | `client_txnum.c:122-206`, `client_time.c:138-224`, `tcp_client.c` |
| `MasterStart`, `MasterFinish` | `client_time.c:66-74`, `:106-111` (the datagrams, as far as the master gets them) |
| `Accept`, `RecvFinish`, `EndSlave` | `client_interface.c:66-113`, `tcp_server.c:70-84` |
| `WorkerLoop(c)`, `WorkerReceive(c)`, `WorkerAnswer(c)` | `client_interface.c:116-224` |
| `Complete(c)` | the flag, which `Transactions` speaks of; only after the start |

`recv` on a connection the other side has closed returns 0, which neither side
treats as an error: it decodes what was in the buffer. A `send` on a connection
that was reset, or refused because the slave has ended, raises SIGPIPE and kills
the program (`run_state` is `"killed"`). The requests are writes (the `write_rate`
of both programs is 100), so `Complete` needs batches of the master: `master` is
`"waits"` until it gets the start, which `client_txnum` does not send, then
`"running"` until it gets the finish.
Bounds: `Runs` (runs of a client program), `MaxTxId`.

## 4. What is checked

| run | instance | what it shows |
|---|---|---|
| `replication_proposed` | slaves s1, s2 in one region, s3 in another; two contents; epochs 0-2; requests may be lost | safety, the inductive invariant `IInv` (which implies `RunsOnlyLogged` and `RequestsAreServable`), refinement |
| `replication_conventional` | two slaves, one content, epochs 0-1, batches and ACKs may be lost, fairness | `EveryBatchArrives`, `EveryBatchAcknowledged`; safety is proved for both methods |
| `replication_liveness_proposed` | the same for the proposed method | `EveryBatchAcknowledged`, with batches from a peer and jumps over an epoch (that what is acknowledged has arrived is proved, `NoBatchLeftOut`) |
| `transactions` | two slaves, a client each, two requests per client but three in all, one key, records that wrap at the second write, batches of two, one empty batch | all safety properties of `Transactions`, and the inductive invariant (`TxInv` is `IInv` and `BatchHasRoom`) |
| `transactions_liveness` | two clients of one slave, two requests in all, batches of one, `ADD_TO_BATCH` and its ACK may be lost | `EveryRequestAnswered` while a thread spins on a full batch, with late retries and ACKs |
| `lifecycle` | a slave, a client of `client_time`, two requests, epoch 0 | `NoFalseAnswer`, `NotifiesLiveTx`, `StartInv` (the inductive invariant `IInv`, with `SlaveSchedulerRuns`, and `MasterWaitsForStart`); `WorkersEnd`, `SendersEnd`, `MasterStartsWithClient` |
| `lifecycle_scheduler` | the same | violated: `SchedulerRunsUntilFinish` |
| `lifecycle_receivers` | the same | violated: `ReceiversEnd` |
| `encodings` | messages of three transactions at the limits of their fields, batches up to two; a log of two epochs, records of three cells, a sender and two slaves of which one helps the other; shorts of four values with five requests, of which the fifth has the id of the first, and six epochs; three replicas with two clients each on one host, restarted at any time | `Understood`; `FileInv` (the inductive invariant `IInv`, and `NeverAtEnd`), `ImplementsBatchLog`; `IdsInv` (an inductive invariant, with `AcknowledgedWasAdded` and `LogKeepsBatches`); `NobodyElseReceives` |
| `short_ids_ack` | shorts of four values | violated: `FlagEndsWaiting` |
| `storage_test` | as `test/storage_test.c`, two records | violated: `ReadReturnsStored` |
| `shared_resources` | two writers and a reader, a record, values of four; two threads that add two items each, one that polls, two addresses; two runs of client programs (the first either, the second `client_time`) with two threads and up to two requests each | `ReadIsRecent`; `QueueInv` (the inductive invariant `IInv`, with `ListInv` and `NothingLeaks`, and `NoUseAfterFree`), `ImplementsFifo`, `EveryItemTaken`, `EveryAddReturns`; `ConnectionsInv` (an inductive invariant, with `TakenOnce`), `RowsAreAnswers`, `WorkersFollowClients`, `ProgramEnds` |

Why the bounds are enough to be interesting: with two slaves in a region and
three epochs, a slave can be two batches behind its peer, request one, get it
from both the peer and the master, and acknowledge an epoch the sender has not
sent; with three slaves a request can be answered while the third slave is
still behind. Two contents tell a batch from another one of the same epoch. Two
requests of a client are what late retries, late ACKs and a stale flag need, and a
third by another client lets these meet a remote write; two clients at two slaves
are what batches with several transactions and real-time order need. At the finish the threads of one client and one slave
do not meet those of another; two requests are what it takes to have an executed
and a pending one when the request comes. In `encodings` a record of three cells
has a header and room for messages of one and two, so that the longer one leaves
something behind the shorter, and the six epochs go beyond the two a short of
four values can count; a byte in a fresh buffer is 0 or 255. In `shared_resources`
two addresses for four items make the threads reuse what was just freed, and
the values wrap; a client program meets the finish and the end of the slave at
every moment, a second one a slave that accepts nobody any more, ends, or has
ended (it can be started only after a `client_time`, as a `client_txnum` that
comes first never ends). The proofs of section 5 hold for all bounds
of replication, transactions, start and finish, queues, the log, messages, ids and
epochs, ports, connections and records. Symmetry is used only for safety.

Deadlock is checked in `replication_proposed`, which does not stop at its bound.
All others end where the batches, requests or items of the bound are done, or
when the programs have ended or wait for ever.

Fairness. Weak fairness of the epoch thread, of each sender thread's sending, of
the client threads and schedulers: each is a thread of its own whose loops do
not wait for one another but at the short mutexes. Strong fairness of receiving
a datagram that its sender keeps sending (a batch, the ACK a repeated batch
provokes, ADD_TO_BATCH and its ACK): a network that loses some datagrams but not
all copies. Nothing is assumed of the ACKs, requests and batches between peers,
which are sent once. `HandOver` is weakly fair in `Transactions` because
`EveryBatchArrives` was checked of `BatchReplication`.

In `Lifecycle` every thread is weakly fair in its steps that need no datagram
(`lifecycle` assumes it only of the threads its liveness properties are about,
`EndFairness`, which is the stronger statement); nothing is assumed of the network, since after the finish nobody need be left to
answer. `MasterStartsWithClient` needs the start datagram to arrive and says so:
it is an implication from weak fairness of `MasterStart`.

In `LinkedQueue` a thread that waits for a mutex others take again and again gets
it at some time (strong fairness); threads go on with a call they have begun, and
nobody need add or stop. In `ShortIds` (the violated run) and `ClientConnections` the threads run, a
datagram that is sent again and again arrives, TCP delivers; of the start and the
finish datagrams nothing is assumed. In `ClientConnections` a write is executed at
some time while the master is running, which is what `EveryRequestAnswered` says
of `Transactions`; nothing is assumed before the start or after the finish of the
master. So `ProgramEnds` is about a first client program with a master that runs,
and leaves open what becomes of it after a finish request: with a lost finish
datagram of the slave, or a batch that was not closed any more, a client stays in
`recv`. In `LinkedQueue` the strong fairness is the mutex's: POSIX does not promise it,
and without it a thread that polls could starve one that adds; what
`EveryAddReturns` shows is that the mutex is given back on every path.

`EveryBatchArrives` and `EveryBatchAcknowledged` are one leads-to for each epoch
with all replicas in its conclusion: positions only grow, so that this says the
same as one for each replica.

What the four violated runs show:

- `master.c:40` sets `system_finish_request` to -1 before it creates the
  schedulers. The loops of the schedulers run only while it is 0
  (`write_scheduler.c:25`, `read_scheduler.c:15`), and do not wait for the start
  as the sequencer's do. So the master's schedulers end at once, its queue of
  batches is never emptied, and the storage it prints at the end is untouched.
  `configuration.h:175` says that 1 is finish and 0 continue. If the start
  request were faster than the creation of the threads, they would run: the
  model has both.
- The comment of the receiving thread (`master_sequencer.c:258-260`) says that
  it receives the request to finish. No such request is sent: the forwarding is
  commented out (`client_interface.c:153`). After the finish the thread is in
  `recvfrom` for good, unless a late ADD_TO_BATCH gets it out, and the master
  waits in the join of it.
- The id in an `ACK_ADD` is a short (`message.c:296`) that is compared with the
  unsigned id of the Tx (`client_interface.c:335`). From id 32768 on no ACK is
  recognised, and the thread resends for ever although the flag it is to wait
  for (`:159`) is up.
- `write_to_storage` increments the record and ignores its parameter `value`
  (`storage.c:66`), while its comment says that it changes the value
  (`storage.c:56-59`) and `test/storage_test.c:14` asserts that what was written
  is read.

The models show more that has no run of its own:

- the sequencer of a slave blocks in `recvfrom` in the same way, so `SlaveJoin`,
  and with it the clients that wait for their last response, depend on one more
  datagram (`slave_sequencer.c:63`);
- a lost start datagram leaves the threads of the master spinning, and so does a
  start that is overtaken by the finish before a thread has looked;
  `client_txnum.c` sends no start datagram at all, and with it the master never
  goes over to its epochs;
- a worker that ends at the finish request frees its Tx, and the write scheduler
  may still write to it, in the batch it has begun (`client_interface.c:222`,
  `write_scheduler.c:59`): `NotifiesLiveTx` is about the time before;
- the id of a transaction starts again at 0 after 65535, and the master would take
  such a write for one it has (`master_sequencer.c:337`). `AcknowledgedWasAdded`
  is about the requests before; as ACKs stop to match at 32768, only a client that
  does nothing but read from there on gets that far;
- a slave's record is copied beyond the end of its buffer (`log.c:59`): harmless
  for the batch, as `ImplementsBatchLog` shows, but a write to foreign memory;
- exactly `CLIENT_NUM` connections are accepted in the life of a slave, though
  `client_interface.c:66` speaks of accepting until the finish request: the
  clients of a second run wait for ever (`Runs > 1`), or, when the first run has
  asked the slave to finish and it ends while they are connected, take what is in
  their buffers for the response; `RowsAreAnswers` leaves those rows out;
- a `send` on a connection the ended slave has reset raises SIGPIPE instead of
  returning -1 (`tcp_client.c:49-55`);
- a slave that is started again soon after it ended may not get the port of its
  client interface (`tcp_server.c:110`); it then ends at its first `accept`
  (`client_interface.c:68-71`). That no other bind fails is proved
  (`BindsFailOnlyAfterRestart`);
- the count in a record is negative after 32767 writes (`storage.c:66`), and a
  client may read less than its own writes; `ReadsCountOwnWrites` is about the
  time before.

For each property a changed action (`Mutant:` in the modules, next to the
original) shows that a plausible mistake in that code would be found.

## 5. What is proved

`BatchReplicationProofs`, for every set of slaves, every region layout, every
set of contents, both methods and every `MaxEpoch`:

| theorem | statement |
|---|---|
| `Invariance` | `Spec => []IInv` |
| `TypeCorrectness`, `NeverHalts`, `Agreement`, `OnlyLoggedRuns`, `NoBatchLeftOut`, `EveryRequestServable` | `Spec => []P` for `TypeOK`, `NoHalt`, `ReplicaAgreement`, `RunsOnlyLogged`, `AckedIsLogged`, `RequestsAreServable` |
| `NothingTakenBack` | `Spec => NeverTakenBack` |
| `Refinement` | `Spec => ImplementsBatchOrder` |

Assumptions: the master is not a slave; the method is one of the two;
`MaxEpoch` fits a `short`; `Loss` names kinds of datagrams; `NoBatch` is no
batch.

None of the properties is inductive. That no batch from beyond a gap arrives
depends on all batches in the network being at most what their receiver expects
(`BatchNetInv`); that depends on the sender of a slave never being ahead of the
slave (`SenderInv`), which depends on every ACK in the network being of a batch
its sender has (`AckNetInv`); a peer's answer depends on the request not being
ahead of who asks (`RequestNetInv`). Agreement follows from all logs being
prefixes of the master's (`SlaveInv`), buffers being the logs in order
(`BufferInv`), and the master's log being ahead of `determined_epoch_id` exactly
by what the epoch thread has done of closing a batch (`EpochThreadInv`). All
positions only grow, so what the network holds stays true: that is what makes
repeated and reordered datagrams harmless. `IInv` is the conjunction; TLC checks
it in `replication_proposed`. The proof has a lemma for each action and in it a
step for each part the action can disturb.

In the refinement, `determined` is the master's log up to
`determined_epoch_id`. The master's `Determine` is the abstract one; `Enqueue`
and `AcceptBatch(s, m)` are `HandOver`; all other steps change neither
`determined` nor the buffers. `AppendBatch` changes the log, but beyond the
determined part.

`EncodingsProofs` about `MessageCodec`, for all transactions whose fields have their types, all ids
and epochs, every `MAX_BATCH_SIZE` that fits the buffers, and whatever fresh
buffers hold: `EveryMessageUnderstood` (`Spec => []Understood`). The invariant adds
the type of the buffers and `WillUnderstand`: what is
on its way is a prefix of the receiver's buffer after the receipt, so that the
decoding depends on nothing an earlier message left. The lemmas are about
encoding and decoding of one field (`GetShort` of `Lo` and `Hi` of a short is the
short, `GetId` that of an unsigned one) and of one transaction in a batch.

`EncodingsProofs` about `ShortIds`, for every width of the integers (`HALF` above 0)
and any number of requests and epochs: `IdsInvariance` (`IdsSpec => []IdsInv`). The
difficulty is in the ACK, which names a transaction by an id alone, and in the
master, which takes every id that is not above the last one for an old one. So
long as no id has come twice (`UniqueIdsInv`, for `requests <= 2 * HALF`), the
number of a request and its id are the same; all earlier requests that the network
may still deliver are acknowledged, because the thread asks for one at a time;
hence an id the master skips is in a batch already, and an ACK in the network with
an id that has not become negative is of such a write. Beyond that number of
requests nothing of this holds, but what was acknowledged before stays in its
batch, so that `AcknowledgedWasAdded`, which is about the first `2 * HALF` requests,
needs no bound on the length of the run. That its limit is real TLC shows: without
it the fifth request of the run, acknowledged by the ACK of the first, is in no batch.
For the log, epochs and determined batches are equally many until the process
ends, and it ends at epoch `HALF` at the latest (`EpochInv`), so that the offsets in
use are all different. `ResendAdd` is shown to change nothing: the datagram is in
the network already.

`SocketsProofs` about `Ports`, for up to six slaves and a hundred clients each, on one host or
several, and processes that end and start again at any time:
`BindsFailOnlyAfterRestart` (`PortsSpec => []OnlyRestartedInterfacesFail`: no bind
fails and no port is held by old connections but that of the client interface of a
process started again) and `RightThreadReceives`
(`PortsSpec => []NobodyElseReceives`). Both follow from one lemma: two
sockets with the same port, protocol and host are the same socket. It is linear
arithmetic in `replica_id` and `client_id`, a case for each pair of uses.

`SocketsProofs` about `ClientConnections`, for any number of clients of a slave, any
number of runs of either program and of requests: `ConnectionsInvariance`
(`ConnectionsSpec => []ConnectionsInv`) and `RowsAreRight`
(`ConnectionsSpec => []RowsAreAnswers`).

What has to be shown is that no side ever decodes a buffer that nothing was
received into, though neither looks at the 0 that `recv` returns. Client and worker
take turns (`TurnInv`): while the client waits, its request is in the stream, with
the worker, or answered, or the worker has ended at the request to finish; while
it does not wait, the worker has nothing of it, and once it has gone its farewell
is in the stream or the worker has ended. Hence a worker that comes to `recv` either
blocks or finds a message of its client, and never serves one twice (`TakenOnce`).
At the client `recv` returns 0 only after the end of the slave, and the slave ends
only because a `client_time` whose time is up has asked for it (`RunInv`,
`SlaveInv`); in that program the client, after the time, does not record what it
has got. That is why `RowsAreAnswers` excepts the clients of a later run, whose own
time is not up. `WaitingInv` says that a connection waits once to be accepted, so
that a new worker is of a client that has none; at most `CLIENT_NUM` are accepted.

`SharedMemoryProofs` about `Storage`, for any threads, keys and width:
`ReadsAreRecent` (`StorageSpec => []ReadIsRecent`). The invariant `RecordsInv` says in
addition that a record is the count of its writes, as a short (`CountsWrites`: none
is lost), who holds its mutex (`HolderInv`), that what a thread has loaded is still
the value while it holds it (`LoadedInv`), and that the count at the beginning of a
call is at most the present one (`BeforeInv`). That incrementing before or after
the cut to a short is the same is a lemma of `ShortsProofs`.

`TransactionsProofs`, for any finite set of clients, any slaves, keys and
assignment of clients to slaves, every `MAX_BATCH_SIZE` above 0, with or without
loss, and every bound:

| theorem | statement |
|---|---|
| `Invariance`, `InvarianceOfRun` | `Spec => []IInv`, `Spec => []TxInv` |
| `EachTxInOneBatch` | `Spec => []ExactlyOnce` |
| `RightTxNotified` | `Spec => []NotifiesItsOwnTx` |
| `AnswersAreTrue` | `Spec => []AnsweredWriteIsDone` |
| `ReadYourWrites` | `Spec => []ReadsOwnWrites` |
| `ReadsCountOwnWrites` | `Spec => []CountsOwnWrites`: below `HALF` writes to its record a read is not less than the client's own writes |
| `EpochsInRealTime` | `Spec => []RealTimeOrder` |
| `SlavesConverge` | `Spec => []Convergence` |
| `BatchesInOrder` | `Spec => UsesBatchOrder` |

The argument follows a transaction by its *place*: the number of its batch and
the position in it, whether that batch is collecting, closed or determined. Only
`AddToBatch` makes a place; closing and determining a batch leave all where they
are, and a scheduler only goes forward, so what it has executed stays executed.
The key is `KnownInv`: wherever a transaction is, in a datagram, waiting at the
master or at a place, it is the one the thread of its client is at, or its
client's slave has executed it. This is why the write scheduler may raise a flag without
looking at ids, and why a late ADD_TO_BATCH does no harm: its id is not above the
last one the master took (`MasterInv`), which has a place already or will get
one. `ThreadInv` and `ReadInv` say what the thread and its Tx are doing meanwhile;
`FloorInv` that a write asked for after an answer is at no place of an epoch
already reported. `StorageInv` counts: a record is the number of places of its key
the slave has written (`WrittenPlaces`), as a short. So equal positions give equal
records, and a read is the count of writes among which are its client's own, which
an injection maps to different places; below `HALF` writes, of any client, the cut
to a short changes nothing, and it is at least their number. That no thread meets a full batch while no more
clients write than it holds (`BatchHasRoom`) is an injection, too: of the places of
the collecting batch into the other clients.

`LifecycleProofs`, for any slaves and clients, any assignment of clients to
slaves, both client programs and every bound, the master not being a slave:

| theorem | statement |
|---|---|
| `Invariance`, `NothingBeforeStart` | `Spec => []IInv`, `Spec => []StartInv` |
| `AnswersAreTrue` | `Spec => []NoFalseAnswer` |
| `LiveTxNotified` | `Spec => NotifiesLiveTx` |

Here the finish request may find every thread at every place, and the argument
is about what still holds then. A client and its worker take turns (`TurnInv`):
a worker ends because of the request, or because of the farewell of a client
that has its answer, in which case the flag is up already. The response is sent
only with the flag up, and the flag goes up only when the scheduler executes the
epoch of the transaction the worker is at: `TxEpochInv` says that `tx_epoch` is of
that transaction, as the master has not yet taken a later id and none is in the
network. `BeforeStartInv` says of the threads that have been created what they
wait for before the start; with `EpochInv`, by which nobody is ahead of
`determined_epoch_id`, it makes the queues empty. `FinishInv` orders the ends of a
slave.

`SharedMemoryProofs` about `LinkedQueue`, for any producers, at least one consumer, any addresses and
any number of items: `Invariance` (`Spec => []QueueInv`) and `Refinement`
(`Spec => ImplementsFifo`).

The proof speaks of `linked`, the nodes in the order of the additions. Two lemmas
say what a change does to it: a node of nobody's comes to its end (`LinkStep`), or
its first node goes and becomes the consumer's (`UnlinkStep`). That the pointers
are those of `linked` is inductive only with who may be at which line: one thread
holds the mutex exactly from locking to unlocking (`MutexInv`), and between the two
writes of a change the node at the end, or the empty list, is what the holder is
working on (`NodeInv`). That an address freed a moment ago may be used again does
no harm, because of `NothingLeaks`: an allocated node has one owner, the list or a
thread, so what a consumer frees is neither linked nor anybody else's. In the
refinement the queue is the items of `linked`; `Link`, not the call's return, is
the addition, and moving `head` is the taking.

`BatchLogFileProofs`, for any slaves, senders and peers that answer, any
`MaxEpoch`, any sizes of a batch and any length of a record that holds the header
and the longest message: `FilesAreRight` (`FileSpec => []FileInv`) and
`LogRefinement` (`FileSpec => ImplementsBatchLog`).

A file has one writer, which only appends (`AppendInv`), and a reader asks only
for an epoch below `Records(r)`, the records that count; so whatever a read sees,
in however many parts, is what it would have seen at once, and there is always
something left to read. The proof uses the mutex nowhere, and indeed `log.c` opens
a descriptor for each call (`:62`, `:93`), with an offset of its own, which the model
keeps in `op`: only append and read of the same record would need the mutex, and
these are kept apart by `determined_epoch_id`. What is in a record is carried along by two
predicates, `Holds` of the cells in a file or a buffer for a record, and `Carries`
of a message: both say that the cells of the batch are in their places and nothing
about the rest, which may be left over from another message or cut off at the end
(`CarriedIsHeld`, `HeldIsCarried`). In the refinement the master's `Determine` is
the abstract one, `Follow` is the end of `append_log` at a slave, `SendFromLog` is
`Send`, and all other steps change neither the records that count nor what has
been sent.

Only model-checked: the liveness properties (fairness and ENABLED are out of the
prover's reach). Every invariant, every action property and every refinement that
a passing run checks is proved.

## 6. What is not modelled

- In `BatchReplication` and `Transactions` the start and the finish: they speak
  of the time in between, `Lifecycle` of its ends.
- The functions of `batch_list.c` and `transaction_list.c` that only tell whether a
  list is empty, and the terminate messages of `message.c`: they have no caller.
- The memory of batches and of the transactions in them; of the Tx of a client it
  is modelled until when it is used.
- The `tcp` method: its code is commented out; a master started with it creates
  no sender threads.
- Crash and restart: nothing is recovered, a restarted process starts from
  nothing, which the protocol does not provide for. Only for the ports it is
  followed what a process leaves behind (`Ports`).
- Failures of system calls, which end the process or are ignored.
- Short counts of `send` and messages that `recv` delivers in two parts: the
  messages are 14 bytes at most, one is on its way at a time
  (`ConnectionsInv`).
- Allocation of the `Config`, arguments of the programs.
- The measurement log (`log_<id>.csv`), the result file and timers: output only.
  The RTO and the epoch duration are steps that may happen at any time.
- The programs in `test/`: they print results to be read, and several call
  functions that no longer exist.
