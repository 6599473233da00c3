---------------------------- MODULE Transactions ----------------------------
(***************************************************************************)
(* The life of a transaction, from a client's request to its response:     *)
(*                                                                         *)
(*   client/client_time.c                 a client, one request at a time  *)
(*   client_interface/client_interface.c  the slave's thread for a client  *)
(*   master/master_sequencer.c            the receiving thread for a       *)
(*                                        client and the epoch thread      *)
(*   scheduler/write_scheduler.c          executes the batches in order    *)
(*   scheduler/read_scheduler.c           executes reads of the slave      *)
(*                                                                         *)
(* Between the epoch thread and the slaves' write schedulers stands what   *)
(* BatchReplication was shown to implement: BatchOrder.  The behaviours    *)
(* are those between the start and the finish request.                     *)
(***************************************************************************)
EXTENDS Shorts, Sequences, FiniteSets, Functions

CONSTANTS
  Slaves,           \* the slaves, each with its own clients
  Clients,          \* a client is a pair (replica_id, client_id)
  Home,             \* Home[c]: the slave client c is connected to
  Keys,             \* the records of the storage
  MAX_BATCH_SIZE,   \* the most transactions a batch holds
  MaxTxId,          \* bound: the last transaction id of a client
  MaxRequests,      \* bound: how many requests all clients make
  MaxEmptyBatches,  \* bound: how many batches without a transaction
  Loss              \* whether the network removes datagrams

ASSUME HomeAssumption  == Home \in [Clients -> Slaves]
ASSUME ClientsAssumption == IsFiniteSet(Clients)
ASSUME SizeAssumption  == MAX_BATCH_SIZE \in Nat \ {0}
ASSUME BoundAssumption ==
  MaxTxId \in 0 .. 32767 /\ MaxRequests \in Nat /\ MaxEmptyBatches \in Nat
ASSUME LossAssumption  == Loss \in BOOLEAN

TxIds == 0 .. MaxTxId

(* A write transaction on its way to the storage.                          *)
WriteTxs == [client : Clients, id : TxIds, key : Keys]

VARIABLES
  \* the slave's thread for client c, and the Tx it uses for every request
  thread_pc,     \* "receive", "request_write" or "wait_flag"
  tx,            \* the fields of that Tx
  wait_for_exe,  \* whether db_client_info_set[c].wait_for_exe points to it
  \* the network between that thread and the master's
  addNet,        \* ADD_TO_BATCH_MESSAGE
  ackAddNet,     \* ACK_ADD_MESSAGE
  \* the master
  recieved_tx_id,  \* of the receiving thread for c: the last id it took
  adding,          \* of that thread: the transactions it has yet to add
  batch,           \* tx_set of the batch that is collecting
  rev_batch,       \* the closed batch until it is determined: <<>> or <<b>>
  \* batch replication
  determined,      \* the determined batches
  handed,          \* handed[s]: those that reached the slave
  \* the schedulers of slave s
  exec,            \* write scheduler: the batch, the position, what is next
  read_tx_buffer,  \* clients whose read waits for the read scheduler
  storage,         \* storage[s][k]: the value of record k
  \* for the properties only
  reported,        \* the highest epoch a client was told of
  floor            \* floor[c]: its value when c made its request

threadVars  == <<thread_pc, tx, wait_for_exe>>
addVars     == <<addNet, ackAddNet>>
masterVars  == <<recieved_tx_id, adding, batch, rev_batch>>
orderVars   == <<determined, handed>>
schedVars   == <<exec, read_tx_buffer, storage>>
historyVars == <<reported, floor>>
vars == <<threadVars, addVars, masterVars, orderVars, schedVars, historyVars>>

(* What a batch holds: the transactions in the order they were added.      *)
TxSets == UNION {[1 .. n -> WriteTxs] : n \in 0 .. MAX_BATCH_SIZE}

BO == INSTANCE BatchOrder WITH Replicas <- Slaves

-----------------------------------------------------------------------------
Init ==
  /\ thread_pc = [c \in Clients |-> "receive"]
  /\ tx = [c \in Clients |-> [id |-> -1, type |-> "ERROR", key |-> -1,
                              value |-> -1, assigned_epoch_id |-> -1,
                              complete_flag |-> 0]]
  /\ wait_for_exe = [c \in Clients |-> FALSE]
  /\ addNet = {}
  /\ ackAddNet = {}
  /\ recieved_tx_id = [c \in Clients |-> -1]
  /\ adding = [c \in Clients |-> <<>>]
  /\ batch = <<>>
  /\ rev_batch = <<>>
  /\ BO!Init
  /\ exec = [s \in Slaves |-> [epoch |-> 0, pos |-> 0, next |-> "write"]]
  /\ read_tx_buffer = [s \in Slaves |-> <<>>]
  /\ storage = [s \in Slaves |-> [k \in Keys |-> 0]]
  /\ reported = -1
  /\ floor = [c \in Clients |-> -1]

-----------------------------------------------------------------------------
(* The bounds on requests.                                                 *)
Requests == FoldFunction(LAMBDA t, n : t.id + 1 + n, 0, tx)

MayRequest(c) == tx[c].id < MaxTxId /\ Requests < MaxRequests

(* The write transaction the thread of client c is asking for.             *)
WriteTx(c) == [client |-> c, id |-> tx[c].id, key |-> tx[c].key]

(* Mutant: init_tx leaves the flag of the previous request up. *)
NewTxKeepsFlag(c, type, key) ==
  [id |-> tx[c].id + 1, type |-> type, key |-> key, value |-> -1,
   assigned_epoch_id |-> -1, complete_flag |-> tx[c].complete_flag]

(* The client counts its requests from 0 (its count is tx[c].id + 1; -1 in *)
(* the model is the id of no request); the thread clears its Tx, fills it  *)
(* from the request over TCP ...                                           *)
NewTx(c, type, key) ==
  [id |-> tx[c].id + 1, type |-> type, key |-> key, value |-> -1,
   assigned_epoch_id |-> -1, complete_flag |-> 0]

(* Mutant: the thread does not register its Tx before it sends. *)
RequestWriteUnregistered(c) ==
  /\ thread_pc[c] = "receive"
  /\ MayRequest(c)
  /\ \E k \in Keys :
       /\ tx' = [tx EXCEPT ![c] = NewTx(c, "WRITE_ONLY", k)]
       /\ addNet' = addNet \cup {WriteTx(c)'}
  /\ thread_pc' = [thread_pc EXCEPT ![c] = "request_write"]
  /\ floor' = [floor EXCEPT ![c] = reported]
  /\ UNCHANGED <<wait_for_exe, ackAddNet, masterVars, orderVars, schedVars,
                 reported>>

(* ... and either registers it with the write scheduler and sends it to    *)
(* the master for the first time ...                                       *)
RequestWrite(c) ==
  /\ thread_pc[c] = "receive"
  /\ MayRequest(c)
  /\ \E k \in Keys :
       /\ tx' = [tx EXCEPT ![c] = NewTx(c, "WRITE_ONLY", k)]
       /\ addNet' = addNet \cup {WriteTx(c)'}
  /\ wait_for_exe' = [wait_for_exe EXCEPT ![c] = TRUE]
  /\ thread_pc' = [thread_pc EXCEPT ![c] = "request_write"]
  /\ floor' = [floor EXCEPT ![c] = reported]
  /\ UNCHANGED <<ackAddNet, masterVars, orderVars, schedVars, reported>>

(* ... or gives it to the slave's own read scheduler.                      *)
RequestRead(c) ==
  /\ thread_pc[c] = "receive"
  /\ MayRequest(c)
  /\ \E k \in Keys : tx' = [tx EXCEPT ![c] = NewTx(c, "READ_ONLY", k)]
  /\ read_tx_buffer' = [read_tx_buffer EXCEPT ![Home[c]] = Append(@, c)]
  /\ thread_pc' = [thread_pc EXCEPT ![c] = "wait_flag"]
  /\ floor' = [floor EXCEPT ![c] = reported]
  /\ UNCHANGED <<wait_for_exe, addVars, masterVars, orderVars, exec, storage,
                 reported>>

(* The RTO has passed: the thread sends the transaction again.             *)
ResendAdd(c) ==
  /\ thread_pc[c] = "request_write"
  /\ addNet' = addNet \cup {WriteTx(c)}
  /\ UNCHANGED <<threadVars, ackAddNet, masterVars, orderVars, schedVars,
                 historyVars>>

(* Mutant: the ACK of the master counts as completion. *)
RecvAckAddCompletes(c) ==
  /\ thread_pc[c] = "request_write"
  /\ [client |-> c, id |-> tx[c].id] \in ackAddNet
  /\ thread_pc' = [thread_pc EXCEPT ![c] = "wait_flag"]
  /\ tx' = [tx EXCEPT ![c].complete_flag = 1]
  /\ UNCHANGED <<wait_for_exe, addVars, masterVars, orderVars, schedVars,
                 historyVars>>

(* The ACK of this very transaction ends the sending; the transaction may  *)
(* have been executed before it arrives.                                   *)
RecvAckAdd(c) ==
  /\ thread_pc[c] = "request_write"
  /\ [client |-> c, id |-> tx[c].id] \in ackAddNet
  /\ thread_pc' = [thread_pc EXCEPT ![c] = "wait_flag"]
  /\ UNCHANGED <<tx, wait_for_exe, addVars, masterVars, orderVars, schedVars,
                 historyVars>>

(* The flag is up: the thread answers the client.                          *)
Respond(c) ==
  /\ thread_pc[c] = "wait_flag"
  /\ tx[c].complete_flag = 1
  /\ thread_pc' = [thread_pc EXCEPT ![c] = "receive"]
  /\ reported' = IF tx[c].assigned_epoch_id > reported
                   THEN tx[c].assigned_epoch_id ELSE reported
  /\ UNCHANGED <<tx, wait_for_exe, addVars, masterVars, orderVars, schedVars,
                 floor>>

-----------------------------------------------------------------------------
(* Mutant: the id is not compared with the last one. *)
RecvAddAgain(c, m) ==
  /\ adding[c] = <<>>
  /\ m \in addNet
  /\ m.client = c
  /\ ackAddNet' = ackAddNet \cup {[client |-> c, id |-> m.id]}
  /\ recieved_tx_id' = [recieved_tx_id EXCEPT ![c] = m.id]
  /\ adding' = [adding EXCEPT ![c] = <<m>>]
  /\ UNCHANGED <<threadVars, addNet, batch, rev_batch, orderVars, schedVars,
                 historyVars>>

(* Mutant: a transaction received before is not acknowledged again. *)
RecvAddSilent(c, m) ==
  /\ adding[c] = <<>>
  /\ m \in addNet
  /\ m.client = c
  /\ m.id > recieved_tx_id[c]
  /\ ackAddNet' = ackAddNet \cup {[client |-> c, id |-> m.id]}
  /\ recieved_tx_id' = [recieved_tx_id EXCEPT ![c] = m.id]
  /\ adding' = [adding EXCEPT ![c] = <<m>>]
  /\ UNCHANGED <<threadVars, addNet, batch, rev_batch, orderVars, schedVars,
                 historyVars>>

(* The master's thread for client c acknowledges every ADD_TO_BATCH it     *)
(* receives, and takes the transaction if its id is above the last one.    *)
RecvAdd(c, m) ==
  /\ adding[c] = <<>>
  /\ m \in addNet
  /\ m.client = c
  /\ ackAddNet' = ackAddNet \cup {[client |-> c, id |-> m.id]}
  /\ IF m.id <= recieved_tx_id[c]
       THEN UNCHANGED <<recieved_tx_id, adding>>
       ELSE /\ recieved_tx_id' = [recieved_tx_id EXCEPT ![c] = m.id]
            /\ adding' = [adding EXCEPT ![c] = <<m>>]
  /\ UNCHANGED <<threadVars, addNet, batch, rev_batch, orderVars, schedVars,
                 historyVars>>

(* It adds it under the batch's mutex; as long as the batch is full it     *)
(* tries again.                                                            *)
AddToBatch(c) ==
  /\ adding[c] # <<>>
  /\ Len(batch) < MAX_BATCH_SIZE
  /\ batch' = batch \o adding[c]
  /\ adding' = [adding EXCEPT ![c] = <<>>]
  /\ UNCHANGED <<threadVars, addVars, recieved_tx_id, rev_batch, orderVars,
                 schedVars, historyVars>>

EmptyBatches ==
  Cardinality({i \in DOMAIN determined : determined[i].tx_set = <<>>})

(* Mutant: the closed batch gets the number of the epoch after its own. *)
CutBatchNextEpoch ==
  /\ rev_batch = <<>>
  /\ batch # <<>> \/ EmptyBatches < MaxEmptyBatches
  /\ rev_batch' = <<[epoch_id |-> Len(determined) + 1, tx_set |-> batch]>>
  /\ batch' = <<>>
  /\ UNCHANGED <<threadVars, addVars, recieved_tx_id, adding, orderVars,
                 schedVars, historyVars>>

(* The epoch is over: the collecting batch is swapped for an empty one,    *)
(* under the mutex.                                                        *)
CutBatch ==
  /\ rev_batch = <<>>
  /\ batch # <<>> \/ EmptyBatches < MaxEmptyBatches
  /\ rev_batch' = <<[epoch_id |-> Len(determined), tx_set |-> batch]>>
  /\ batch' = <<>>
  /\ UNCHANGED <<threadVars, addVars, recieved_tx_id, adding, orderVars,
                 schedVars, historyVars>>

(* The closed batch is logged and determined.                              *)
Determine ==
  /\ rev_batch # <<>>
  /\ determined' = determined \o rev_batch
  /\ rev_batch' = <<>>
  /\ UNCHANGED <<threadVars, addVars, recieved_tx_id, adding, batch, handed,
                 schedVars, historyVars>>

(* A slave receives its next batch.                                        *)
HandOver(s) ==
  /\ BO!HandOver(s)
  /\ UNCHANGED <<threadVars, addVars, masterVars, schedVars, historyVars>>

-----------------------------------------------------------------------------
(* The write scheduler of slave s: the batch it executes, at the position  *)
(* of its own count of epochs, and the transactions of it still to do.     *)
CurrentBatch(s) == handed[s][exec[s].epoch + 1]

HasBatch(s) == exec[s].epoch < Len(handed[s])

HasTx(s) == HasBatch(s) /\ exec[s].pos < Len(CurrentBatch(s).tx_set)

CurrentTx(s) == CurrentBatch(s).tx_set[exec[s].pos + 1]

(* Mutant: a slave executes the writes of its own clients only. *)
WriteToStorageLocal(s) ==
  /\ HasTx(s)
  /\ exec[s].next = "write"
  /\ storage' = IF Home[CurrentTx(s).client] = s
                  THEN [storage EXCEPT ![s][CurrentTx(s).key] = Short(@ + 1)]
                  ELSE storage
  /\ exec' = [exec EXCEPT ![s].next = "notify"]
  /\ UNCHANGED <<threadVars, addVars, masterVars, orderVars, read_tx_buffer,
                 historyVars>>

(* The value a client writes is not used: a write increments the record,   *)
(* which is a short.                                                       *)
WriteToStorage(s) ==
  /\ HasTx(s)
  /\ exec[s].next = "write"
  /\ storage' = [storage EXCEPT ![s][CurrentTx(s).key] = Short(@ + 1)]
  /\ exec' = [exec EXCEPT ![s].next = "notify"]
  /\ UNCHANGED <<threadVars, addVars, masterVars, orderVars, read_tx_buffer,
                 historyVars>>

(* Mutant: the epoch told is that of the newest batch, not of this one. *)
NotifyClientNewest(s) ==
  /\ HasTx(s)
  /\ exec[s].next = "notify"
  /\ LET c == CurrentTx(s).client
     IN  tx' = IF Home[c] = s
                 THEN [tx EXCEPT ![c].assigned_epoch_id = Len(handed[s]) - 1,
                                 ![c].complete_flag = 1]
                 ELSE tx
  /\ exec' = [exec EXCEPT ![s].pos = @ + 1, ![s].next = "write"]
  /\ UNCHANGED <<thread_pc, wait_for_exe, addVars, masterVars, orderVars,
                 read_tx_buffer, storage, historyVars>>

(* If the client is one of this slave's, the Tx its thread waits for gets  *)
(* the epoch, and then its flag is raised.                                 *)
NotifyClient(s) ==
  /\ HasTx(s)
  /\ exec[s].next = "notify"
  /\ LET c == CurrentTx(s).client
     IN  tx' = IF Home[c] = s
                 THEN [tx EXCEPT ![c].assigned_epoch_id = exec[s].epoch,
                                 ![c].complete_flag = 1]
                 ELSE tx
  /\ exec' = [exec EXCEPT ![s].pos = @ + 1, ![s].next = "write"]
  /\ UNCHANGED <<thread_pc, wait_for_exe, addVars, masterVars, orderVars,
                 read_tx_buffer, storage, historyVars>>

(* Mutant: an epoch is counted although the queue is empty. *)
EndBatchAlways(s) ==
  /\ exec[s].epoch <= Len(determined)
  /\ ~HasTx(s)
  /\ exec' = [exec EXCEPT ![s].epoch = @ + 1, ![s].pos = 0]
  /\ UNCHANGED <<threadVars, addVars, masterVars, orderVars, read_tx_buffer,
                 storage, historyVars>>

(* The batch is done: the scheduler counts the epoch.                      *)
EndBatch(s) ==
  /\ HasBatch(s)
  /\ ~HasTx(s)
  /\ exec' = [exec EXCEPT ![s].epoch = @ + 1, ![s].pos = 0]
  /\ UNCHANGED <<threadVars, addVars, masterVars, orderVars, read_tx_buffer,
                 storage, historyVars>>

(* The read scheduler of slave s executes the oldest read.                 *)
ExecuteRead(s) ==
  /\ read_tx_buffer[s] # <<>>
  /\ LET c == Head(read_tx_buffer[s])
     IN  tx' = [tx EXCEPT ![c].value = storage[s][tx[c].key],
                          ![c].complete_flag = 1]
  /\ read_tx_buffer' = [read_tx_buffer EXCEPT ![s] = Tail(@)]
  /\ UNCHANGED <<thread_pc, wait_for_exe, addVars, masterVars, orderVars,
                 exec, storage, historyVars>>

-----------------------------------------------------------------------------
(* UDP, as in BatchReplication: what was received stays deliverable until  *)
(* the network drops it.                                                   *)
DropAdd ==
  /\ Loss
  /\ \E m \in addNet : addNet' = addNet \ {m}
  /\ UNCHANGED <<threadVars, ackAddNet, masterVars, orderVars, schedVars,
                 historyVars>>

DropAckAdd ==
  /\ Loss
  /\ \E m \in ackAddNet : ackAddNet' = ackAddNet \ {m}
  /\ UNCHANGED <<threadVars, addNet, masterVars, orderVars, schedVars,
                 historyVars>>

Next ==
  \/ \E c \in Clients :
       \/ RequestWrite(c) \/ RequestRead(c) \/ ResendAdd(c) \/ RecvAckAdd(c)
       \/ Respond(c) \/ AddToBatch(c)
       \/ \E m \in addNet : RecvAdd(c, m)
  \/ CutBatch \/ Determine
  \/ \E s \in Slaves :
       \/ HandOver(s) \/ WriteToStorage(s) \/ NotifyClient(s) \/ EndBatch(s)
       \/ ExecuteRead(s)
  \/ DropAdd \/ DropAckAdd

Spec == Init /\ [][Next]_vars

(* Every thread keeps running, a datagram that is sent again and again     *)
(* arrives again and again, and replication hands every batch over.        *)
Fairness ==
  /\ WF_vars(CutBatch) /\ WF_vars(Determine)
  /\ \A c \in Clients :
       /\ WF_vars(ResendAdd(c)) /\ SF_vars(RecvAckAdd(c))
       /\ WF_vars(Respond(c)) /\ WF_vars(AddToBatch(c))
       /\ \A id \in TxIds, k \in Keys :
            SF_vars(RecvAdd(c, [client |-> c, id |-> id, key |-> k]))
  /\ \A s \in Slaves :
       /\ WF_vars(HandOver(s)) /\ WF_vars(ExecuteRead(s))
       /\ WF_vars(WriteToStorage(s) \/ NotifyClient(s) \/ EndBatch(s))

FairSpec == Spec /\ Fairness

-----------------------------------------------------------------------------
Txs == [id : -1 .. MaxTxId, type : {"ERROR", "WRITE_ONLY", "READ_ONLY"},
        key : Keys \cup {-1}, value : Values,
        assigned_epoch_id : Nat \cup {-1}, complete_flag : {0, 1}]

Batches == [epoch_id : Nat, tx_set : Seq(WriteTxs)]

TypeOK ==
  /\ thread_pc \in [Clients -> {"receive", "request_write", "wait_flag"}]
  /\ tx \in [Clients -> Txs]
  /\ wait_for_exe \in [Clients -> BOOLEAN]
  /\ addNet \subseteq WriteTxs
  /\ ackAddNet \subseteq [client : Clients, id : TxIds]
  /\ recieved_tx_id \in [Clients -> -1 .. MaxTxId]
  /\ adding \in [Clients -> Seq(WriteTxs)]
  /\ \A c \in Clients : Len(adding[c]) <= 1
  /\ batch \in Seq(WriteTxs) /\ Len(batch) <= MAX_BATCH_SIZE
  /\ rev_batch \in Seq(Batches) /\ Len(rev_batch) <= 1
  /\ determined \in Seq(Batches)
  /\ handed \in [Slaves -> Seq(Batches)]
  /\ exec \in [Slaves -> [epoch : Nat, pos : Nat, next : {"write", "notify"}]]
  /\ read_tx_buffer \in [Slaves -> Seq(Clients)]
  /\ storage \in [Slaves -> [Keys -> Values]]
  /\ reported \in Nat \cup {-1} /\ reported < Len(determined)
  /\ floor \in [Clients -> Nat \cup {-1}]

(* Where a transaction may be: its batch, the collecting one last, and its *)
(* position in it.                                                         *)
LastBatch == Len(determined) + Len(rev_batch) + 1

TxsAt(i) ==
  IF i <= Len(determined) THEN determined[i].tx_set
  ELSE IF i < LastBatch THEN rev_batch[1].tx_set ELSE batch

AllPlaces ==
  {p \in (1 .. LastBatch) \X (1 .. MAX_BATCH_SIZE) : p[2] <= Len(TxsAt(p[1]))}

TxAt(p) == TxsAt(p[1])[p[2]]

(* Where transaction id of client c is.                                    *)
Places(c, id) == {p \in AllPlaces : TxAt(p).client = c /\ TxAt(p).id = id}

Pending(c, id) == adding[c] # <<>> /\ adding[c][1].id = id

(* Slave s has executed what is at place p.                                *)
Executed(s, p) ==
  \/ p[1] <= exec[s].epoch
  \/ p[1] = exec[s].epoch + 1 /\ p[2] <= exec[s].pos

(* The slave of client c has executed its transaction id.                  *)
Done(c, id) == \E p \in Places(c, id) : Executed(Home[c], p)

-----------------------------------------------------------------------------
(* The batches closed and handed over, and how far the schedulers are.     *)
OrderInv ==
  /\ rev_batch # <<>> => rev_batch[1].epoch_id = Len(determined)
  /\ \A i \in 1 .. LastBatch : Len(TxsAt(i)) <= MAX_BATCH_SIZE
  /\ \A s \in Slaves :
       /\ Len(handed[s]) <= Len(determined)
       /\ \A i \in 1 .. Len(handed[s]) : handed[s][i] = determined[i]
       /\ exec[s].epoch <= Len(handed[s])
       /\ ~HasBatch(s) => exec[s].pos = 0
       /\ HasBatch(s) => exec[s].pos <= Len(CurrentBatch(s).tx_set)
       /\ exec[s].next = "notify" => HasTx(s)

(* A thread and its Tx: the flag stays up from the answer to the next      *)
(* request, and the Tx of a write is registered.                           *)
ThreadInv ==
  \A c \in Clients :
    /\ thread_pc[c] = "receive" => tx[c].complete_flag = 1 \/ tx[c].id = -1
    /\ thread_pc[c] = "request_write" => tx[c].type = "WRITE_ONLY"
    /\ tx[c].type # "ERROR" => tx[c].id >= 0 /\ tx[c].key \in Keys
    /\ tx[c].type = "WRITE_ONLY" => wait_for_exe[c]
    /\ tx[c].type = "READ_ONLY" => tx[c].assigned_epoch_id = -1
    /\ thread_pc[c] = "receive" \/ tx[c].type # "ERROR"

(* Who waits for the read scheduler: a client of its slave, once, and not  *)
(* answered.                                                               *)
ReadInv ==
  \A s \in Slaves : \A i \in 1 .. Len(read_tx_buffer[s]) :
    LET c == read_tx_buffer[s][i]
    IN  /\ Home[c] = s /\ thread_pc[c] = "wait_flag"
        /\ tx[c].type = "READ_ONLY" /\ tx[c].complete_flag = 0
        /\ \A j \in 1 .. Len(read_tx_buffer[s]) :
             read_tx_buffer[s][j] = c => j = i

(* What is true of a write transaction wherever it is, on its way to the   *)
(* master, waiting there or in a batch: it is the one its client's thread  *)
(* is at, or it is done.                                                   *)
IsKnown(x) ==
  LET c == x.client
  IN  /\ x.id <= tx[c].id
      /\ x.id = tx[c].id => tx[c].type = "WRITE_ONLY" /\ x = WriteTx(c)
      /\ x.id < tx[c].id \/ tx[c].complete_flag = 1 => Done(c, x.id)

KnownInv ==
  /\ \A x \in addNet : IsKnown(x)
  /\ \A c \in Clients : adding[c] # <<>> => IsKnown(adding[c][1])
  /\ \A p \in AllPlaces : IsKnown(TxAt(p))

(* What the master has taken: the ids of a client only go up, so that none *)
(* is at two places.                                                       *)
MasterInv ==
  /\ \A c \in Clients :
       /\ recieved_tx_id[c] <= tx[c].id
       /\ adding[c] # <<>> => /\ adding[c][1].client = c
                              /\ adding[c][1].id = recieved_tx_id[c]
                              /\ Places(c, recieved_tx_id[c]) = {}
       /\ recieved_tx_id[c] >= 0 =>
            Pending(c, recieved_tx_id[c]) \/ Places(c, recieved_tx_id[c]) # {}
  /\ \A p \in AllPlaces : TxAt(p).id <= recieved_tx_id[TxAt(p).client]
  /\ \A p, q \in AllPlaces :
       TxAt(p).client = TxAt(q).client /\ TxAt(p).id = TxAt(q).id => p = q
  /\ \A a \in ackAddNet : Pending(a.client, a.id) \/ Places(a.client, a.id) # {}

(* The epochs told to clients so far, and those of the writes asked for    *)
(* after.                                                                  *)
FloorInv ==
  \A c \in Clients :
    /\ floor[c] <= reported
    /\ tx[c].type = "WRITE_ONLY" =>
         \A p \in Places(c, tx[c].id) : p[1] > floor[c] + 1

(* The write that slave s has made and not yet notified counts, too.       *)
WrittenPlaces(s, k) ==
  {p \in AllPlaces :
     /\ TxAt(p).key = k
     /\ \/ Executed(s, p)
        \/ exec[s].next = "notify" /\ p = <<exec[s].epoch + 1, exec[s].pos + 1>>}

(* A record counts the writes made to it, as far as a short can: from      *)
(* HALF - 1 the count goes on at -HALF.                                    *)
StorageInv ==
  \A s \in Slaves, k \in Keys :
    storage[s][k] = Short(Cardinality(WrittenPlaces(s, k)))

-----------------------------------------------------------------------------
(* However often ADD_TO_BATCH is sent and delivered, the transaction gets  *)
(* into one batch only, or is executed once; and once it is acknowledged,  *)
(* which the master does before it adds it, it is not lost.                *)
ExactlyOnce ==
  \A c \in Clients, id \in TxIds :
    /\ Cardinality(Places(c, id)) <= 1
    /\ Pending(c, id) => Places(c, id) = {}
    /\ [client |-> c, id |-> id] \in ackAddNet =>
         Pending(c, id) \/ Places(c, id) # {}

(* While no more clients write than a batch holds, no receiving thread     *)
(* ever spins on a full batch: what fills a batch are the outstanding      *)
(* writes, of which each client has one (master_sequencer.c:67-83).        *)
BatchHasRoom ==
  Cardinality(Clients) <= MAX_BATCH_SIZE =>
    \A c \in Clients : adding[c] # <<>> => Len(batch) < MAX_BATCH_SIZE

(* The write scheduler raises the flag of whatever Tx the thread of the    *)
(* client uses, without comparing ids.  It is always the very transaction  *)
(* that was executed: registered, and not yet answered.                    *)
NotifiesItsOwnTx ==
  \A s \in Slaves :
    HasTx(s) /\ exec[s].next = "notify" =>
      LET c == CurrentTx(s).client
      IN  Home[c] = s => /\ wait_for_exe[c]
                         /\ thread_pc[c] # "receive"
                         /\ tx[c].complete_flag = 0
                         /\ CurrentTx(s) = WriteTx(c)

(* What a client is told of a write is true: the write is in the batch     *)
(* that was determined in the epoch it is told, and its slave has          *)
(* executed it.                                                            *)
AnsweredWriteIsDone ==
  \A c \in Clients :
    tx[c].type = "WRITE_ONLY" /\ tx[c].complete_flag = 1 =>
      \E p \in Places(c, tx[c].id) :
        /\ p[1] <= Len(determined)
        /\ p[1] = tx[c].assigned_epoch_id + 1
        /\ Executed(Home[c], p)

(* A client reads its own writes: the value of a read is the count, in a   *)
(* short, of some number of writes its slave has made to that record, and  *)
(* that number is at least the number of writes to it that were answered   *)
(* to the client before.  (Up to HALF - 1 writes the value is the number.) *)
OwnWrites(c) ==
  {id \in 0 .. tx[c].id - 1 :
     \E p \in Places(c, id) : TxAt(p).key = tx[c].key}

CountsToRead(c) ==
  Cardinality(OwnWrites(c)) .. Cardinality(WrittenPlaces(Home[c], tx[c].key))

ReadsOwnWrites ==
  \A c \in Clients :
    tx[c].type = "READ_ONLY" /\ tx[c].complete_flag = 1 =>
      \E n \in CountsToRead(c) : tx[c].value = Short(n)

(* Writes keep real-time order across the slaves: a write is executed in a *)
(* later epoch than every write any client was answered before this one    *)
(* was asked for.                                                          *)
RealTimeOrder ==
  \A c \in Clients :
    tx[c].type = "WRITE_ONLY" /\ tx[c].complete_flag = 1 =>
      tx[c].assigned_epoch_id > floor[c]

(* Slaves that have executed the same batches have the same storage.       *)
Convergence ==
  \A s, t \in Slaves : exec[s] = exec[t] => storage[s] = storage[t]

(* What is true in every state, and makes the properties above hold; it is *)
(* inductive without BatchHasRoom, which follows from it.                  *)
IInv ==
  /\ TypeOK /\ OrderInv /\ ThreadInv /\ ReadInv /\ KnownInv /\ MasterInv
  /\ FloorInv /\ StorageInv /\ AnsweredWriteIsDone /\ ReadsOwnWrites

TxInv == IInv /\ BatchHasRoom

(* Every request is answered, though any ADD_TO_BATCH or ACK may be lost.  *)
EveryRequestAnswered ==
  \A c \in Clients : thread_pc[c] # "receive" ~> thread_pc[c] = "receive"

(* Between the epoch thread and the schedulers the batches take the way    *)
(* BatchOrder says, with the transactions that were added as contents.     *)
UsesBatchOrder == BO!Spec
=============================================================================
