---------------------------- MODULE BatchLogFile ----------------------------
(***************************************************************************)
(* The file of determined batches (log.c) and its users: the epoch thread  *)
(* of the master appends, the sender threads of the master read and send   *)
(* what they read; the sequencer of a slave appends what it receives and   *)
(* reads it again for its peers.                                           *)
(*                                                                         *)
(* A record has RecordSize cells: a header with the length of the message, *)
(* the message, and a rest that was never set.  The record of epoch e      *)
(* begins at cell RecordSize * e.  read(2) and write(2) may transfer fewer *)
(* cells than asked for, so read_all and write_all repeat them.  What is   *)
(* sent is the whole buffer of RecordSize cells, in which cells of an      *)
(* earlier message follow a shorter one; and so the length that a slave    *)
(* writes in its header is always RecordSize.                              *)
(***************************************************************************)
EXTENDS Integers, Sequences, FiniteSetsExt

CONSTANTS
  Slaves,      \* the slaves, each with its own file
  Senders,     \* the slaves that have a sender thread on the master
  Helpers,     \* the slaves that are asked for batches by peers
  Master,
  NULL,
  RecordSize,  \* BATCH_LOG_SIZE
  Sizes,       \* the lengths of the messages of batches
  MaxEpoch     \* bound: the last epoch that is closed

ASSUME ReplicasAssumption ==
  Master \notin Slaves /\ Senders \cup Helpers \subseteq Slaves
ASSUME SizesAssumption ==
  /\ RecordSize \in Nat
  /\ Sizes \subseteq {n \in Nat : 1 <= n /\ n + 1 <= RecordSize}
ASSUME MaxEpochAssumption == MaxEpoch \in Nat

Replicas == {Master} \cup Slaves

(* The threads that use a log, and whose it is. *)
EpochThread == <<"epoch", Master>>
SenderThread(s) == <<"sender", s>>
Sequencer(s) == <<"sequencer", s>>
Threads == {EpochThread} \cup {SenderThread(s) : s \in Senders}
             \cup {Sequencer(s) : s \in Slaves}
OwnerOf(t) == IF t[1] = "sequencer" THEN t[2] ELSE Master

VARIABLES
  file,        \* file[r]: the cells of the log file of replica r
  mutex,       \* mutex[r]: the thread that holds the mutex of the log, or NULL
  op,          \* what each thread does with the log
  batch_msg,   \* batch_msg[t]: the buffer that t reads into and sends
  determined_epoch_id,
  next_batch_epoch_id,  \* of each slave
  next_epoch_id,        \* of each sender thread: the first it may yet read
  net          \* the batch messages sent

epoch_ids == <<determined_epoch_id, next_batch_epoch_id, next_epoch_id>>
fileVars == <<file, mutex, op, batch_msg, epoch_ids, net>>
-----------------------------------------------------------------------------
(* Cells *)
Unset == <<"unset">>     \* whatever was there
Hole == <<"hole">>       \* skipped by lseek
Ack == <<"ack">>         \* the beginning of an ACK
Length(n) == <<"length", n>>
MsgCell(b, k) == <<"batch", b.epoch_id, b.size, k>>
FileCells ==
  {Unset, Hole, Ack} \cup {Length(n) : n \in Sizes \cup {RecordSize}}
    \cup {<<"batch", e, n, k>> : e \in 0 .. MaxEpoch, n \in Sizes,
                                 k \in 1 .. RecordSize}
Buffers == [1 .. RecordSize -> FileCells]
EmptyBuffer == [k \in 1 .. RecordSize |-> Unset]

(* create_batch_msg: the length is determined by the batch; what follows in *)
(* the buffer is never looked at.                                          *)
BatchMsg(b) ==
  [k \in 1 .. RecordSize |-> IF k <= b.size THEN MsgCell(b, k) ELSE Unset]

(* get_info_from_batch_msg reads as many cells as the first ones say. *)
Corrupt == [epoch_id |-> -1, size |-> 0]
DecodeBatch(msg) ==
  IF msg[1][1] # "batch" THEN Corrupt
  ELSE LET b == [epoch_id |-> msg[1][2], size |-> msg[1][3]]
       IN IF \A k \in 1 .. b.size : msg[k] = MsgCell(b, k) THEN b ELSE Corrupt

(* The bytes append_log writes: as much of the message as the record holds. *)
Record(msg, len) ==
  [k \in 1 .. RecordSize |->
     IF k = 1 THEN Length(len)
     ELSE IF k - 1 <= len THEN msg[k - 1] ELSE Unset]

(* What read_log copies to its caller: the cells after the header, as many  *)
(* as it says; beyond the record they are not set, and after them msg keeps *)
(* what it had.                                                            *)
Contents(bytes, msg) ==
  LET len == bytes[1][2]
  IN [k \in 1 .. RecordSize |->
        IF k > len THEN msg[k]
        ELSE IF k < RecordSize THEN bytes[k + 1] ELSE Unset]

(* Mutant: the offset counts the messages and not their headers. *)
OffsetOfData(e) == (RecordSize - 1) * e

Offset(e) == RecordSize * e

(* The file after cells first .. last of a buffer were written to their    *)
(* place in the record at offset off.                                      *)
Written(f, off, bytes, first, last) ==
  [i \in 1 .. Max({Len(f), off + last}) |->
     IF i \in off + first .. off + last THEN bytes[i - off]
     ELSE IF i <= Len(f) THEN f[i] ELSE Hole]
-----------------------------------------------------------------------------
Idle == [kind |-> "idle", epoch |-> 0, bytes |-> EmptyBuffer, done |-> 0]
Appending(e, msg, len) ==
  [kind |-> "append", epoch |-> e, bytes |-> Record(msg, len), done |-> 0]
Reading(e) == [kind |-> "read", epoch |-> e, bytes |-> EmptyBuffer, done |-> 0]

FileInit ==
  /\ file = [r \in Replicas |-> <<>>]
  /\ mutex = [r \in Replicas |-> NULL]
  /\ op = [t \in Threads |-> Idle]
  /\ batch_msg = [t \in Threads |-> EmptyBuffer]
  /\ determined_epoch_id = -1
  /\ next_batch_epoch_id = [s \in Slaves |-> 0]
  /\ next_epoch_id = [s \in Senders |-> 0]
  /\ net = {}

(* The epoch thread closes a batch and calls append_log. *)
CloseBatch ==
  /\ op[EpochThread] = Idle /\ determined_epoch_id < MaxEpoch
  /\ \E n \in Sizes :
       LET b == [epoch_id |-> determined_epoch_id + 1, size |-> n]
       IN op' = [op EXCEPT ![EpochThread] =
                   Appending(b.epoch_id, BatchMsg(b), n)]
  /\ UNCHANGED <<file, mutex, batch_msg, epoch_ids, net>>

(* append_log and read_log: lock, open and lseek; then as many calls of     *)
(* write(2) or read(2) as it takes; then close and unlock.                 *)
Open(t) ==
  /\ op[t].kind \in {"append", "read"} /\ op[t].done = 0
  /\ mutex[OwnerOf(t)] = NULL
  /\ mutex' = [mutex EXCEPT ![OwnerOf(t)] = t]
  /\ UNCHANGED <<file, op, batch_msg, epoch_ids, net>>

IsOpen(t) == mutex[OwnerOf(t)] = t

WriteSome(t) ==
  /\ op[t].kind = "append" /\ IsOpen(t)
  /\ \E n \in 1 .. RecordSize - op[t].done :
       /\ file' = [file EXCEPT ![OwnerOf(t)] =
                     Written(@, Offset(op[t].epoch), op[t].bytes,
                             op[t].done + 1, op[t].done + n)]
       /\ op' = [op EXCEPT ![t].done = @ + n]
  /\ UNCHANGED <<mutex, batch_msg, epoch_ids, net>>

EndAppend(t) ==
  /\ op[t].kind = "append" /\ IsOpen(t) /\ op[t].done = RecordSize
  /\ mutex' = [mutex EXCEPT ![OwnerOf(t)] = NULL]
  /\ op' = [op EXCEPT ![t].kind = "logged"]
  /\ UNCHANGED <<file, batch_msg, epoch_ids, net>>

(* The cells from the place reached so far to the end of the file.  At the  *)
(* end read(2) returns 0 and read_all tries again for ever, with the mutex. *)
Available(t) == Len(file[OwnerOf(t)]) - (Offset(op[t].epoch) + op[t].done)

ReadSome(t) ==
  /\ op[t].kind = "read" /\ IsOpen(t)
  /\ \E n \in 1 .. RecordSize - op[t].done :
       /\ n <= Available(t)
       /\ op' = [op EXCEPT
                   ![t].done = @ + n,
                   ![t].bytes = [k \in 1 .. RecordSize |->
                     IF k \in op[t].done + 1 .. op[t].done + n
                     THEN file[OwnerOf(t)][Offset(op[t].epoch) + k] ELSE @[k]]]
  /\ UNCHANGED <<file, mutex, batch_msg, epoch_ids, net>>

EndRead(t) ==
  /\ op[t].kind = "read" /\ IsOpen(t) /\ op[t].done = RecordSize
  /\ mutex' = [mutex EXCEPT ![OwnerOf(t)] = NULL]
  /\ batch_msg' = [batch_msg EXCEPT ![t] = Contents(op[t].bytes, @)]
  /\ op' = [op EXCEPT ![t].kind = "send"]
  /\ UNCHANGED <<file, epoch_ids, net>>
-----------------------------------------------------------------------------
(* Mutant: the batch is determined while it is still written. *)
DetermineEarly ==
  /\ op[EpochThread].kind = "append"
  /\ determined_epoch_id < op[EpochThread].epoch
  /\ determined_epoch_id' = determined_epoch_id + 1
  /\ UNCHANGED <<op, file, mutex, batch_msg, next_batch_epoch_id, next_epoch_id,
                 net>>

Determine ==
  /\ op[EpochThread].kind = "logged"
  /\ determined_epoch_id' = determined_epoch_id + 1
  /\ op' = [op EXCEPT ![EpochThread] = Idle]
  /\ UNCHANGED <<file, mutex, batch_msg, next_batch_epoch_id, next_epoch_id,
                 net>>

(* A sender thread reads each determined epoch once, or skips it when the   *)
(* slave acknowledged a later one.                                         *)
ReadToSend(s) ==
  /\ op[SenderThread(s)] = Idle
  /\ \E e \in next_epoch_id[s] .. determined_epoch_id :
       /\ op' = [op EXCEPT ![SenderThread(s)] = Reading(e)]
       /\ next_epoch_id' = [next_epoch_id EXCEPT ![s] = e + 1]
  /\ UNCHANGED <<file, mutex, batch_msg, determined_epoch_id, next_batch_epoch_id,
                 net>>

(* A slave receives the batch it expects and appends the datagram, which is *)
(* RecordSize cells long.                                                  *)
ReceiveBatch(s) ==
  /\ op[Sequencer(s)] = Idle
  /\ \E m \in net :
       /\ m.to = s /\ m.msg[1][1] = "batch"
       /\ m.msg[1][2] = next_batch_epoch_id[s]
       /\ op' = [op EXCEPT ![Sequencer(s)] =
                   Appending(m.msg[1][2], m.msg, RecordSize)]
  /\ next_batch_epoch_id' = [next_batch_epoch_id EXCEPT ![s] = @ + 1]
  /\ UNCHANGED <<file, mutex, batch_msg, determined_epoch_id, next_epoch_id,
                 net>>

(* It acknowledges from the same buffer it sends batches from. *)
Acknowledge(s) ==
  /\ op[Sequencer(s)].kind = "logged"
  /\ batch_msg' = [batch_msg EXCEPT ![Sequencer(s)][1] = Ack]
  /\ op' = [op EXCEPT ![Sequencer(s)] = Idle]
  /\ UNCHANGED <<file, mutex, epoch_ids, net>>

(* A peer requests a batch that s has. *)
ReadForPeer(s) ==
  /\ s \in Helpers /\ op[Sequencer(s)] = Idle
  /\ \E e \in 0 .. next_batch_epoch_id[s] - 1 :
       op' = [op EXCEPT ![Sequencer(s)] = Reading(e)]
  /\ UNCHANGED <<file, mutex, batch_msg, epoch_ids, net>>

SendFromLog(t, s) ==
  /\ op[t].kind = "send"
  /\ net' = net \cup {[from |-> OwnerOf(t), to |-> s, msg |-> batch_msg[t]]}
  /\ op' = [op EXCEPT ![t] = Idle]
  /\ UNCHANGED <<file, mutex, batch_msg, epoch_ids>>

LogStep(t) == WriteSome(t) \/ EndAppend(t) \/ ReadSome(t) \/ EndRead(t)
SendStep(s) ==
  \/ s \in Senders /\ SendFromLog(SenderThread(s), s)
  \/ \E p \in Slaves \ {s} : SendFromLog(Sequencer(s), p)

FileNext ==
  \/ CloseBatch \/ Determine
  \/ \E t \in Threads : Open(t) \/ LogStep(t)
  \/ \E s \in Senders : ReadToSend(s)
  \/ \E s \in Slaves :
       ReceiveBatch(s) \/ Acknowledge(s) \/ ReadForPeer(s) \/ SendStep(s)

FileSpec == FileInit /\ [][FileNext]_fileVars
-----------------------------------------------------------------------------
FileTypeOK ==
  /\ file \in [Replicas -> Seq(FileCells)]
  /\ mutex \in [Replicas -> Threads \cup {NULL}]
  /\ op \in [Threads -> [kind : {"idle", "append", "logged", "read", "send"},
                         epoch : 0 .. MaxEpoch, bytes : Buffers,
                         done : 0 .. RecordSize]]
  /\ batch_msg \in [Threads -> Buffers]
  /\ determined_epoch_id \in -1 .. MaxEpoch
  /\ next_batch_epoch_id \in [Slaves -> 0 .. MaxEpoch + 1]
  /\ next_epoch_id \in [Senders -> 0 .. MaxEpoch + 1]
  /\ \A m \in net : m.from \in Replicas /\ m.to \in Slaves /\ m.msg \in Buffers

(* A message, and a record, that batch b can be read from: all cells of b   *)
(* are in their places, and what follows them does not matter.             *)
Carries(msg, b) ==
  b.size \in Sizes /\ \A k \in 1 .. b.size : msg[k] = MsgCell(b, k)
Holds(bytes, b) ==
  /\ b.size \in Sizes /\ bytes[1][2] \in Nat /\ b.size <= bytes[1][2]
  /\ \A k \in 1 .. b.size : bytes[k + 1] = MsgCell(b, k)

(* The records that count: those the master has determined, and those a    *)
(* slave has appended.                                                     *)
Records(r) ==
  IF r = Master THEN determined_epoch_id + 1
  ELSE next_batch_epoch_id[r]
         - IF op[Sequencer(r)].kind = "append" THEN 1 ELSE 0
Bytes(f, e) == [k \in 1 .. RecordSize |-> f[Offset(e) + k]]
BatchIn(f, e) == [epoch_id |-> e, size |-> f[Offset(e) + 2][3]]
Batch(e) == BatchIn(file[Master], e)

(* The threads do what they are there for, each on the log it may use.     *)
KindInv ==
  /\ op[EpochThread].kind \in {"idle", "append", "logged"}
  /\ \A s \in Senders : op[SenderThread(s)].kind \in {"idle", "read", "send"}
  /\ \A t \in Threads : op[t].kind = "idle" => op[t] = Idle

(* The file of a replica has its records and, while its writer appends,    *)
(* what was written of the next; every record holds the master's batch of  *)
(* its epoch.                                                              *)
AppendInv(t, r) ==
  op[t].kind = "append" =>
    /\ op[t].epoch = Records(r)
    /\ Len(file[r]) = Offset(op[t].epoch) + op[t].done
    /\ \A k \in 1 .. op[t].done :
         file[r][Offset(op[t].epoch) + k] = op[t].bytes[k]
MasterInv ==
  /\ AppendInv(EpochThread, Master)
  /\ op[EpochThread].kind = "append" =>
       \E n \in Sizes : Holds(op[EpochThread].bytes,
                             [epoch_id |-> Records(Master), size |-> n])
  /\ op[EpochThread].kind = "logged" =>
       /\ op[EpochThread].epoch = Records(Master)
       /\ Len(file[Master]) = Offset(Records(Master) + 1)
       /\ \E n \in Sizes : Holds(Bytes(file[Master], Records(Master)),
                                [epoch_id |-> Records(Master), size |-> n])
  /\ op[EpochThread].kind = "idle" =>
       Len(file[Master]) = Offset(Records(Master))
SlaveInv ==
  \A s \in Slaves :
    /\ next_batch_epoch_id[s] <= determined_epoch_id + 1
    /\ AppendInv(Sequencer(s), s)
    /\ op[Sequencer(s)].kind = "append" =>
         Holds(op[Sequencer(s)].bytes, Batch(op[Sequencer(s)].epoch))
    /\ op[Sequencer(s)].kind # "append" => Len(file[s]) = Offset(Records(s))
RecordInv ==
  \A r \in Replicas :
    \A e \in 0 .. Records(r) - 1 : Holds(Bytes(file[r], e), Batch(e))

(* What a thread has read so far is the record, what it will send carries  *)
(* the batch, and so does every message on its way.                        *)
ReadInv ==
  \A t \in Threads :
    /\ op[t].kind \in {"read", "send"} => op[t].epoch < Records(OwnerOf(t))
    /\ op[t].kind = "read" =>
         \A k \in 1 .. op[t].done :
           op[t].bytes[k] = Bytes(file[OwnerOf(t)], op[t].epoch)[k]
    /\ op[t].kind = "send" => Carries(batch_msg[t], Batch(op[t].epoch))
NetInv ==
  \A m \in net :
    \E e \in 0 .. Records(m.from) - 1 : Carries(m.msg, Batch(e))

(* What holds in every state and is inductive.                             *)
IInv ==
  /\ FileTypeOK /\ KindInv /\ MasterInv /\ SlaveInv /\ RecordInv /\ ReadInv
  /\ NetInv

(* read_all never comes to the end of the file, where it would read nothing *)
(* again and again and keep everybody from the log (log.c:123-131).         *)
NeverAtEnd ==
  \A t \in Threads :
    op[t].kind = "read" => Available(t) >= RecordSize - op[t].done

(* The file holds whole records, each the master's batch of its epoch; what *)
(* is read of it is complete, and a message carries a batch of the log;    *)
(* nobody waits at the end of the file with the mutex that the writer      *)
(* needs (log.c:54-67, 97-131).                                            *)
FileInv == IInv /\ NeverAtEnd

(* The logs are the sequence of determined batches, and each message sent   *)
(* from a log is decoded to a batch of it: whichever way it took, with      *)
(* whatever an earlier message left in the buffer, in however many parts it *)
(* was written and read, and while others append.  A record counts when     *)
(* append_log has returned, the master's when it is determined.             *)
RecordAt(r, e) == DecodeBatch(Contents(Bytes(file[r], e), EmptyBuffer))
logged == [r \in Replicas |-> [i \in 1 .. Records(r) |-> RecordAt(r, i - 1)]]
fromLog ==
  [r \in Replicas |-> {DecodeBatch(m.msg) : m \in {x \in net : x.from = r}}]
Log == INSTANCE BatchLog WITH log <- logged, sent <- fromLog
ImplementsBatchLog == Log!Spec
=============================================================================
