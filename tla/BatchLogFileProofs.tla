------------------------- MODULE BatchLogFileProofs -------------------------
(***************************************************************************)
(* The file of determined batches, proved for any replicas, sizes and      *)
(* length of a record.  Each file has one writer, which only appends, and  *)
(* a thread reads only records that are complete; so what counts as a      *)
(* record stays as it is, however writes and reads are cut in parts.       *)
(***************************************************************************)
EXTENDS BatchLogFile, TLAPS

(* The cell at which a record begins.                                      *)
LEMMA OffsetFacts ==
  ASSUME NEW e \in Nat
  PROVE  Offset(e) \in Nat /\ Offset(e + 1) = Offset(e) + RecordSize
BY SizesAssumption DEF Offset

LEMMA OffsetMonotone ==
  ASSUME NEW e \in Nat, NEW f \in Nat, e < f
  PROVE  Offset(e) + RecordSize <= Offset(f)
BY SizesAssumption DEF Offset

LEMMA MaxOfTwo ==
  ASSUME NEW a \in Nat, NEW b \in Nat, a <= b
  PROVE  Max({a, b}) = b
BY DEF Max

(* What is written at the end of the file is appended to it.               *)
Appends(g, f, off, bytes, done, n) ==
  /\ g \in Seq(FileCells) /\ Len(g) = off + (done + n)
  /\ \A i \in 1 .. Len(f) : g[i] = f[i]
  /\ \A k \in done + 1 .. done + n : g[off + k] = bytes[k]

LEMMA WrittenAppends ==
  ASSUME NEW f \in Seq(FileCells), NEW off \in Nat, NEW bytes \in Buffers,
         NEW done \in Nat, NEW n \in Nat, n > 0, done + n <= RecordSize,
         Len(f) = off + done
  PROVE  Appends(Written(f, off, bytes, done + 1, done + n),
                 f, off, bytes, done, n)
<1> DEFINE g == Written(f, off, bytes, done + 1, done + n)
           last == off + (done + n)
<1>1. last \in Nat /\ Max({Len(f), last}) = last
  BY MaxOfTwo
<1>2. g = [i \in 1 .. last |->
             IF i \in off + (done + 1) .. off + (done + n) THEN bytes[i - off]
             ELSE IF i <= Len(f) THEN f[i] ELSE Hole]
  BY <1>1 DEF Written
<1>3. \A i \in off + (done + 1) .. off + (done + n) :
        i - off \in done + 1 .. done + n /\ bytes[i - off] \in FileCells
  BY SizesAssumption DEF Buffers
<1>4. \A i \in 1 .. last :
        i \in off + (done + 1) .. off + (done + n) \/ i \in 1 .. Len(f)
  OBVIOUS
<1>5. \A i \in 1 .. Len(f) : f[i] \in FileCells
  OBVIOUS
<1> HIDE DEF g
<1>6. g \in [1 .. last -> FileCells]
  <2> SUFFICES ASSUME NEW i \in 1 .. last
               PROVE  (IF i \in off + (done + 1) .. off + (done + n)
                       THEN bytes[i - off]
                       ELSE IF i <= Len(f) THEN f[i] ELSE Hole) \in FileCells
    BY <1>2
  <2>1. CASE i \in off + (done + 1) .. off + (done + n)
    BY <1>3, <2>1
  <2>2. CASE i \notin off + (done + 1) .. off + (done + n)
    <3>1. i \in 1 .. Len(f) /\ i <= Len(f)
      BY <1>4, <2>2
    <3> QED BY <1>5, <2>2, <3>1
  <2> QED BY <2>1, <2>2
<1>7. g \in Seq(FileCells) /\ Len(g) = last
  BY <1>1, <1>6
<1>8. \A i \in 1 .. Len(f) : g[i] = f[i]
  BY <1>1, <1>2
<1>9. \A k \in done + 1 .. done + n : g[off + k] = bytes[k]
  BY <1>1, <1>2
<1> QED BY <1>7, <1>8, <1>9 DEF g, Appends
-----------------------------------------------------------------------------
(* The threads are different from each other.                              *)
LEMMA ThreadFacts ==
  /\ EpochThread \in Threads /\ OwnerOf(EpochThread) = Master
  /\ Master \in Replicas
  /\ \A s \in Senders :
       /\ SenderThread(s) \in Threads /\ OwnerOf(SenderThread(s)) = Master
       /\ SenderThread(s) # EpochThread
  /\ \A s \in Slaves :
       /\ Sequencer(s) \in Threads /\ OwnerOf(Sequencer(s)) = s
       /\ s # Master /\ s \in Replicas /\ Sequencer(s) # EpochThread
       /\ \A r \in Senders : Sequencer(s) # SenderThread(r)
       /\ \A r \in Slaves : Sequencer(s) = Sequencer(r) => s = r
  /\ \A r, s \in Senders : SenderThread(s) = SenderThread(r) => s = r
  /\ \A t \in Threads :
       /\ OwnerOf(t) \in Replicas
       /\ \/ t = EpochThread
          \/ \E s \in Senders : t = SenderThread(s)
          \/ \E s \in Slaves : t = Sequencer(s)
BY ReplicasAssumption
   DEF Threads, EpochThread, SenderThread, Sequencer, OwnerOf, Replicas
-----------------------------------------------------------------------------
BatchOf(e, n) == [epoch_id |-> e, size |-> n]

(* The buffers hold cells.                                                 *)
LEMMA EmptyBufferType == EmptyBuffer \in Buffers
BY DEF EmptyBuffer, Buffers, FileCells

LEMMA SameBuffers ==
  ASSUME NEW a \in Buffers, NEW b \in Buffers,
         \A k \in 1 .. RecordSize : a[k] = b[k]
  PROVE  a = b
<1>1. /\ a = [k \in 1 .. RecordSize |-> a[k]]
      /\ b = [k \in 1 .. RecordSize |-> b[k]]
  BY DEF Buffers
<1> QED BY <1>1, Zenon

LEMMA BatchMsgType ==
  ASSUME NEW e \in 0 .. MaxEpoch, NEW n \in Sizes
  PROVE  BatchMsg(BatchOf(e, n)) \in Buffers
<1>1. \A k \in 1 .. RecordSize : MsgCell(BatchOf(e, n), k) \in FileCells
  BY DEF MsgCell, BatchOf, FileCells
<1>2. Unset \in FileCells
  BY DEF FileCells
<1> QED BY <1>1, <1>2 DEF BatchMsg, Buffers

LEMMA RecordType ==
  ASSUME NEW msg \in Buffers, NEW len \in Sizes \cup {RecordSize}
  PROVE  Record(msg, len) \in Buffers
<1>1. Unset \in FileCells /\ Length(len) \in FileCells
  BY DEF FileCells
<1>2. \A k \in 1 .. RecordSize : k # 1 => msg[k - 1] \in FileCells
  BY SizesAssumption DEF Buffers
<1> QED BY <1>1, <1>2 DEF Record, Buffers

LEMMA ContentsType ==
  ASSUME NEW bytes \in Buffers, NEW msg \in Buffers
  PROVE  Contents(bytes, msg) \in Buffers
<1>1. Unset \in FileCells
  BY DEF FileCells
<1>2. \A k \in 1 .. RecordSize : k < RecordSize => bytes[k + 1] \in FileCells
  BY SizesAssumption DEF Buffers
<1> QED BY <1>1, <1>2 DEF Contents, Buffers

(* A message is decoded to the batch that it carries.                      *)
LEMMA CarriesDecoded ==
  ASSUME NEW msg, NEW e, NEW n, Carries(msg, BatchOf(e, n))
  PROVE  DecodeBatch(msg) = BatchOf(e, n)
<1>1. msg[1] = <<"batch", e, n, 1>>
  BY SizesAssumption DEF Carries, BatchOf, MsgCell
<1>2. msg[1][1] = "batch" /\ msg[1][2] = e /\ msg[1][3] = n
  BY <1>1
<1> QED BY <1>2 DEF DecodeBatch, Carries, BatchOf

(* A message carries the batch it was made of.                             *)
LEMMA BatchMsgCarries ==
  ASSUME NEW e, NEW n \in Sizes
  PROVE  Carries(BatchMsg(BatchOf(e, n)), BatchOf(e, n))
BY SizesAssumption DEF Carries, BatchMsg, BatchOf

(* A record of a message that carries a batch holds it, and what is read   *)
(* of a record that holds a batch carries it.                              *)
LEMMA CarriedIsHeld ==
  ASSUME NEW msg, NEW b, Carries(msg, b), NEW len \in Nat, b.size <= len
  PROVE  Holds(Record(msg, len), b)
<1> b.size \in Nat /\ 1 <= b.size /\ b.size + 1 <= RecordSize
  BY SizesAssumption DEF Carries
<1>1. 1 <= RecordSize
  BY SizesAssumption
<1>2. Record(msg, len)[1] = Length(len)
  BY <1>1, SizesAssumption DEF Record
<1>3. \A k \in 1 .. b.size : Record(msg, len)[k + 1] = msg[k]
  BY <1>1, SizesAssumption DEF Record
<1>4. Record(msg, len)[1][2] = len
  BY <1>2 DEF Length
<1> QED BY <1>3, <1>4 DEF Holds, Carries

LEMMA HeldIsCarried ==
  ASSUME NEW bytes, NEW msg, NEW b, Holds(bytes, b)
  PROVE  Carries(Contents(bytes, msg), b)
<1>1. b.size \in Nat /\ b.size + 1 <= RecordSize
  BY SizesAssumption DEF Holds
<1>2. \A k \in 1 .. b.size : Contents(bytes, msg)[k] = bytes[k + 1]
  BY <1>1, SizesAssumption DEF Holds, Contents
<1> QED BY <1>2 DEF Holds, Carries
-----------------------------------------------------------------------------
(* How many records count: no slave has more than the master, and all of   *)
(* them are on the file.                                                   *)
RecordsFacts ==
  /\ Records(Master) = determined_epoch_id + 1
  /\ \A s \in Slaves :
       Records(s) = IF op[Sequencer(s)].kind = "append"
                    THEN next_batch_epoch_id[s] - 1 ELSE next_batch_epoch_id[s]
  /\ \A r \in Replicas :
       /\ Records(r) \in Nat /\ Records(r) <= Records(Master)
       /\ Offset(Records(r)) \in Nat /\ Offset(Records(r)) <= Len(file[r])

LEMMA RecordsHold == IInv => RecordsFacts
<1> SUFFICES ASSUME IInv
             PROVE  RecordsFacts
  OBVIOUS
<1>1. Records(Master) = determined_epoch_id + 1 /\ Records(Master) \in Nat
  BY DEF IInv, FileTypeOK, Records
<1>2. ASSUME NEW s \in Slaves
      PROVE  /\ Records(s) = IF op[Sequencer(s)].kind = "append"
                             THEN next_batch_epoch_id[s] - 1
                             ELSE next_batch_epoch_id[s]
             /\ Records(s) \in Nat /\ Records(s) <= Records(Master)
             /\ Offset(Records(s)) \in Nat
             /\ Offset(Records(s)) <= Len(file[s])
  <2>1. /\ next_batch_epoch_id[s] \in Nat
        /\ next_batch_epoch_id[s] <= determined_epoch_id + 1
        /\ op[Sequencer(s)].epoch \in Nat /\ op[Sequencer(s)].done \in Nat
    BY ThreadFacts, SizesAssumption DEF IInv, FileTypeOK, SlaveInv
  <2>2. Records(s) = IF op[Sequencer(s)].kind = "append"
                     THEN next_batch_epoch_id[s] - 1
                     ELSE next_batch_epoch_id[s]
    BY <2>1, ThreadFacts DEF Records
  <2>3. CASE op[Sequencer(s)].kind = "append"
    <3>1. /\ op[Sequencer(s)].epoch = Records(s)
          /\ Len(file[s]) = Offset(Records(s)) + op[Sequencer(s)].done
      BY <2>3 DEF IInv, SlaveInv, AppendInv
    <3>2. Records(s) \in Nat
      BY <2>1, <3>1
    <3>3. Offset(Records(s)) \in Nat
      BY <3>2, OffsetFacts
    <3> QED BY <1>1, <2>1, <2>2, <2>3, <3>1, <3>2, <3>3
  <2>4. CASE op[Sequencer(s)].kind # "append"
    <3>1. Len(file[s]) = Offset(Records(s))
      BY <2>4 DEF IInv, SlaveInv
    <3>2. Records(s) \in Nat
      BY <2>1, <2>2, <2>4
    <3>3. Offset(Records(s)) \in Nat
      BY <3>2, OffsetFacts
    <3> QED BY <1>1, <2>1, <2>2, <2>4, <3>1, <3>2, <3>3
  <2> QED BY <2>3, <2>4
<1>3. /\ Offset(Records(Master)) \in Nat
      /\ Offset(Records(Master)) <= Len(file[Master])
  <2>1. Offset(Records(Master)) \in Nat
    BY <1>1, OffsetFacts
  <2>2. op[EpochThread].done \in Nat
    BY ThreadFacts, SizesAssumption DEF IInv, FileTypeOK
  <2>3. CASE op[EpochThread].kind = "append"
    BY <2>1, <2>2, <2>3 DEF IInv, MasterInv, AppendInv
  <2>4. CASE op[EpochThread].kind = "logged"
    <3>1. Len(file[Master]) = Offset(Records(Master) + 1)
      BY <2>4 DEF IInv, MasterInv
    <3>2. Offset(Records(Master) + 1) = Offset(Records(Master)) + RecordSize
      BY <1>1, OffsetFacts
    <3> QED BY <2>1, <3>1, <3>2, SizesAssumption
  <2>5. CASE op[EpochThread].kind = "idle"
    BY <2>1, <2>5 DEF IInv, MasterInv
  <2> QED BY <2>1, <2>3, <2>4, <2>5 DEF IInv, KindInv
<1> QED BY <1>1, <1>2, <1>3 DEF RecordsFacts, Replicas

(* A thread that appends is the writer of its file and at the end of it.   *)
LEMMA AppenderFacts ==
  ASSUME IInv, NEW t \in Threads, op[t].kind = "append"
  PROVE  /\ t = EpochThread \/ \E s \in Slaves : t = Sequencer(s)
         /\ op[t].epoch = Records(OwnerOf(t))
         /\ op[t].epoch \in Nat /\ op[t].done \in 0 .. RecordSize
         /\ op[t].bytes \in Buffers
         /\ Len(file[OwnerOf(t)]) = Offset(op[t].epoch) + op[t].done
         /\ AppendInv(t, OwnerOf(t))
<1>1. t = EpochThread \/ \E s \in Slaves : t = Sequencer(s)
  BY ThreadFacts DEF IInv, KindInv
<1>2. AppendInv(t, OwnerOf(t))
  BY <1>1, ThreadFacts DEF IInv, MasterInv, SlaveInv
<1>3. /\ op[t].epoch \in Nat /\ op[t].done \in 0 .. RecordSize
      /\ op[t].bytes \in Buffers
  BY DEF IInv, FileTypeOK
<1> QED BY <1>1, <1>2, <1>3 DEF AppendInv

(* What a thread writes comes to the end of its file.                      *)
LEMMA WriteFacts ==
  ASSUME IInv, NEW t \in Threads, WriteSome(t)
  PROVE  \E n \in 1 .. RecordSize - op[t].done :
           \E g :
             /\ op' = [op EXCEPT ![t].done = @ + n]
             /\ file' = [file EXCEPT ![OwnerOf(t)] = g]
             /\ Appends(g, file[OwnerOf(t)], Offset(op[t].epoch), op[t].bytes,
                        op[t].done, n)
<1> DEFINE f == file[OwnerOf(t)]
           off == Offset(op[t].epoch)
<1>1. PICK n \in 1 .. RecordSize - op[t].done :
        /\ file' = [file EXCEPT ![OwnerOf(t)] =
                      Written(f, off, op[t].bytes, op[t].done + 1,
                              op[t].done + n)]
        /\ op' = [op EXCEPT ![t].done = @ + n]
  BY ThreadFacts DEF WriteSome, IInv, FileTypeOK
<1> DEFINE g == Written(f, off, op[t].bytes, op[t].done + 1, op[t].done + n)
<1>2. op[t].kind = "append"
  BY DEF WriteSome
<1>3. f \in Seq(FileCells)
  BY ThreadFacts DEF IInv, FileTypeOK
<1>4. off \in Nat
  BY <1>2, AppenderFacts, OffsetFacts
<1>5. /\ n \in Nat /\ n > 0 /\ op[t].done \in Nat
      /\ op[t].done + n <= RecordSize
  BY <1>1, <1>2, AppenderFacts, SizesAssumption
<1>6. op[t].bytes \in Buffers /\ Len(f) = off + op[t].done
  BY <1>2, AppenderFacts
<1> HIDE DEF f, off
<1> DEFINE done == op[t].done
           bytes == op[t].bytes
<1> HIDE DEF done, bytes
<1>7. Appends(Written(f, off, bytes, done + 1, done + n),
              f, off, bytes, done, n)
  <2>1. bytes \in Buffers /\ Len(f) = off + done
    BY <1>6 DEF done, bytes
  <2>2. done \in Nat /\ done + n <= RecordSize
    BY <1>5 DEF done
  <2> QED BY <1>3, <1>4, <1>5, <2>1, <2>2, WrittenAppends
<1> HIDE DEF g
<1> QED BY <1>1, <1>7 DEF f, off, g, done, bytes

(* A batch that a slave receives is one that the master has determined.    *)
LEMMA MessageFacts ==
  ASSUME IInv, NEW m \in net
  PROVE  /\ m.msg \in Buffers
         /\ \E e \in Nat : /\ e < Records(Master) /\ m.msg[1][2] = e
                           /\ Carries(m.msg, Batch(e))
<1>1. m.msg \in Buffers /\ m.from \in Replicas
  BY DEF IInv, FileTypeOK
<1>2. PICK e \in 0 .. Records(m.from) - 1 : Carries(m.msg, Batch(e))
  BY DEF IInv, NetInv
<1>3. e \in Nat /\ e < Records(Master)
  <2>1. Master \in Replicas
    BY DEF Replicas
  <2>2. /\ Records(m.from) \in Nat /\ Records(Master) \in Nat
        /\ Records(m.from) <= Records(Master)
    BY <1>1, <2>1, RecordsHold DEF RecordsFacts
  <2> QED BY <1>2, <2>2
<1>4. Batch(e).size >= 1 /\ Batch(e).size \in Nat
  BY <1>2, SizesAssumption DEF Carries
<1>5. m.msg[1] = MsgCell(Batch(e), 1)
  BY <1>2, <1>4 DEF Carries
<1>6. Batch(e).epoch_id = e
  BY DEF Batch, BatchIn
<1>7. m.msg[1][2] = e
  BY <1>5, <1>6 DEF MsgCell
<1> QED BY <1>1, <1>2, <1>3, <1>7

-----------------------------------------------------------------------------
(* What a thread may do.                                                   *)
LEMMA Actions ==
  ASSUME [FileNext]_fileVars
  PROVE  \/ CloseBatch
         \/ Determine
         \/ \E t \in Threads : Open(t)
         \/ \E t \in Threads : WriteSome(t)
         \/ \E t \in Threads : EndAppend(t)
         \/ \E t \in Threads : ReadSome(t)
         \/ \E t \in Threads : EndRead(t)
         \/ \E s \in Senders : ReadToSend(s)
         \/ \E s \in Slaves : ReceiveBatch(s)
         \/ \E s \in Slaves : Acknowledge(s)
         \/ \E s \in Slaves : ReadForPeer(s)
         \/ \E t \in Threads, s \in Slaves : SendFromLog(t, s)
         \/ UNCHANGED fileVars
BY ThreadFacts DEF FileNext, LogStep, SendStep

LEMMA TypePreserved ==
  ASSUME IInv, [FileNext]_fileVars
  PROVE  FileTypeOK'
<1> FileTypeOK
  BY DEF IInv
<1> USE DEF FileTypeOK, epoch_ids
<1> 0 \in 0 .. MaxEpoch /\ 0 \in 0 .. RecordSize
  BY MaxEpochAssumption, SizesAssumption
<1> DEFINE Ops == [kind : {"idle", "append", "logged", "read", "send"},
                   epoch : 0 .. MaxEpoch, bytes : Buffers,
                   done : 0 .. RecordSize]
<1>1. Idle \in Ops
  BY EmptyBufferType DEF Idle
<1>2. ASSUME NEW e \in 0 .. MaxEpoch
      PROVE  /\ Reading(e) \in Ops
             /\ \A msg \in Buffers : \A len \in Sizes \cup {RecordSize} :
                  Appending(e, msg, len) \in Ops
  BY EmptyBufferType, RecordType DEF Reading, Appending
<1>3. CASE CloseBatch
  <2>1. PICK n \in Sizes :
          op' = [op EXCEPT ![EpochThread] =
                   Appending(determined_epoch_id + 1,
                             BatchMsg(BatchOf(determined_epoch_id + 1, n)), n)]
    BY <1>3 DEF CloseBatch, BatchOf
  <2>2. determined_epoch_id + 1 \in 0 .. MaxEpoch
    BY <1>3, MaxEpochAssumption DEF CloseBatch
  <2>3. op' \in [Threads -> Ops]
    BY <1>2, <2>1, <2>2, BatchMsgType
  <2> QED BY <1>3, <2>3 DEF CloseBatch
<1>4. CASE Determine
  <2>1. op' \in [Threads -> Ops]
    BY <1>1, <1>4 DEF Determine
  <2>2. determined_epoch_id' \in -1 .. MaxEpoch
    <3>1. op[EpochThread].epoch = determined_epoch_id + 1
      BY <1>4, RecordsHold DEF IInv, MasterInv, Determine, RecordsFacts
    <3> QED BY <1>4, <3>1, ThreadFacts, MaxEpochAssumption DEF Determine
  <2> QED BY <1>4, <2>1, <2>2 DEF Determine
<1>5. ASSUME NEW t \in Threads, Open(t)
      PROVE  FileTypeOK'
  BY <1>5, ThreadFacts DEF Open
<1>6. ASSUME NEW t \in Threads, WriteSome(t)
      PROVE  FileTypeOK'
  <2>1. PICK n \in 1 .. RecordSize - op[t].done :
          /\ op' = [op EXCEPT ![t].done = @ + n]
          /\ \E g \in Seq(FileCells) : file' = [file EXCEPT ![OwnerOf(t)] = g]
    BY <1>6, WriteFacts DEF Appends
  <2>2. op[t].done + n \in 0 .. RecordSize
    BY SizesAssumption
  <2>3. op' \in [Threads -> Ops]
    BY <2>1, <2>2, ZenonT(40)
  <2>4. file' \in [Replicas -> Seq(FileCells)]
    BY <2>1
  <2> QED BY <1>6, <2>3, <2>4 DEF WriteSome
<1>7. ASSUME NEW t \in Threads, EndAppend(t)
      PROVE  FileTypeOK'
  <2>1. op' \in [Threads -> Ops]
    BY <1>7, ZenonT(40) DEF EndAppend
  <2> QED BY <1>7, <2>1 DEF EndAppend
<1>8. ASSUME NEW t \in Threads, ReadSome(t)
      PROVE  FileTypeOK'
  <2> DEFINE Read(n) ==
        [k \in 1 .. RecordSize |->
           IF k \in op[t].done + 1 .. op[t].done + n
           THEN file[OwnerOf(t)][Offset(op[t].epoch) + k] ELSE op[t].bytes[k]]
  <2>1. PICK n \in 1 .. RecordSize - op[t].done :
          /\ n <= Available(t)
          /\ op' = [op EXCEPT ![t].done = @ + n, ![t].bytes = Read(n)]
    BY <1>8 DEF ReadSome
  <2>2. op[t].done + n \in 0 .. RecordSize
    BY SizesAssumption
  <2>3. Read(n) \in Buffers
    <3>1. /\ file[OwnerOf(t)] \in Seq(FileCells)
          /\ Offset(op[t].epoch) \in Nat /\ op[t].done \in Nat
          /\ op[t].bytes \in [1 .. RecordSize -> FileCells]
      <4>1. op[t].epoch \in Nat
        OBVIOUS
      <4>2. Offset(op[t].epoch) \in Nat
        BY <4>1, OffsetFacts
      <4>3. file[OwnerOf(t)] \in Seq(FileCells)
        BY ThreadFacts
      <4> QED BY <4>2, <4>3, SizesAssumption DEF Buffers
    <3>2. ASSUME NEW k \in op[t].done + 1 .. op[t].done + n
          PROVE  file[OwnerOf(t)][Offset(op[t].epoch) + k] \in FileCells
      <4>1. Offset(op[t].epoch) + k \in 1 .. Len(file[OwnerOf(t)])
        BY <2>1, <3>1 DEF Available
      <4> QED BY <3>1, <4>1
    <3> QED BY <3>1, <3>2 DEF Buffers
  <2> HIDE DEF Read
  <2>4. op' \in [Threads -> Ops]
    BY <2>1, <2>2, <2>3, ZenonT(40)
  <2>5. UNCHANGED <<file, mutex, batch_msg, epoch_ids, net>>
    BY <1>8 DEF ReadSome
  <2> QED BY <2>4, <2>5
<1>9. ASSUME NEW t \in Threads, EndRead(t)
      PROVE  FileTypeOK'
  <2>1. op' \in [Threads -> Ops]
    BY <1>9 DEF EndRead
  <2>2. batch_msg' \in [Threads -> Buffers]
    BY <1>9, ContentsType DEF EndRead
  <2> QED BY <1>9, <2>1, <2>2 DEF EndRead
<1>10. ASSUME NEW s \in Senders, ReadToSend(s)
       PROVE  FileTypeOK'
  <2>1. PICK e \in next_epoch_id[s] .. determined_epoch_id :
          /\ op' = [op EXCEPT ![SenderThread(s)] = Reading(e)]
          /\ next_epoch_id' = [next_epoch_id EXCEPT ![s] = e + 1]
    BY <1>10 DEF ReadToSend
  <2>2. e \in 0 .. MaxEpoch /\ e + 1 \in 0 .. MaxEpoch + 1
    BY MaxEpochAssumption
  <2>3. op' \in [Threads -> Ops]
    BY <1>2, <2>1, <2>2
  <2> QED BY <1>10, <2>1, <2>2, <2>3 DEF ReadToSend
<1>11. ASSUME NEW s \in Slaves, ReceiveBatch(s)
       PROVE  FileTypeOK'
  <2>1. PICK m \in net :
          /\ m.msg[1][2] = next_batch_epoch_id[s]
          /\ op' = [op EXCEPT ![Sequencer(s)] =
                      Appending(m.msg[1][2], m.msg, RecordSize)]
    BY <1>11 DEF ReceiveBatch
  <2>2. m.msg \in Buffers
    BY MessageFacts
  <2>3. m.msg[1][2] \in Nat /\ m.msg[1][2] < determined_epoch_id + 1
    BY MessageFacts, RecordsHold DEF RecordsFacts
  <2>4. m.msg[1][2] \in 0 .. MaxEpoch
    BY <2>3, MaxEpochAssumption
  <2>5. op' \in [Threads -> Ops]
    BY <1>2, <2>1, <2>2, <2>4
  <2>6. next_batch_epoch_id[s] + 1 \in 0 .. MaxEpoch + 1
    BY <2>1, <2>4, MaxEpochAssumption
  <2> QED BY <1>11, <2>5, <2>6 DEF ReceiveBatch
<1>12. ASSUME NEW s \in Slaves, Acknowledge(s)
       PROVE  FileTypeOK'
  <2>1. op' \in [Threads -> Ops]
    BY <1>1, <1>12 DEF Acknowledge
  <2>2. Ack \in FileCells
    BY DEF FileCells
  <2>3. batch_msg' \in [Threads -> Buffers]
    BY <1>12, <2>2 DEF Acknowledge, Buffers
  <2> QED BY <1>12, <2>1, <2>3 DEF Acknowledge
<1>13. ASSUME NEW s \in Slaves, ReadForPeer(s)
       PROVE  FileTypeOK'
  <2>1. PICK e \in 0 .. next_batch_epoch_id[s] - 1 :
          op' = [op EXCEPT ![Sequencer(s)] = Reading(e)]
    BY <1>13 DEF ReadForPeer
  <2>2. e \in 0 .. MaxEpoch
    BY MaxEpochAssumption
  <2>3. op' \in [Threads -> Ops]
    BY <1>2, <2>1, <2>2
  <2> QED BY <1>13, <2>3 DEF ReadForPeer
<1>14. ASSUME NEW t \in Threads, NEW s \in Slaves, SendFromLog(t, s)
       PROVE  FileTypeOK'
  <2>1. op' \in [Threads -> Ops]
    BY <1>1, <1>14 DEF SendFromLog
  <2>2. net' = net \cup {[from |-> OwnerOf(t), to |-> s, msg |-> batch_msg[t]]}
    BY <1>14 DEF SendFromLog
  <2>3. \A m \in net' :
          m.from \in Replicas /\ m.to \in Slaves /\ m.msg \in Buffers
    BY <2>2, ThreadFacts
  <2> QED BY <1>14, <2>1, <2>3 DEF SendFromLog
<1>15. CASE UNCHANGED fileVars
  BY <1>15 DEF fileVars
<1> QED
  BY <1>3, <1>4, <1>5, <1>6, <1>7, <1>8, <1>9, <1>10, <1>11, <1>12, <1>13,
     <1>14, <1>15, Actions

LEMMA KindPreserved ==
  ASSUME IInv, [FileNext]_fileVars
  PROVE  KindInv'
<1> op \in [Threads -> [kind : {"idle", "append", "logged", "read", "send"},
                        epoch : 0 .. MaxEpoch, bytes : Buffers,
                        done : 0 .. RecordSize]]
  BY DEF IInv, FileTypeOK
<1> KindInv
  BY DEF IInv
<1> USE ThreadFacts DEF KindInv
<1>1. CASE CloseBatch
  BY <1>1 DEF CloseBatch, Appending
<1>2. CASE Determine
  BY <1>2 DEF Determine, Idle
<1>3. ASSUME NEW t \in Threads, Open(t) PROVE KindInv'
  BY <1>3 DEF Open
<1>4. ASSUME NEW t \in Threads, WriteSome(t) PROVE KindInv'
  BY <1>4 DEF WriteSome
<1>5. ASSUME NEW t \in Threads, EndAppend(t) PROVE KindInv'
  BY <1>5 DEF EndAppend
<1>6. ASSUME NEW t \in Threads, ReadSome(t) PROVE KindInv'
  BY <1>6 DEF ReadSome
<1>7. ASSUME NEW t \in Threads, EndRead(t) PROVE KindInv'
  BY <1>7 DEF EndRead
<1>8. ASSUME NEW s \in Senders, ReadToSend(s) PROVE KindInv'
  BY <1>8 DEF ReadToSend, Reading
<1>9. ASSUME NEW s \in Slaves, ReceiveBatch(s) PROVE KindInv'
  BY <1>9 DEF ReceiveBatch, Appending
<1>10. ASSUME NEW s \in Slaves, Acknowledge(s) PROVE KindInv'
  BY <1>10 DEF Acknowledge, Idle
<1>11. ASSUME NEW s \in Slaves, ReadForPeer(s) PROVE KindInv'
  BY <1>11 DEF ReadForPeer, Reading
<1>12. ASSUME NEW t \in Threads, NEW s \in Slaves, SendFromLog(t, s)
       PROVE  KindInv'
  BY <1>12 DEF SendFromLog, Idle
<1>13. CASE UNCHANGED fileVars
  BY <1>13 DEF fileVars
<1> QED
  BY <1>1, <1>2, <1>3, <1>4, <1>5, <1>6, <1>7, <1>8, <1>9, <1>10, <1>11,
     <1>12, <1>13, Actions

(* A record more counts when the master determines a batch and when a      *)
(* slave has appended one.                                                 *)
SameRecords == \A r \in Replicas : Records(r)' = Records(r)
OneMore(s) ==
  /\ Records(s)' = Records(s) + 1
  /\ \A r \in Replicas \ {s} : Records(r)' = Records(r)

LEMMA RecordsStep ==
  ASSUME IInv, [FileNext]_fileVars
  PROVE  \/ SameRecords
         \/ Determine /\ OneMore(Master)
         \/ \E s \in Slaves : EndAppend(Sequencer(s)) /\ OneMore(s)
<1> op \in [Threads -> [kind : {"idle", "append", "logged", "read", "send"},
                        epoch : 0 .. MaxEpoch, bytes : Buffers,
                        done : 0 .. RecordSize]]
  BY DEF IInv, FileTypeOK
<1> /\ determined_epoch_id \in Int
    /\ next_batch_epoch_id \in [Slaves -> 0 .. MaxEpoch + 1]
  BY DEF IInv, FileTypeOK
<1>1. /\ Records(Master) = determined_epoch_id + 1
      /\ Records(Master)' = determined_epoch_id' + 1
  BY DEF Records
<1>2. \A s \in Slaves :
        /\ Records(s) = IF op[Sequencer(s)].kind = "append"
                        THEN next_batch_epoch_id[s] - 1
                        ELSE next_batch_epoch_id[s]
        /\ Records(s)' = IF op'[Sequencer(s)].kind = "append"
                         THEN next_batch_epoch_id'[s] - 1
                         ELSE next_batch_epoch_id'[s]
  BY TypePreserved, ThreadFacts, MaxEpochAssumption DEF Records, FileTypeOK
<1>3. ASSUME determined_epoch_id' = determined_epoch_id,
             \A s \in Slaves :
               /\ next_batch_epoch_id'[s] = next_batch_epoch_id[s]
               /\ op'[Sequencer(s)].kind = "append"
                    <=> op[Sequencer(s)].kind = "append"
      PROVE  SameRecords
  BY <1>1, <1>2, <1>3 DEF SameRecords, Replicas
<1> USE ThreadFacts DEF epoch_ids
<1>4. CASE CloseBatch
  BY <1>3, <1>4 DEF CloseBatch
<1>5. CASE Determine
  <2>1. \A s \in Slaves : Records(s)' = Records(s)
    BY <1>2, <1>5 DEF Determine
  <2>2. Records(Master)' = Records(Master) + 1
    BY <1>1, <1>5 DEF Determine
  <2> QED BY <1>5, <2>1, <2>2 DEF OneMore, Replicas
<1>6. ASSUME NEW t \in Threads, Open(t) PROVE SameRecords
  BY <1>3, <1>6 DEF Open
<1>7. ASSUME NEW t \in Threads, WriteSome(t) PROVE SameRecords
  BY <1>3, <1>7 DEF WriteSome
<1>8. ASSUME NEW t \in Threads, EndAppend(t)
      PROVE  \/ SameRecords
             \/ \E s \in Slaves : EndAppend(Sequencer(s)) /\ OneMore(s)
  <2>1. CASE t = EpochThread
    BY <1>3, <1>8, <2>1 DEF EndAppend
  <2>2. ASSUME NEW s \in Slaves, t = Sequencer(s)
        PROVE  OneMore(s)
    <3>1. Records(s)' = Records(s) + 1
      BY <1>2, <1>8, <2>2 DEF EndAppend
    <3>2. \A r \in Slaves \ {s} : Records(r)' = Records(r)
      BY <1>2, <1>8, <2>2 DEF EndAppend
    <3>3. Records(Master)' = Records(Master)
      BY <1>1, <1>8 DEF EndAppend
    <3> QED BY <3>1, <3>2, <3>3 DEF OneMore, Replicas
  <2>3. op[t].kind = "append"
    BY <1>8 DEF EndAppend
  <2> QED BY <1>8, <2>1, <2>2, <2>3, AppenderFacts
<1>9. ASSUME NEW t \in Threads, ReadSome(t) PROVE SameRecords
  BY <1>3, <1>9 DEF ReadSome
<1>10. ASSUME NEW t \in Threads, EndRead(t) PROVE SameRecords
  BY <1>3, <1>10 DEF EndRead
<1>11. ASSUME NEW s \in Senders, ReadToSend(s) PROVE SameRecords
  BY <1>3, <1>11 DEF ReadToSend
<1>12. ASSUME NEW s \in Slaves, ReceiveBatch(s) PROVE SameRecords
  <2>1. /\ op[Sequencer(s)].kind = "idle" /\ op'[Sequencer(s)].kind = "append"
        /\ next_batch_epoch_id'[s] = next_batch_epoch_id[s] + 1
    BY <1>12 DEF ReceiveBatch, Idle, Appending
  <2>2. Records(s)' = Records(s)
    BY <1>2, <2>1
  <2>3. \A r \in Slaves \ {s} : Records(r)' = Records(r)
    BY <1>2, <1>12 DEF ReceiveBatch
  <2>4. Records(Master)' = Records(Master)
    BY <1>1, <1>12 DEF ReceiveBatch
  <2> QED BY <2>2, <2>3, <2>4 DEF SameRecords, Replicas
<1>13. ASSUME NEW s \in Slaves, Acknowledge(s) PROVE SameRecords
  BY <1>3, <1>13 DEF Acknowledge, Idle
<1>14. ASSUME NEW s \in Slaves, ReadForPeer(s) PROVE SameRecords
  BY <1>3, <1>14 DEF ReadForPeer, Reading, Idle
<1>15. ASSUME NEW t \in Threads, NEW s \in Slaves, SendFromLog(t, s)
       PROVE  SameRecords
  BY <1>3, <1>15 DEF SendFromLog, Idle
<1>16. CASE UNCHANGED fileVars
  BY <1>3, <1>16 DEF fileVars
<1> QED
  BY <1>4, <1>5, <1>6, <1>7, <1>8, <1>9, <1>10, <1>11, <1>12, <1>13, <1>14,
     <1>15, <1>16, Actions

(* What is on a file stays there.                                          *)
FilesGrow ==
  \A r \in Replicas :
    /\ Len(file[r]) <= Len(file'[r])
    /\ \A i \in 1 .. Len(file[r]) : file'[r][i] = file[r][i]

LEMMA FilesOnlyGrow ==
  ASSUME IInv, [FileNext]_fileVars
  PROVE  FilesGrow
<1> file \in [Replicas -> Seq(FileCells)]
  BY DEF IInv, FileTypeOK
<1>1. ASSUME NEW t \in Threads, WriteSome(t)
      PROVE  FilesGrow
  <2>1. PICK n \in 1 .. RecordSize - op[t].done, g \in Seq(FileCells) :
          /\ file' = [file EXCEPT ![OwnerOf(t)] = g]
          /\ Appends(g, file[OwnerOf(t)], Offset(op[t].epoch), op[t].bytes,
                     op[t].done, n)
    BY <1>1, WriteFacts DEF Appends
  <2>2. op[t].kind = "append"
    BY <1>1 DEF WriteSome
  <2>3. /\ Len(file[OwnerOf(t)]) = Offset(op[t].epoch) + op[t].done
        /\ op[t].epoch \in Nat /\ op[t].done \in Nat
    BY <2>2, AppenderFacts
  <2>4. Offset(op[t].epoch) \in Nat
    BY <2>3, OffsetFacts
  <2>5. /\ Len(file[OwnerOf(t)]) <= Len(g)
        /\ \A i \in 1 .. Len(file[OwnerOf(t)]) : g[i] = file[OwnerOf(t)][i]
    BY <2>1, <2>3, <2>4 DEF Appends
  <2> QED BY <2>1, <2>5 DEF FilesGrow
<1>2. CASE UNCHANGED file
  BY <1>2 DEF FilesGrow
<1> QED
  BY <1>1, <1>2, Actions
     DEF CloseBatch, Determine, Open, EndAppend, ReadSome, EndRead, ReadToSend,
         ReceiveBatch, Acknowledge, ReadForPeer, SendFromLog, fileVars

(* So records that are complete stay as they are, and the batches of the   *)
(* epochs, which are those of the master's records.                        *)
LEMMA BytesStay ==
  ASSUME IInv, [FileNext]_fileVars, NEW r \in Replicas, NEW e \in Nat,
         Offset(e) + RecordSize <= Len(file[r])
  PROVE  Bytes(file'[r], e) = Bytes(file[r], e)
<1>1. Offset(e) \in Nat /\ Len(file[r]) \in Nat
  BY OffsetFacts DEF IInv, FileTypeOK
<1>2. \A k \in 1 .. RecordSize : Offset(e) + k \in 1 .. Len(file[r])
  BY <1>1, SizesAssumption
<1>3. \A k \in 1 .. RecordSize :
        file'[r][Offset(e) + k] = file[r][Offset(e) + k]
  BY <1>2, FilesOnlyGrow DEF FilesGrow
<1> QED BY <1>3 DEF Bytes, Offset

LEMMA CompleteRecord ==
  ASSUME IInv, NEW r \in Replicas, NEW e \in Nat, e < Records(r)
  PROVE  /\ Offset(e) + RecordSize <= Len(file[r])
         /\ Bytes(file[r], e) \in Buffers
<1>1. Records(r) \in Nat /\ Offset(Records(r)) <= Len(file[r])
  BY RecordsHold DEF RecordsFacts
<1>2. Offset(e) + RecordSize <= Offset(Records(r))
  BY <1>1, OffsetMonotone
<1>3. /\ Offset(e) \in Nat /\ Offset(Records(r)) \in Nat
      /\ file[r] \in Seq(FileCells)
  BY <1>1, OffsetFacts DEF IInv, FileTypeOK
<1>4. Offset(e) + RecordSize <= Len(file[r])
  BY <1>1, <1>2, <1>3, SizesAssumption
<1>5. \A k \in 1 .. RecordSize : file[r][Offset(e) + k] \in FileCells
  BY <1>3, <1>4, SizesAssumption
<1> QED BY <1>4, <1>5 DEF Bytes, Buffers

LEMMA BatchesStay ==
  ASSUME IInv, [FileNext]_fileVars, NEW e \in Nat, e < Records(Master)
  PROVE  BatchIn(file'[Master], e) = Batch(e)
<1>1. Offset(e) + RecordSize <= Len(file[Master])
  BY ThreadFacts, CompleteRecord
<1>2. Holds(Bytes(file[Master], e), Batch(e))
  BY ThreadFacts, RecordsHold DEF IInv, RecordInv, RecordsFacts
<1>3. 2 \in 1 .. RecordSize
  <2>1. \E n \in Nat : 1 <= n /\ n + 1 <= RecordSize
    BY <1>2, SizesAssumption DEF Holds
  <2> QED BY <2>1, SizesAssumption
<1>4. Bytes(file'[Master], e)[2] = Bytes(file[Master], e)[2]
  BY <1>1, BytesStay, ThreadFacts
<1>5. file'[Master][Offset(e) + 2] = file[Master][Offset(e) + 2]
  BY <1>3, <1>4 DEF Bytes, Offset
<1> QED BY <1>5 DEF Batch, BatchIn

-----------------------------------------------------------------------------
(* Who appends goes on where it was, when another thread takes a step.      *)
LEMMA AppendStays ==
  ASSUME IInv, [FileNext]_fileVars, NEW t \in Threads, op'[t] = op[t],
         Records(OwnerOf(t))' = Records(OwnerOf(t)),
         Len(file'[OwnerOf(t)]) = Len(file[OwnerOf(t)]),
         AppendInv(t, OwnerOf(t))
  PROVE  AppendInv(t, OwnerOf(t))'
<1> SUFFICES ASSUME op[t].kind = "append"
             PROVE  AppendInv(t, OwnerOf(t))'
  BY DEF AppendInv
<1>1. /\ op[t].epoch = Records(OwnerOf(t))
      /\ op[t].epoch \in Nat /\ op[t].done \in 0 .. RecordSize
      /\ Len(file[OwnerOf(t)]) = Offset(op[t].epoch) + op[t].done
  BY AppenderFacts
<1>2. \A k \in 1 .. op[t].done :
        file[OwnerOf(t)][Offset(op[t].epoch) + k] = op[t].bytes[k]
  BY DEF AppendInv
<1>3. \A k \in 1 .. op[t].done :
        Offset(op[t].epoch) + k \in 1 .. Len(file[OwnerOf(t)])
  <2>1. Offset(op[t].epoch) \in Nat
    BY <1>1, OffsetFacts
  <2> QED BY <1>1, <2>1
<1>4. \A k \in 1 .. op[t].done :
        file'[OwnerOf(t)][Offset(op[t].epoch) + k]
          = file[OwnerOf(t)][Offset(op[t].epoch) + k]
  BY <1>3, ThreadFacts, FilesOnlyGrow DEF FilesGrow
<1> QED BY <1>1, <1>2, <1>4 DEF AppendInv, Offset

(* Writing some cells of a record, or all.                                 *)
LEMMA AppendGoesOn ==
  ASSUME IInv, NEW t \in Threads, WriteSome(t),
         Records(OwnerOf(t))' = Records(OwnerOf(t)),
         AppendInv(t, OwnerOf(t))
  PROVE  AppendInv(t, OwnerOf(t))' /\ op'[t].bytes = op[t].bytes
<1>1. PICK n \in 1 .. RecordSize - op[t].done, g \in Seq(FileCells) :
        /\ op' = [op EXCEPT ![t].done = @ + n]
        /\ file' = [file EXCEPT ![OwnerOf(t)] = g]
        /\ Appends(g, file[OwnerOf(t)], Offset(op[t].epoch), op[t].bytes,
                   op[t].done, n)
  BY WriteFacts DEF Appends
<1>2. op[t].kind = "append"
  BY DEF WriteSome
<1>3. /\ op[t].epoch = Records(OwnerOf(t)) /\ op[t].epoch \in Nat
      /\ op[t].done \in Nat
      /\ Len(file[OwnerOf(t)]) = Offset(op[t].epoch) + op[t].done
  BY <1>2, AppenderFacts
<1>4. Offset(op[t].epoch) \in Nat
  BY <1>3, OffsetFacts
<1>5. file'[OwnerOf(t)] = g
  BY <1>1, ThreadFacts DEF IInv, FileTypeOK
<1>6. /\ op'[t].done = op[t].done + n /\ op'[t].epoch = op[t].epoch
      /\ op'[t].bytes = op[t].bytes /\ op'[t].kind = "append"
  BY <1>1, <1>2 DEF IInv, FileTypeOK
<1>7. \A k \in 1 .. op[t].done :
        /\ Offset(op[t].epoch) + k \in 1 .. Len(file[OwnerOf(t)])
        /\ file[OwnerOf(t)][Offset(op[t].epoch) + k] = op[t].bytes[k]
  BY <1>2, <1>3, <1>4 DEF AppendInv
<1>8. \A k \in 1 .. op[t].done : g[Offset(op[t].epoch) + k] = op[t].bytes[k]
  BY <1>1, <1>7 DEF Appends
<1>9. \A k \in 1 .. op[t].done + n :
        g[Offset(op[t].epoch) + k] = op[t].bytes[k]
  BY <1>1, <1>3, <1>8 DEF Appends
<1>10. Len(g) = Offset(op[t].epoch) + (op[t].done + n)
  BY <1>1 DEF Appends
<1> QED BY <1>3, <1>5, <1>6, <1>9, <1>10 DEF AppendInv, Offset

(* Only the writer of a file changes its length.                           *)
LEMMA OtherFilesStay ==
  ASSUME IInv, NEW t \in Threads, WriteSome(t), NEW r \in Replicas,
         r # OwnerOf(t)
  PROVE  file'[r] = file[r]
BY WriteFacts DEF IInv, FileTypeOK

(* A record that has been appended is what was to be appended.             *)
LEMMA AppendedBytes ==
  ASSUME IInv, NEW t \in Threads, EndAppend(t)
  PROVE  /\ op[t].epoch = Records(OwnerOf(t))
         /\ Bytes(file[OwnerOf(t)], op[t].epoch) = op[t].bytes
         /\ Len(file[OwnerOf(t)]) = Offset(op[t].epoch + 1)
<1>1. op[t].kind = "append" /\ op[t].done = RecordSize
  BY DEF EndAppend
<1>2. AppendInv(t, OwnerOf(t))
  BY <1>1, AppenderFacts
<1>3. \A k \in 1 .. RecordSize :
        file[OwnerOf(t)][Offset(op[t].epoch) + k] = op[t].bytes[k]
  BY <1>1, <1>2 DEF AppendInv
<1>4. op[t].bytes \in Buffers /\ op[t].epoch \in Nat
  BY <1>1, AppenderFacts
<1>5. Bytes(file[OwnerOf(t)], op[t].epoch) = op[t].bytes
  BY <1>3, <1>4 DEF Bytes, Buffers
<1>6. Len(file[OwnerOf(t)]) = Offset(op[t].epoch) + RecordSize
  BY <1>1, <1>2 DEF AppendInv
<1>7. Offset(op[t].epoch + 1) = Offset(op[t].epoch) + RecordSize
  BY <1>4, OffsetFacts
<1> QED BY <1>1, <1>2, <1>5, <1>6, <1>7 DEF AppendInv
-----------------------------------------------------------------------------
LEMMA MasterPreserved ==
  ASSUME IInv, [FileNext]_fileVars
  PROVE  MasterInv'
<1> USE ThreadFacts DEF epoch_ids
<1> /\ op \in [Threads -> [kind : {"idle", "append", "logged", "read", "send"},
                           epoch : 0 .. MaxEpoch, bytes : Buffers,
                           done : 0 .. RecordSize]]
    /\ determined_epoch_id \in -1 .. MaxEpoch
  BY DEF IInv, FileTypeOK
<1>1. /\ Records(Master) = determined_epoch_id + 1
      /\ Records(Master)' = determined_epoch_id' + 1
      /\ Records(Master) \in Nat
  BY DEF Records
<1>2. ASSUME op'[EpochThread] = op[EpochThread],
             file'[Master] = file[Master],
             determined_epoch_id' = determined_epoch_id
      PROVE  MasterInv'
  <2>1. \A e : Bytes(file'[Master], e) = Bytes(file[Master], e)
    BY <1>2 DEF Bytes, Offset
  <2>2. Records(Master)' = Records(Master)
    BY <1>1, <1>2
  <2>3. MasterInv
    BY DEF IInv
  <2>4. AppendInv(EpochThread, Master)'
    BY <1>2, <2>2, <2>3 DEF MasterInv, AppendInv, Offset
  <2>5. op'[EpochThread].kind = "append" =>
          \E n \in Sizes : Holds(op'[EpochThread].bytes,
                                 [epoch_id |-> Records(Master)', size |-> n])
    BY <1>2, <2>2, <2>3 DEF MasterInv
  <2>6. op'[EpochThread].kind = "logged" =>
          /\ op'[EpochThread].epoch = Records(Master)'
          /\ Len(file'[Master]) = Offset(Records(Master)' + 1)
          /\ \E n \in Sizes : Holds(Bytes(file'[Master], Records(Master)'),
                                    [epoch_id |-> Records(Master)', size |-> n])
    BY <1>2, <2>1, <2>2, <2>3 DEF MasterInv
  <2>7. op'[EpochThread].kind = "idle" =>
          Len(file'[Master]) = Offset(Records(Master)')
    BY <1>2, <2>2, <2>3 DEF MasterInv
  <2> QED BY <2>4, <2>5, <2>6, <2>7 DEF MasterInv, Holds, Offset
<1>3. CASE CloseBatch
  <2>1. PICK n \in Sizes :
          op' = [op EXCEPT ![EpochThread] =
                   Appending(determined_epoch_id + 1,
                             BatchMsg(BatchOf(determined_epoch_id + 1, n)), n)]
    BY <1>3 DEF CloseBatch, BatchOf
  <2> DEFINE b == BatchOf(determined_epoch_id + 1, n)
  <2>2. Holds(Record(BatchMsg(b), n), b)
    <3>1. b.size = n /\ n \in Nat /\ n <= n
      BY SizesAssumption DEF BatchOf
    <3> QED BY <3>1, BatchMsgCarries, CarriedIsHeld
  <2>3. /\ op'[EpochThread].kind = "append"
        /\ op'[EpochThread].epoch = Records(Master)
        /\ op'[EpochThread].bytes = Record(BatchMsg(b), n)
        /\ op'[EpochThread].done = 0
    BY <1>1, <2>1 DEF Appending
  <2>4. Len(file[Master]) = Offset(Records(Master))
    BY <1>3 DEF CloseBatch, Idle, IInv, MasterInv
  <2>5. Offset(Records(Master)) \in Nat
    BY <1>1, OffsetFacts
  <2>6. file' = file /\ Records(Master)' = Records(Master)
    BY <1>1, <1>3 DEF CloseBatch
  <2>7. AppendInv(EpochThread, Master)'
    BY <2>3, <2>4, <2>5, <2>6 DEF AppendInv, Offset
  <2>8. Holds(op'[EpochThread].bytes, BatchOf(Records(Master)', n))
    BY <1>1, <2>2, <2>3, <2>6
  <2> QED BY <2>3, <2>7, <2>8 DEF MasterInv, Holds, BatchOf
<1>4. CASE Determine
  <2>1. op'[EpochThread].kind = "idle" /\ file' = file
    BY <1>4 DEF Determine, Idle
  <2>2. Records(Master)' = Records(Master) + 1
    BY <1>1, <1>4 DEF Determine
  <2>3. Len(file[Master]) = Offset(Records(Master) + 1)
    BY <1>4 DEF Determine, IInv, MasterInv
  <2> QED BY <2>1, <2>2, <2>3 DEF MasterInv, AppendInv, Offset
<1>5. ASSUME NEW t \in Threads, Open(t) PROVE MasterInv'
  BY <1>2, <1>5 DEF Open
<1>6. ASSUME NEW t \in Threads, WriteSome(t) PROVE MasterInv'
  <2>1. op[t].kind = "append" /\ determined_epoch_id' = determined_epoch_id
    BY <1>6 DEF WriteSome
  <2>2. CASE t = EpochThread
    <3>1. Records(Master)' = Records(Master)
      BY <1>1, <2>1
    <3>2. /\ AppendInv(EpochThread, Master)'
          /\ op'[EpochThread].bytes = op[EpochThread].bytes
      BY <1>6, <2>2, <3>1, AppendGoesOn DEF IInv, MasterInv
    <3>3. op'[EpochThread].kind = "append"
      BY <1>6, <2>1, <2>2 DEF WriteSome
    <3>4. \E n \in Sizes : Holds(op[EpochThread].bytes,
                                 [epoch_id |-> Records(Master), size |-> n])
      BY <2>1, <2>2 DEF IInv, MasterInv
    <3>5. \E n \in Sizes : Holds(op'[EpochThread].bytes,
                                 [epoch_id |-> Records(Master)', size |-> n])
      BY <3>1, <3>2, <3>4
    <3> QED BY <3>2, <3>3, <3>5 DEF MasterInv, Holds
  <2>3. CASE t # EpochThread
    <3>1. file'[Master] = file[Master]
      BY <1>6, <2>1, <2>3, AppenderFacts, OtherFilesStay
    <3>2. op'[EpochThread] = op[EpochThread]
      BY <1>6, <2>3 DEF WriteSome
    <3> QED BY <1>2, <2>1, <3>1, <3>2
  <2> QED BY <2>2, <2>3
<1>7. ASSUME NEW t \in Threads, EndAppend(t) PROVE MasterInv'
  <2>1. CASE t = EpochThread
    <3>1. /\ op'[EpochThread].kind = "logged"
          /\ op'[EpochThread].epoch = op[EpochThread].epoch
          /\ file' = file /\ determined_epoch_id' = determined_epoch_id
          /\ op[EpochThread].kind = "append"
      BY <1>7, <2>1 DEF EndAppend
    <3>2. /\ op[EpochThread].epoch = Records(Master)
          /\ Bytes(file[Master], Records(Master)) = op[EpochThread].bytes
          /\ Len(file[Master]) = Offset(Records(Master) + 1)
      BY <1>7, <2>1, AppendedBytes
    <3>3. \E n \in Sizes : Holds(Bytes(file[Master], Records(Master)),
                                 [epoch_id |-> Records(Master), size |-> n])
      BY <3>1, <3>2 DEF IInv, MasterInv
    <3>4. Records(Master)' = Records(Master)
      BY <1>1, <3>1
    <3>5. Bytes(file'[Master], Records(Master)')
            = Bytes(file[Master], Records(Master))
      BY <3>1, <3>4 DEF Bytes, Offset
    <3> QED BY <3>1, <3>2, <3>3, <3>4, <3>5
            DEF MasterInv, AppendInv, Offset, Holds
  <2>2. CASE t # EpochThread
    BY <1>2, <1>7, <2>2 DEF EndAppend
  <2> QED BY <2>1, <2>2
<1>8. ASSUME NEW t \in Threads, ReadSome(t) PROVE MasterInv'
  BY <1>2, <1>8 DEF ReadSome, IInv, KindInv
<1>9. ASSUME NEW t \in Threads, EndRead(t) PROVE MasterInv'
  BY <1>2, <1>9 DEF EndRead, IInv, KindInv
<1>10. ASSUME NEW s \in Senders, ReadToSend(s) PROVE MasterInv'
  BY <1>2, <1>10 DEF ReadToSend
<1>11. ASSUME NEW s \in Slaves, ReceiveBatch(s) PROVE MasterInv'
  BY <1>2, <1>11 DEF ReceiveBatch
<1>12. ASSUME NEW s \in Slaves, Acknowledge(s) PROVE MasterInv'
  BY <1>2, <1>12 DEF Acknowledge
<1>13. ASSUME NEW s \in Slaves, ReadForPeer(s) PROVE MasterInv'
  BY <1>2, <1>13 DEF ReadForPeer
<1>14. ASSUME NEW t \in Threads, NEW s \in Slaves, SendFromLog(t, s)
       PROVE  MasterInv'
  BY <1>2, <1>14 DEF SendFromLog, IInv, KindInv
<1>15. CASE UNCHANGED fileVars
  BY <1>2, <1>15 DEF fileVars
<1> QED
  BY <1>3, <1>4, <1>5, <1>6, <1>7, <1>8, <1>9, <1>10, <1>11, <1>12, <1>13,
     <1>14, <1>15, Actions

LEMMA SlavePreserved ==
  ASSUME IInv, [FileNext]_fileVars
  PROVE  SlaveInv'
<1> SUFFICES ASSUME NEW s \in Slaves
             PROVE  /\ next_batch_epoch_id'[s] <= determined_epoch_id' + 1
                    /\ AppendInv(Sequencer(s), s)'
                    /\ op'[Sequencer(s)].kind = "append" =>
                         Holds(op'[Sequencer(s)].bytes,
                               BatchIn(file'[Master], op'[Sequencer(s)].epoch))
                    /\ op'[Sequencer(s)].kind # "append" =>
                         Len(file'[s]) = Offset(Records(s)')
  BY DEF SlaveInv, Batch
<1> DEFINE t == Sequencer(s)
           Goal == /\ next_batch_epoch_id'[s] <= determined_epoch_id' + 1
                   /\ AppendInv(Sequencer(s), s)'
                   /\ op'[Sequencer(s)].kind = "append" =>
                        Holds(op'[Sequencer(s)].bytes,
                              BatchIn(file'[Master], op'[Sequencer(s)].epoch))
                   /\ op'[Sequencer(s)].kind # "append" =>
                        Len(file'[s]) = Offset(Records(s)')
<1> SUFFICES Goal
  OBVIOUS
<1> USE ThreadFacts DEF epoch_ids
<1> /\ op \in [Threads -> [kind : {"idle", "append", "logged", "read", "send"},
                           epoch : 0 .. MaxEpoch, bytes : Buffers,
                           done : 0 .. RecordSize]]
    /\ determined_epoch_id \in Int
    /\ next_batch_epoch_id \in [Slaves -> 0 .. MaxEpoch + 1]
    /\ next_batch_epoch_id[s] \in Nat
  BY DEF IInv, FileTypeOK
<1>1. /\ next_batch_epoch_id[s] <= determined_epoch_id + 1
      /\ AppendInv(t, s)
      /\ op[t].kind = "append" => Holds(op[t].bytes, Batch(op[t].epoch))
      /\ op[t].kind # "append" => Len(file[s]) = Offset(Records(s))
  BY DEF IInv, SlaveInv
<1>2. /\ Records(s) \in Nat /\ Records(s) <= Records(Master)
      /\ Records(Master) = determined_epoch_id + 1
      /\ Records(s) = IF op[t].kind = "append" THEN next_batch_epoch_id[s] - 1
                      ELSE next_batch_epoch_id[s]
  BY RecordsHold DEF RecordsFacts
<1>3. Records(s)' = IF op'[t].kind = "append" THEN next_batch_epoch_id'[s] - 1
                    ELSE next_batch_epoch_id'[s]
  BY TypePreserved, MaxEpochAssumption DEF Records, FileTypeOK
<1>4. op[t].kind = "append" =>
        Holds(op[t].bytes, BatchIn(file'[Master], op[t].epoch))
  <2> SUFFICES ASSUME op[t].kind = "append"
               PROVE  BatchIn(file'[Master], op[t].epoch) = Batch(op[t].epoch)
    BY <1>1
  <2>1. op[t].epoch = Records(s) /\ op[t].epoch \in Nat
    BY AppenderFacts
  <2>2. op[t].epoch < Records(Master)
    BY <1>1, <1>2, <2>1
  <2> QED BY <2>1, <2>2, BatchesStay
<1>5. next_batch_epoch_id[s] <= determined_epoch_id' + 1
  <2>1. \/ determined_epoch_id' = determined_epoch_id
        \/ determined_epoch_id' = determined_epoch_id + 1
    BY Actions
       DEF CloseBatch, Determine, Open, WriteSome, EndAppend, ReadSome,
           EndRead, ReadToSend, ReceiveBatch, Acknowledge, ReadForPeer,
           SendFromLog, fileVars
  <2> QED BY <1>1, <2>1
<1>6. ASSUME op'[t] = op[t], file'[s] = file[s],
             next_batch_epoch_id'[s] = next_batch_epoch_id[s]
      PROVE  Goal
  <2>1. Records(s)' = Records(s)
    BY <1>2, <1>3, <1>6
  <2>2. AppendInv(t, s)'
    BY <1>1, <1>6, <2>1 DEF AppendInv, Offset
  <2> QED BY <1>1, <1>4, <1>5, <1>6, <2>1, <2>2
<1>7. ASSUME op[t].kind # "append", op'[t].kind # "append", file' = file,
             next_batch_epoch_id'[s] = next_batch_epoch_id[s]
      PROVE  Goal
  <2>1. Records(s)' = Records(s)
    BY <1>2, <1>3, <1>7
  <2>2. AppendInv(t, s)'
    BY <1>7 DEF AppendInv
  <2> QED BY <1>1, <1>5, <1>7, <2>1, <2>2
<1> HIDE DEF Goal
<1>8. CASE CloseBatch
  BY <1>6, <1>8 DEF CloseBatch
<1>9. CASE Determine
  BY <1>6, <1>9 DEF Determine
<1>10. ASSUME NEW u \in Threads, Open(u) PROVE Goal
  BY <1>6, <1>10 DEF Open
<1>11. ASSUME NEW u \in Threads, WriteSome(u) PROVE Goal
  <2>1. /\ op[u].kind = "append"
        /\ next_batch_epoch_id'[s] = next_batch_epoch_id[s]
    BY <1>11 DEF WriteSome
  <2>2. CASE u = t
    <3>1. op'[t].kind = "append" /\ op'[t].epoch = op[t].epoch
      BY <1>11, <2>2 DEF WriteSome
    <3>2. Records(s)' = Records(s)
      BY <1>2, <1>3, <2>1, <2>2, <3>1
    <3>3. AppendInv(t, s)' /\ op'[t].bytes = op[t].bytes
      BY <1>1, <1>11, <2>2, <3>2, AppendGoesOn
    <3> QED BY <1>1, <1>4, <1>5, <2>1, <2>2, <3>1, <3>3 DEF Goal
  <2>3. CASE u # t
    <3>1. file'[s] = file[s]
      BY <1>11, <2>1, <2>3, AppenderFacts, OtherFilesStay
    <3>2. op'[t] = op[t]
      BY <1>11, <2>3 DEF WriteSome
    <3> QED BY <1>6, <2>1, <3>1, <3>2
  <2> QED BY <2>2, <2>3
<1>12. ASSUME NEW u \in Threads, EndAppend(u) PROVE Goal
  <2>1. CASE u = t
    <3>1. /\ op[t].kind = "append" /\ op'[t].kind = "logged" /\ file' = file
          /\ next_batch_epoch_id'[s] = next_batch_epoch_id[s]
      BY <1>12, <2>1 DEF EndAppend
    <3>2. op[t].epoch = Records(s) /\ Len(file[s]) = Offset(op[t].epoch + 1)
      BY <1>12, <2>1, AppendedBytes
    <3>3. Records(s)' = Records(s) + 1
      BY <1>2, <1>3, <3>1
    <3>4. AppendInv(t, s)'
      BY <3>1 DEF AppendInv
    <3> QED BY <1>1, <1>5, <3>1, <3>2, <3>3, <3>4 DEF Goal
  <2>2. CASE u # t
    BY <1>6, <1>12, <2>2 DEF EndAppend
  <2> QED BY <2>1, <2>2
<1>13. ASSUME NEW u \in Threads, ReadSome(u) PROVE Goal
  BY <1>6, <1>7, <1>13 DEF ReadSome
<1>14. ASSUME NEW u \in Threads, EndRead(u) PROVE Goal
  BY <1>6, <1>7, <1>14 DEF EndRead
<1>15. ASSUME NEW r \in Senders, ReadToSend(r) PROVE Goal
  BY <1>6, <1>15 DEF ReadToSend
<1>16. ASSUME NEW r \in Slaves, ReceiveBatch(r) PROVE Goal
  <2>1. CASE r = s
    <3>1. PICK m \in net :
            /\ m.msg[1][2] = next_batch_epoch_id[s]
            /\ op' = [op EXCEPT ![t] =
                        Appending(m.msg[1][2], m.msg, RecordSize)]
      BY <1>16, <2>1 DEF ReceiveBatch
    <3> DEFINE e == next_batch_epoch_id[s]
    <3>2. e \in Nat /\ e < Records(Master) /\ Carries(m.msg, Batch(e))
      BY <3>1, MessageFacts
    <3>3. /\ op[t].kind # "append" /\ file' = file
          /\ next_batch_epoch_id'[s] = next_batch_epoch_id[s] + 1
          /\ determined_epoch_id' = determined_epoch_id
      BY <1>16, <2>1 DEF ReceiveBatch, Idle
    <3>4. /\ op'[t].kind = "append" /\ op'[t].epoch = e
          /\ op'[t].bytes = Record(m.msg, RecordSize) /\ op'[t].done = 0
      BY <3>1 DEF Appending
    <3>5. Records(s)' = e /\ Records(s) = e
      BY <1>2, <1>3, <3>3, <3>4
    <3>6. Holds(op'[t].bytes, Batch(e))
      <4>1. Batch(e).size \in Nat /\ Batch(e).size <= RecordSize
        <5>1. Batch(e).size \in {n \in Nat : 1 <= n /\ n + 1 <= RecordSize}
          BY <3>2, SizesAssumption DEF Carries
        <5> QED BY <5>1, SizesAssumption
      <4> QED BY <3>2, <3>4, <4>1, CarriedIsHeld, SizesAssumption
    <3>7. Holds(op'[t].bytes, BatchIn(file'[Master], op'[t].epoch))
      BY <3>3, <3>4, <3>6 DEF Batch
    <3>8. AppendInv(t, s)'
      <4>1. Len(file[s]) = Offset(e) /\ Offset(e) \in Nat
        BY <1>1, <3>2, <3>3, <3>5, OffsetFacts
      <4>2. Len(file'[s]) = Offset(op'[t].epoch) + op'[t].done
        BY <3>3, <3>4, <4>1
      <4> QED BY <3>3, <3>4, <3>5, <4>2 DEF AppendInv, Offset
    <3>9. next_batch_epoch_id'[s] <= determined_epoch_id' + 1
      BY <1>2, <3>2, <3>3
    <3> QED BY <3>4, <3>7, <3>8, <3>9 DEF Goal
  <2>2. CASE r # s
    BY <1>6, <1>16, <2>2 DEF ReceiveBatch
  <2> QED BY <2>1, <2>2
<1>17. ASSUME NEW r \in Slaves, Acknowledge(r) PROVE Goal
  BY <1>6, <1>7, <1>17 DEF Acknowledge, Idle
<1>18. ASSUME NEW r \in Slaves, ReadForPeer(r) PROVE Goal
  BY <1>6, <1>7, <1>18 DEF ReadForPeer, Reading, Idle
<1>19. ASSUME NEW u \in Threads, NEW r \in Slaves, SendFromLog(u, r)
       PROVE  Goal
  BY <1>6, <1>7, <1>19 DEF SendFromLog, Idle
<1>20. CASE UNCHANGED fileVars
  BY <1>6, <1>20 DEF fileVars
<1> QED
  BY <1>8, <1>9, <1>10, <1>11, <1>12, <1>13, <1>14, <1>15, <1>16, <1>17,
     <1>18, <1>19, <1>20, Actions

-----------------------------------------------------------------------------
(* The first cell of a message says how long the batch is.                 *)
LEMMA HeldBatch ==
  ASSUME NEW f, NEW e, NEW n, Holds(Bytes(f, e), BatchOf(e, n))
  PROVE  BatchIn(f, e) = BatchOf(e, n)
<1>1. n \in {i \in Nat : 1 <= i /\ i + 1 <= RecordSize}
  BY SizesAssumption DEF Holds, BatchOf
<1>2. Bytes(f, e)[2] = MsgCell(BatchOf(e, n), 1)
  BY <1>1 DEF Holds, BatchOf
<1>3. f[Offset(e) + 2] = <<"batch", e, n, 1>>
  BY <1>1, <1>2, SizesAssumption DEF Bytes, MsgCell, BatchOf
<1> QED BY <1>3 DEF BatchIn, BatchOf

(* A complete record holds its batch, now and after a step.                *)
LEMMA RecordStays ==
  ASSUME IInv, [FileNext]_fileVars, NEW r \in Replicas, NEW e \in Nat,
         e < Records(r)
  PROVE  /\ Holds(Bytes(file[r], e), Batch(e))
         /\ Bytes(file'[r], e) = Bytes(file[r], e)
         /\ BatchIn(file'[Master], e) = Batch(e)
<1>1. Records(r) \in Nat /\ Records(r) <= Records(Master)
      /\ Records(Master) \in Nat
  BY RecordsHold, ThreadFacts DEF RecordsFacts
<1>2. Holds(Bytes(file[r], e), Batch(e))
  BY <1>1 DEF IInv, RecordInv
<1>3. Bytes(file'[r], e) = Bytes(file[r], e)
  BY CompleteRecord, BytesStay
<1>4. BatchIn(file'[Master], e) = Batch(e)
  BY <1>1, BatchesStay
<1> QED BY <1>2, <1>3, <1>4

LEMMA RecordsGrow ==
  ASSUME IInv, [FileNext]_fileVars, NEW r \in Replicas
  PROVE  Records(r) \in Nat /\ Records(r)' \in Nat /\ Records(r) <= Records(r)'
<1>1. \A u \in Replicas : Records(u) \in Nat
  BY RecordsHold DEF RecordsFacts
<1> QED BY <1>1, RecordsStep, ThreadFacts DEF SameRecords, OneMore

LEMMA RecordsPreserved ==
  ASSUME IInv, [FileNext]_fileVars
  PROVE  RecordInv'
<1> SUFFICES ASSUME NEW r \in Replicas, NEW e \in 0 .. Records(r)' - 1
             PROVE  Holds(Bytes(file'[r], e), BatchIn(file'[Master], e))
  BY DEF RecordInv, Batch
<1>1. Records(r) \in Nat /\ e \in Nat /\ e < Records(r)'
  BY RecordsGrow
<1>2. CASE e < Records(r)
  BY <1>1, <1>2, RecordStays
<1>3. CASE ~(e < Records(r))
  <2>1. ASSUME Determine, OneMore(Master)
        PROVE  Holds(Bytes(file'[r], e), BatchIn(file'[Master], e))
    <3>1. r = Master /\ e = Records(Master) /\ file' = file
      BY <1>1, <1>3, <2>1 DEF OneMore, Determine
    <3>2. PICK n \in Sizes :
            Holds(Bytes(file[Master], Records(Master)),
                  BatchOf(Records(Master), n))
      BY <2>1 DEF Determine, IInv, MasterInv, BatchOf
    <3>3. BatchIn(file[Master], e) = BatchOf(e, n)
      BY <3>1, <3>2, HeldBatch
    <3> QED BY <3>1, <3>2, <3>3
  <2>2. ASSUME NEW s \in Slaves, EndAppend(Sequencer(s)), OneMore(s)
        PROVE  Holds(Bytes(file'[r], e), BatchIn(file'[Master], e))
    <3>1. r = s /\ e = Records(s) /\ file' = file
      BY <1>1, <1>3, <2>2 DEF OneMore, EndAppend
    <3>2. /\ op[Sequencer(s)].epoch = e
          /\ Bytes(file[s], e) = op[Sequencer(s)].bytes
      BY <2>2, <3>1, AppendedBytes, ThreadFacts
    <3>3. Holds(op[Sequencer(s)].bytes, Batch(e))
      BY <2>2, <3>2 DEF EndAppend, IInv, SlaveInv
    <3> QED BY <3>1, <3>2, <3>3 DEF Batch
  <2>3. ~SameRecords
    BY <1>1, <1>3 DEF SameRecords
  <2> QED BY <2>1, <2>2, <2>3, RecordsStep
<1> QED BY <1>2, <1>3
-----------------------------------------------------------------------------
ReadingInv(t) ==
  /\ op[t].kind \in {"read", "send"} => op[t].epoch < Records(OwnerOf(t))
  /\ op[t].kind = "read" =>
       \A k \in 1 .. op[t].done :
         op[t].bytes[k] = Bytes(file[OwnerOf(t)], op[t].epoch)[k]
  /\ op[t].kind = "send" => Carries(batch_msg[t], Batch(op[t].epoch))

(* What a thread has read stays right when others take a step.             *)
LEMMA ReadingStays ==
  ASSUME IInv, [FileNext]_fileVars, NEW t \in Threads, op'[t] = op[t],
         batch_msg'[t] = batch_msg[t]
  PROVE  ReadingInv(t)'
<1> SUFFICES ASSUME op[t].kind \in {"read", "send"}
             PROVE  ReadingInv(t)'
  BY DEF ReadingInv
<1>1. ReadingInv(t)
  BY DEF IInv, ReadInv, ReadingInv
<1> DEFINE e == op[t].epoch
           r == OwnerOf(t)
<1>2. e \in Nat /\ r \in Replicas /\ e < Records(r)
  BY <1>1, ThreadFacts DEF ReadingInv, IInv, FileTypeOK
<1>3. /\ Bytes(file'[r], e) = Bytes(file[r], e)
      /\ BatchIn(file'[Master], e) = Batch(e)
  BY <1>2, RecordStays
<1>4. e < Records(r)'
  BY <1>2, RecordsGrow
<1> QED BY <1>1, <1>3, <1>4 DEF ReadingInv, Batch

LEMMA ReadPreserved ==
  ASSUME IInv, [FileNext]_fileVars
  PROVE  ReadInv'
<1> SUFFICES ASSUME NEW t \in Threads
             PROVE  ReadingInv(t)'
  BY DEF ReadInv, ReadingInv
<1> USE ThreadFacts DEF epoch_ids
<1> /\ op \in [Threads -> [kind : {"idle", "append", "logged", "read", "send"},
                           epoch : 0 .. MaxEpoch, bytes : Buffers,
                           done : 0 .. RecordSize]]
    /\ batch_msg \in [Threads -> Buffers]
  BY DEF IInv, FileTypeOK
<1>1. ASSUME op'[t] = op[t], batch_msg'[t] = batch_msg[t]
      PROVE  ReadingInv(t)'
  BY <1>1, ReadingStays
<1>2. ASSUME op'[t].kind \notin {"read", "send"}
      PROVE  ReadingInv(t)'
  BY <1>2 DEF ReadingInv
<1>3. ASSUME NEW e \in Nat, op'[t] = Reading(e), e < Records(OwnerOf(t))
      PROVE  ReadingInv(t)'
  <2>1. e < Records(OwnerOf(t))'
    BY <1>3, RecordsGrow
  <2>2. op'[t].kind = "read" /\ op'[t].epoch = e /\ op'[t].done = 0
    BY <1>3 DEF Reading
  <2> QED BY <2>1, <2>2 DEF ReadingInv
<1>4. CASE CloseBatch
  BY <1>1, <1>2, <1>4 DEF CloseBatch, Appending
<1>5. CASE Determine
  BY <1>1, <1>2, <1>5 DEF Determine, Idle
<1>6. ASSUME NEW u \in Threads, Open(u) PROVE ReadingInv(t)'
  BY <1>1, <1>6 DEF Open
<1>7. ASSUME NEW u \in Threads, WriteSome(u) PROVE ReadingInv(t)'
  BY <1>1, <1>2, <1>7 DEF WriteSome
<1>8. ASSUME NEW u \in Threads, EndAppend(u) PROVE ReadingInv(t)'
  BY <1>1, <1>2, <1>8 DEF EndAppend
<1>9. ASSUME NEW u \in Threads, ReadSome(u) PROVE ReadingInv(t)'
  <2>1. CASE u = t
    <3> DEFINE r == OwnerOf(t)
               e == op[t].epoch
               Read(n) == [k \in 1 .. RecordSize |->
                             IF k \in op[t].done + 1 .. op[t].done + n
                             THEN file[r][Offset(e) + k] ELSE op[t].bytes[k]]
    <3>1. PICK n \in 1 .. RecordSize - op[t].done :
            op' = [op EXCEPT ![t].done = @ + n, ![t].bytes = Read(n)]
      <4>1. ReadSome(t)
        BY <1>9, <2>1
      <4> QED BY <4>1 DEF ReadSome
    <3>2. ReadingInv(t) /\ op[t].kind = "read" /\ file' = file
      BY <1>9, <2>1 DEF ReadSome, IInv, ReadInv, ReadingInv
    <3>3. e < Records(r)'
      BY <3>2, RecordsGrow DEF ReadingInv
    <3>4. /\ op'[t].kind = "read" /\ op'[t].epoch = e
          /\ op'[t].done = op[t].done + n /\ op'[t].bytes = Read(n)
      BY <3>1, <3>2
    <3>5. \A k \in 1 .. op[t].done + n : Read(n)[k] = Bytes(file[r], e)[k]
      <4> SUFFICES ASSUME NEW k \in 1 .. op[t].done + n
                   PROVE  Read(n)[k] = Bytes(file[r], e)[k]
        OBVIOUS
      <4>1. k \in 1 .. RecordSize
        BY SizesAssumption
      <4>2. CASE k \in op[t].done + 1 .. op[t].done + n
        BY <4>1, <4>2 DEF Bytes
      <4>3. CASE k \in 1 .. op[t].done
        BY <3>2, <4>1, <4>3 DEF ReadingInv
      <4> QED BY <4>2, <4>3
    <3> HIDE DEF Read
    <3>6. op'[t].epoch < Records(OwnerOf(t))'
      BY <3>3, <3>4
    <3>7. \A k \in 1 .. op'[t].done :
            op'[t].bytes[k] = Bytes(file'[OwnerOf(t)], op'[t].epoch)[k]
      BY <3>2, <3>4, <3>5
    <3> QED BY <3>4, <3>6, <3>7 DEF ReadingInv
  <2>2. CASE u # t
    BY <1>1, <1>9, <2>2 DEF ReadSome
  <2> QED BY <2>1, <2>2
<1>10. ASSUME NEW u \in Threads, EndRead(u) PROVE ReadingInv(t)'
  <2>1. CASE u = t
    <3> DEFINE r == OwnerOf(t)
               e == op[t].epoch
    <3>1. /\ op[t].kind = "read" /\ op[t].done = RecordSize
          /\ op'[t].kind = "send" /\ op'[t].epoch = e
          /\ batch_msg'[t] = Contents(op[t].bytes, batch_msg[t])
      BY <1>10, <2>1 DEF EndRead
    <3>2. ReadingInv(t)
      BY DEF IInv, ReadInv, ReadingInv
    <3>3. e \in Nat /\ r \in Replicas /\ e < Records(r)
      BY <3>1, <3>2 DEF ReadingInv
    <3>4. op[t].bytes = Bytes(file[r], e)
      <4>1. \A k \in 1 .. RecordSize : op[t].bytes[k] = Bytes(file[r], e)[k]
        BY <3>1, <3>2 DEF ReadingInv
      <4>2. op[t].bytes \in Buffers /\ Bytes(file[r], e) \in Buffers
        BY <3>3, CompleteRecord
      <4> QED BY <4>1, <4>2, SameBuffers
    <3>5. /\ Holds(op[t].bytes, Batch(e))
          /\ BatchIn(file'[Master], e) = Batch(e)
      BY <3>3, <3>4, RecordStays
    <3>6. Carries(batch_msg'[t], Batch(e))
      BY <3>1, <3>5, HeldIsCarried
    <3>7. e < Records(r)'
      BY <3>3, RecordsGrow
    <3> QED BY <3>1, <3>5, <3>6, <3>7 DEF ReadingInv, Batch
  <2>2. CASE u # t
    BY <1>1, <1>10, <2>2 DEF EndRead
  <2> QED BY <2>1, <2>2
<1>11. ASSUME NEW s \in Senders, ReadToSend(s) PROVE ReadingInv(t)'
  <2>1. CASE t = SenderThread(s)
    <3>1. PICK e \in next_epoch_id[s] .. determined_epoch_id :
            op' = [op EXCEPT ![SenderThread(s)] = Reading(e)]
      BY <1>11 DEF ReadToSend
    <3>2. /\ next_epoch_id[s] \in Nat /\ determined_epoch_id \in Int
          /\ Records(Master) = determined_epoch_id + 1
      BY MaxEpochAssumption, RecordsHold DEF IInv, FileTypeOK, RecordsFacts
    <3>3. e \in Nat /\ e < Records(OwnerOf(t))
      BY <2>1, <3>2
    <3> QED BY <1>3, <2>1, <3>1, <3>3
  <2>2. CASE t # SenderThread(s)
    BY <1>1, <1>11, <2>2 DEF ReadToSend
  <2> QED BY <2>1, <2>2
<1>12. ASSUME NEW s \in Slaves, ReceiveBatch(s) PROVE ReadingInv(t)'
  BY <1>1, <1>2, <1>12 DEF ReceiveBatch, Appending
<1>13. ASSUME NEW s \in Slaves, Acknowledge(s) PROVE ReadingInv(t)'
  BY <1>1, <1>2, <1>13 DEF Acknowledge, Idle
<1>14. ASSUME NEW s \in Slaves, ReadForPeer(s) PROVE ReadingInv(t)'
  <2>1. CASE t = Sequencer(s)
    <3>1. PICK e \in 0 .. next_batch_epoch_id[s] - 1 :
            op' = [op EXCEPT ![Sequencer(s)] = Reading(e)]
      BY <1>14 DEF ReadForPeer
    <3>2. next_batch_epoch_id[s] \in Nat
      BY MaxEpochAssumption DEF IInv, FileTypeOK
    <3>4. op[Sequencer(s)].kind # "append"
      BY <1>14 DEF ReadForPeer, Idle
    <3>5. Records(s) = next_batch_epoch_id[s]
      BY <3>4, RecordsHold DEF RecordsFacts
    <3>3. e \in Nat /\ e < Records(OwnerOf(t))
      BY <2>1, <3>2, <3>5
    <3> QED BY <1>3, <2>1, <3>1, <3>3
  <2>2. CASE t # Sequencer(s)
    BY <1>1, <1>14, <2>2 DEF ReadForPeer
  <2> QED BY <2>1, <2>2
<1>15. ASSUME NEW u \in Threads, NEW s \in Slaves, SendFromLog(u, s)
       PROVE  ReadingInv(t)'
  BY <1>1, <1>2, <1>15 DEF SendFromLog, Idle
<1>16. CASE UNCHANGED fileVars
  BY <1>1, <1>16 DEF fileVars
<1> QED
  BY <1>4, <1>5, <1>6, <1>7, <1>8, <1>9, <1>10, <1>11, <1>12, <1>13, <1>14,
     <1>15, <1>16, Actions

LEMMA NetPreserved ==
  ASSUME IInv, [FileNext]_fileVars
  PROVE  NetInv'
<1> SUFFICES ASSUME NEW m \in net'
             PROVE  \E e \in 0 .. Records(m.from)' - 1 :
                      Carries(m.msg, BatchIn(file'[Master], e))
  BY DEF NetInv, Batch
<1>1. ASSUME NEW r \in Replicas, r = m.from, NEW e \in Nat, e < Records(r),
             Carries(m.msg, Batch(e))
      PROVE  \E i \in 0 .. Records(m.from)' - 1 :
               Carries(m.msg, BatchIn(file'[Master], i))
  <2>1. e \in 0 .. Records(r)' - 1
    BY <1>1, RecordsGrow
  <2>2. BatchIn(file'[Master], e) = Batch(e)
    BY <1>1, RecordStays
  <2> QED BY <1>1, <2>1, <2>2
<1>2. CASE m \in net
  <2>1. m.from \in Replicas
    BY <1>2 DEF IInv, FileTypeOK
  <2>2. PICK e \in 0 .. Records(m.from) - 1 : Carries(m.msg, Batch(e))
    BY <1>2 DEF IInv, NetInv
  <2>3. e \in Nat /\ e < Records(m.from)
    BY <2>1, <2>2, RecordsGrow
  <2> QED BY <1>1, <2>1, <2>2, <2>3
<1>3. ASSUME NEW t \in Threads, NEW s \in Slaves, SendFromLog(t, s),
             m \notin net
      PROVE  \E i \in 0 .. Records(m.from)' - 1 :
               Carries(m.msg, BatchIn(file'[Master], i))
  <2>1. m.from = OwnerOf(t) /\ m.msg = batch_msg[t]
    BY <1>3 DEF SendFromLog
  <2>2. /\ op[t].epoch < Records(OwnerOf(t))
        /\ Carries(batch_msg[t], Batch(op[t].epoch))
        /\ op[t].epoch \in Nat
    BY <1>3 DEF SendFromLog, IInv, ReadInv, FileTypeOK
  <2> QED BY <1>1, <2>1, <2>2, ThreadFacts
<1>4. CASE net' = net
  BY <1>2, <1>4
<1> QED
  BY <1>2, <1>3, <1>4, Actions
     DEF CloseBatch, Determine, Open, WriteSome, EndAppend, ReadSome, EndRead,
         ReadToSend, ReceiveBatch, Acknowledge, ReadForPeer, fileVars

-----------------------------------------------------------------------------
LEMMA NetEmpty == FileInit => NetInv
BY DEF FileInit, NetInv

LEMMA InitHolds == FileInit => IInv
<1> SUFFICES ASSUME FileInit
             PROVE  IInv
  OBVIOUS
<1> USE ThreadFacts, MaxEpochAssumption, SizesAssumption DEF FileInit
<1>1. FileTypeOK
  <2>1. Idle \in [kind : {"idle", "append", "logged", "read", "send"},
                  epoch : 0 .. MaxEpoch, bytes : Buffers,
                  done : 0 .. RecordSize]
    BY EmptyBufferType DEF Idle
  <2>2. <<>> \in Seq(FileCells)
    OBVIOUS
  <2> QED BY <2>1, <2>2, EmptyBufferType DEF FileTypeOK
<1>2. \A t \in Threads : op[t] = Idle /\ op[t].kind = "idle"
  BY DEF Idle
<1>3. KindInv
  BY <1>2 DEF KindInv
<1>4. \A r \in Replicas : Records(r) = 0 /\ Len(file[r]) = 0
  BY <1>2 DEF Records, Replicas
<1>5. Offset(0) = 0
  BY DEF Offset
<1>6. MasterInv
  BY <1>2, <1>4, <1>5 DEF MasterInv, AppendInv
<1>7. SlaveInv
  BY <1>2, <1>4, <1>5 DEF SlaveInv, AppendInv
<1>8. RecordInv
  BY <1>4 DEF RecordInv
<1>9. ReadInv
  BY <1>2 DEF ReadInv
<1> QED BY <1>1, <1>3, <1>6, <1>7, <1>8, <1>9, NetEmpty DEF IInv

(* The record that a thread reads is complete, so that there is always     *)
(* something left to read.                                                 *)
LEMMA ReadsComplete == IInv => NeverAtEnd
<1> SUFFICES ASSUME IInv, NEW t \in Threads, op[t].kind = "read"
             PROVE  Available(t) >= RecordSize - op[t].done
  BY DEF NeverAtEnd
<1>1. /\ op[t].epoch \in Nat /\ op[t].done \in Nat
      /\ OwnerOf(t) \in Replicas /\ file[OwnerOf(t)] \in Seq(FileCells)
  BY ThreadFacts DEF IInv, FileTypeOK
<1>2. op[t].epoch < Records(OwnerOf(t))
  BY DEF IInv, ReadInv
<1>3. Offset(op[t].epoch) + RecordSize <= Len(file[OwnerOf(t)])
  BY <1>1, <1>2, CompleteRecord
<1>4. Offset(op[t].epoch) \in Nat
  BY <1>1, OffsetFacts
<1> QED BY <1>1, <1>3, <1>4, SizesAssumption DEF Available

(* In every reachable state each file consists of whole records and what   *)
(* its writer has written of the next, a record of an epoch holds the      *)
(* master's batch of that epoch on every replica, what is read and sent is *)
(* such a batch, and nobody reads at the end of a file (log.c,             *)
(* slave_sequencer.c:87-91, 275-290).                                      *)
THEOREM FilesAreRight == FileSpec => []FileInv
<1>1. FileInit => IInv
  BY InitHolds
<1>2. IInv /\ [FileNext]_fileVars => IInv'
  BY TypePreserved, KindPreserved, MasterPreserved, SlavePreserved,
     RecordsPreserved, ReadPreserved, NetPreserved DEF IInv
<1>3. IInv => FileInv
  BY ReadsComplete DEF FileInv
<1> QED BY <1>1, <1>2, <1>3, PTL DEF FileSpec
-----------------------------------------------------------------------------
(* What the logs and the messages are in the terms of BatchLog.            *)
LEMMA LoggedBatches ==
  ASSUME IInv, NEW r \in Replicas, NEW e \in Nat, e < Records(r)
  PROVE  RecordAt(r, e) = Batch(e)
<1>1. Records(r) \in Nat
  BY RecordsHold DEF RecordsFacts
<1>2. Holds(Bytes(file[r], e), Batch(e))
  BY <1>1 DEF IInv, RecordInv
<1>3. Carries(Contents(Bytes(file[r], e), EmptyBuffer), Batch(e))
  BY <1>2, HeldIsCarried
<1>4. Batch(e) = BatchOf(e, Batch(e).size)
  BY DEF Batch, BatchIn, BatchOf
<1> QED BY <1>3, <1>4, CarriesDecoded DEF RecordAt

Batches == [r \in Replicas |-> [i \in 1 .. Records(r) |->
                                  BatchIn(file[Master], i - 1)]]

LEMMA LoggedIs == IInv => logged = Batches
<1> SUFFICES ASSUME IInv
             PROVE  \A r \in Replicas : \A i \in 1 .. Records(r) :
                      RecordAt(r, i - 1) = BatchIn(file[Master], i - 1)
  BY DEF logged, Batches
<1> TAKE r \in Replicas
<1> TAKE i \in 1 .. Records(r)
<1>1. Records(r) \in Nat
  BY RecordsHold DEF RecordsFacts
<1>2. i - 1 \in Nat /\ i - 1 < Records(r)
  BY <1>1
<1> QED BY <1>2, LoggedBatches DEF Batch

LEMMA LoggedStep ==
  ASSUME IInv, IInv', [FileNext]_fileVars
  PROVE  /\ \A r \in Replicas :
              Len(logged[r]) = Records(r) /\ Records(r) \in Nat
         /\ SameRecords => logged' = logged
         /\ \A s \in Replicas :
              OneMore(s) =>
                logged' = [logged EXCEPT ![s] =
                             Append(@, BatchIn(file'[Master], Records(s)))]
<1>1. logged = [r \in Replicas |->
                  [i \in 1 .. Records(r) |-> BatchIn(file[Master], i - 1)]]
  BY LoggedIs DEF Batches
<1>2. logged' = [r \in Replicas |->
                   [i \in 1 .. Records(r)' |-> BatchIn(file'[Master], i - 1)]]
  <2>1. (logged = Batches)'
    BY LoggedIs, PTL
  <2> QED BY <2>1 DEF Batches
<1>3. \A r \in Replicas : Records(r) \in Nat
  BY RecordsGrow
<1>4. \A r \in Replicas : \A i \in 1 .. Records(r) :
        BatchIn(file'[Master], i - 1) = BatchIn(file[Master], i - 1)
  <2> TAKE r \in Replicas
  <2> TAKE i \in 1 .. Records(r)
  <2>1. i - 1 \in Nat /\ i - 1 < Records(r)
    BY <1>3
  <2> QED BY <2>1, RecordStays DEF Batch
<1>5. ASSUME SameRecords
      PROVE  logged' = logged
  BY <1>1, <1>2, <1>4, <1>5 DEF SameRecords
<1>6. ASSUME NEW s \in Replicas, OneMore(s)
      PROVE  logged' = [logged EXCEPT ![s] =
                          Append(@, BatchIn(file'[Master], Records(s)))]
  <2>1. logged'[s] = Append(logged[s], BatchIn(file'[Master], Records(s)))
    <3> DEFINE n == Records(s)
               f == [i \in 1 .. n |-> BatchIn(file'[Master], i - 1)]
    <3>1. n \in Nat /\ Records(s)' = n + 1
      BY <1>3, <1>6 DEF OneMore
    <3>2. logged[s] = f
      BY <1>1, <1>4
    <3>3. logged'[s] = [i \in 1 .. n + 1 |-> BatchIn(file'[Master], i - 1)]
      BY <1>2, <3>1
    <3> HIDE DEF n
    <3>4. Append(f, BatchIn(file'[Master], n))
            = [i \in 1 .. n + 1 |-> BatchIn(file'[Master], i - 1)]
      BY <3>1
    <3> QED BY <3>2, <3>3, <3>4 DEF n
  <2>2. \A r \in Replicas \ {s} : logged'[r] = logged[r]
    BY <1>1, <1>2, <1>4, <1>6 DEF OneMore
  <2> QED BY <1>1, <1>2, <2>1, <2>2
<1>7. \A r \in Replicas : Len(logged[r]) = Records(r)
  BY <1>1, <1>3
<1> QED BY <1>3, <1>5, <1>6, <1>7

(* The files and the messages implement the log: Determine is the abstract *)
(* one, the end of append_log on a slave is Follow, and what is sent is    *)
(* Send; no other step is seen, above all no part of a write or a read     *)
(* (log.c, BatchLog).                                                      *)
THEOREM LogRefinement == FileSpec => ImplementsBatchLog
<1>1. FileInit => Log!Init
  <2> SUFFICES ASSUME FileInit
               PROVE  Log!Init
    OBVIOUS
  <2>1. \A r \in Replicas : Records(r) = 0
    BY ThreadFacts DEF FileInit, Idle, Records, Replicas
  <2>2. logged = [r \in Replicas |-> <<>>]
    BY <2>1 DEF logged
  <2>3. fromLog = [r \in Replicas |-> {}]
    BY DEF FileInit, fromLog
  <2> QED BY <2>2, <2>3 DEF Log!Init
<1>2. ASSUME IInv, IInv', [FileNext]_fileVars
      PROVE  [Log!Next]_(Log!vars)
  <2>1. CASE net' = net
    <3>1. fromLog' = fromLog
      BY <2>1 DEF fromLog
    <3>2. CASE SameRecords
      BY <1>2, <3>1, <3>2, LoggedStep DEF Log!vars
    <3>3. ASSUME Determine, OneMore(Master)
          PROVE  Log!Determine
      <4>1. PICK n \in Sizes :
              Holds(Bytes(file[Master], Records(Master)),
                    BatchOf(Records(Master), n))
        BY <1>2, <3>3 DEF Determine, IInv, MasterInv, BatchOf
      <4>2. BatchIn(file'[Master], Records(Master))
              = BatchOf(Records(Master), n)
        BY <3>3, <4>1, HeldBatch DEF Determine
      <4>3. /\ Len(logged[Master]) = Records(Master)
            /\ logged' = [logged EXCEPT ![Master] =
                            Append(@, BatchIn(file'[Master], Records(Master)))]
        BY <1>2, <3>3, LoggedStep, ThreadFacts
      <4>4. logged' = [logged EXCEPT ![Master] =
                         Append(@, [epoch_id |-> Len(@), size |-> n])]
        BY <4>2, <4>3 DEF BatchOf
      <4> QED BY <3>1, <4>4 DEF Log!Determine
    <3>4. ASSUME NEW s \in Slaves, EndAppend(Sequencer(s)), OneMore(s)
          PROVE  Log!Follow(s)
      <4>1. s \in Replicas /\ s # Master /\ Master \in Replicas
        BY ThreadFacts
      <4>2. /\ Len(logged[s]) = Records(s) /\ Records(s) \in Nat
            /\ Len(logged[Master]) = Records(Master)
            /\ Records(Master) \in Nat
            /\ logged' = [logged EXCEPT ![s] =
                            Append(@, BatchIn(file'[Master], Records(s)))]
        BY <1>2, <3>4, <4>1, LoggedStep
      <4>3. Records(s) < Records(Master)
        <5>1. Records(s)' <= Records(Master)'
          <6>1. RecordsFacts'
            BY <1>2, RecordsHold, PTL
          <6> QED BY <4>1, <6>1 DEF RecordsFacts
        <5> QED BY <3>4, <4>1, <4>2, <5>1 DEF OneMore
      <4>4. logged[Master][Records(s) + 1] = BatchIn(file[Master], Records(s))
        BY <1>2, <4>1, <4>2, <4>3, LoggedIs DEF Batches
      <4>5. file' = file
        BY <3>4 DEF EndAppend
      <4>6. logged' = [logged EXCEPT ![s] =
                         Append(@, logged[Master][Len(@) + 1])]
        BY <4>2, <4>4, <4>5
      <4> QED BY <3>1, <4>1, <4>2, <4>3, <4>6 DEF Log!Follow
    <3> QED
      BY <1>2, <3>2, <3>3, <3>4, RecordsStep, ThreadFacts DEF Log!Next
  <2>2. ASSUME NEW t \in Threads, NEW s \in Slaves, SendFromLog(t, s)
        PROVE  Log!Send(OwnerOf(t))
    <3> DEFINE r == OwnerOf(t)
               e == op[t].epoch
    <3>1. /\ e \in Nat /\ e < Records(r) /\ Carries(batch_msg[t], Batch(e))
          /\ r \in Replicas
      BY <1>2, <2>2, ThreadFacts DEF SendFromLog, IInv, ReadInv, FileTypeOK
    <3>2. DecodeBatch(batch_msg[t]) = Batch(e)
      <4>1. Batch(e) = BatchOf(e, Batch(e).size)
        BY DEF Batch, BatchIn, BatchOf
      <4> QED BY <3>1, <4>1, CarriesDecoded
    <3>3. logged' = logged
      <4>1. op[t].kind = "send" /\ op'[t].kind = "idle"
        BY <1>2, <2>2 DEF SendFromLog, Idle, IInv, FileTypeOK
      <4>2. ASSUME Determine
            PROVE  FALSE
        <5>1. op[EpochThread].kind = "logged"
          BY <4>2 DEF Determine
        <5>2. op'[t] = op[t]
          BY <4>1, <4>2, <5>1 DEF Determine
        <5> QED BY <4>1, <5>2
      <4>3. ASSUME NEW u \in Slaves, EndAppend(Sequencer(u))
            PROVE  FALSE
        <5>1. op[Sequencer(u)].kind = "append"
          BY <4>3 DEF EndAppend
        <5>2. op'[t] = op[t]
          BY <1>2, <4>1, <4>3, <5>1 DEF EndAppend, IInv, FileTypeOK
        <5> QED BY <4>1, <5>2
      <4> QED BY <1>2, <4>2, <4>3, RecordsStep, LoggedStep
    <3>4. /\ e + 1 \in 1 .. Len(logged[r])
          /\ logged[r][e + 1] = Batch(e)
      BY <1>2, <3>1, LoggedIs, LoggedStep DEF Batch, Batches
    <3>5. net' = net \cup {[from |-> r, to |-> s, msg |-> batch_msg[t]]}
      BY <2>2 DEF SendFromLog
    <3>6. fromLog' = [fromLog EXCEPT ![r] = @ \cup {Batch(e)}]
      <4> DEFINE m0 == [from |-> r, to |-> s, msg |-> batch_msg[t]]
                 Of(n, p) ==
                   {DecodeBatch(m.msg) : m \in {x \in n : x.from = p}}
      <4>1. m0.from = r /\ m0.msg = batch_msg[t]
        OBVIOUS
      <4> HIDE DEF m0
      <4>2. Of(net \cup {m0}, r) = Of(net, r) \cup {Batch(e)}
        BY <3>2, <4>1
      <4>3. \A p \in Replicas \ {r} : Of(net \cup {m0}, p) = Of(net, p)
        BY <4>1
      <4>4. /\ fromLog = [p \in Replicas |-> Of(net, p)]
            /\ fromLog' = [p \in Replicas |-> Of(net \cup {m0}, p)]
        BY <3>5 DEF fromLog, m0
      <4> HIDE DEF Of
      <4> QED BY <3>1, <4>2, <4>3, <4>4
    <3> QED BY <3>3, <3>4, <3>6 DEF Log!Send
  <2>3. \/ net' = net
        \/ \E t \in Threads, s \in Slaves : SendFromLog(t, s)
    BY <1>2, Actions
       DEF CloseBatch, Determine, Open, WriteSome, EndAppend, ReadSome,
           EndRead, ReadToSend, ReceiveBatch, Acknowledge, ReadForPeer,
           fileVars
  <2> QED BY <2>1, <2>2, <2>3, ThreadFacts DEF Log!Next
<1>3. FileSpec => []IInv
  BY FilesAreRight, PTL DEF FileInv
<1> QED BY <1>1, <1>2, <1>3, PTL DEF FileSpec, ImplementsBatchLog, Log!Spec
=============================================================================
