------------------------- MODULE TransactionsProofs -------------------------
(***************************************************************************)
(* What Transactions promises the clients, proved for any slaves, records, *)
(* bounds and finite set of clients.                                       *)
(*                                                                         *)
(* A transaction is followed by its place: the batch it is in and the      *)
(* position in it.  Places are only ever added (KeepsPlaces), and what a   *)
(* slave has executed stays executed (KeepsExecuted); the lemmas named     *)
(* ...Frame carry the parts of IInv over steps that do no more than that.  *)
(* Then there is one lemma for each action.                                *)
(***************************************************************************)
EXTENDS Transactions, ShortsProofs, FiniteSetTheorems, SequenceTheorems, TLAPS

-----------------------------------------------------------------------------
(* Where transactions are.  Only AddToBatch puts one somewhere; no step    *)
(* moves it.                                                               *)
SamePlaces ==
  /\ AllPlaces' = AllPlaces
  /\ \A p \in AllPlaces : TxAt(p)' = TxAt(p)

(* No transaction is taken away, and what is executed stays executed.      *)
KeepsPlaces ==
  \A p \in AllPlaces : p \in AllPlaces' /\ TxAt(p)' = TxAt(p)

KeepsExecuted ==
  \A s \in Slaves : \A p \in AllPlaces : Executed(s, p) => Executed(s, p)'

(* The bounds are numbers.                                                 *)
LEMMA Bounds ==
  MaxTxId \in Nat /\ MAX_BATCH_SIZE \in Nat /\ MAX_BATCH_SIZE > 0
BY SMTT(60), BoundAssumption, SizeAssumption

LEMMA NonEmptySeq ==
  ASSUME NEW S, NEW q \in Seq(S), q # <<>>
  PROVE  /\ Len(q) \in Nat /\ Len(q) >= 1 /\ q[1] \in S
         /\ Len(q) <= 1 => Len(q) = 1
<1>1. Len(q) \in Nat /\ Len(q) >= 1 /\ q[1] \in S
  OBVIOUS
<1>2. ASSUME NEW n \in Nat, n >= 1, n <= 1
      PROVE  n = 1
  BY <1>2
<1> QED BY <1>1, <1>2

(* Putting one element at the end.                                         *)
LEMMA ConcatOne ==
  ASSUME NEW S, NEW q \in Seq(S), NEW r \in Seq(S), Len(r) = 1
  PROVE  /\ q \o r \in Seq(S) /\ Len(q \o r) = Len(q) + 1
         /\ \A j \in 1 .. Len(q) : (q \o r)[j] = q[j]
         /\ (q \o r)[Len(q) + 1] = r[1]
BY SMTT(60), ConcatProperties

(* A place is a batch and a position, and what is there is a transaction.  *)
LEMMA PlaceType ==
  ASSUME TypeOK, NEW p \in AllPlaces
  PROVE  /\ p = <<p[1], p[2]>> /\ p[1] \in Nat /\ p[2] \in Nat
         /\ p[1] >= 1 /\ p[1] <= LastBatch /\ p[2] >= 1
         /\ p[2] <= Len(TxsAt(p[1]))
         /\ TxAt(p) \in WriteTxs
<1>1. p \in (1 .. LastBatch) \X (1 .. MAX_BATCH_SIZE) /\ p[2] <= Len(TxsAt(p[1]))
  BY DEF AllPlaces
<1>2. LastBatch \in Nat
  BY DEF TypeOK, LastBatch
<1>3. ASSUME NEW i \in 1 .. LastBatch
      PROVE  TxsAt(i) \in Seq(WriteTxs)
  <2> USE <1>2 DEF TypeOK
  <2>1. CASE i <= Len(determined)
    <3>1. i \in 1 .. Len(determined)
      BY <2>1
    <3>2. determined[i] \in Batches
      BY <3>1
    <3>3. determined[i].tx_set \in Seq(WriteTxs)
      BY <3>2 DEF Batches
    <3> QED BY <3>3, <2>1 DEF TxsAt
  <2>2. CASE i > Len(determined) /\ i < LastBatch
    <3>1. 1 \in 1 .. Len(rev_batch)
      BY <2>2 DEF LastBatch
    <3>2. rev_batch[1] \in Batches
      BY <3>1
    <3>3. rev_batch[1].tx_set \in Seq(WriteTxs)
      BY <3>2 DEF Batches
    <3> QED BY <2>2, <3>3 DEF TxsAt
  <2>3. CASE i = LastBatch
    BY <2>3 DEF TxsAt, LastBatch
  <2> QED BY <2>1, <2>2, <2>3
<1> QED BY <1>1, <1>2, <1>3, Bounds DEF TxAt

(* If no batch changes, neither do the places.                             *)
LEMMA UnchangedPlaces ==
  ASSUME UNCHANGED <<batch, rev_batch, determined>>
  PROVE  SamePlaces /\ LastBatch' = LastBatch
BY DEF SamePlaces, AllPlaces, TxAt, TxsAt, LastBatch

(* The places of each transaction are the same then.                       *)
LEMMA SamePlacesOfEach ==
  ASSUME SamePlaces, NEW c, NEW id
  PROVE  Places(c, id)' = Places(c, id)
BY DEF SamePlaces, Places

LEMMA CutBatchPlaces ==
  ASSUME TypeOK, CutBatch
  PROVE  /\ SamePlaces
         /\ LastBatch \in Nat /\ LastBatch' = LastBatch + 1
         /\ \A i \in 1 .. LastBatch : TxsAt(i)' = TxsAt(i)
         /\ \A i : i = LastBatch + 1 => TxsAt(i)' = <<>>
<1>1. /\ rev_batch = <<>> /\ Len(rev_batch') = 1 /\ rev_batch'[1].tx_set = batch
      /\ batch' = <<>> /\ determined' = determined /\ Len(determined) \in Nat
  BY DEF TypeOK, CutBatch, orderVars
<1>2. LastBatch \in Nat /\ LastBatch' = LastBatch + 1 /\ LastBatch = Len(determined) + 1
  BY <1>1 DEF LastBatch
<1>3. \A i \in 1 .. LastBatch : TxsAt(i)' = TxsAt(i)
  BY <1>1, <1>2 DEF TxsAt
<1>4. \A i : i = LastBatch + 1 => TxsAt(i)' = <<>>
  BY <1>1, <1>2 DEF TxsAt
<1>5. \A p : p \in AllPlaces' <=> p \in AllPlaces
  <2> SUFFICES ASSUME NEW p PROVE p \in AllPlaces' <=> p \in AllPlaces
    OBVIOUS
  <2>1. CASE p[1] = LastBatch + 1
    <3>1. Len(TxsAt(p[1])') = 0
      BY <1>4, <2>1
    <3> QED BY <2>1, <3>1, <1>2, Bounds DEF AllPlaces
  <2>2. CASE p[1] # LastBatch + 1
    BY <2>2, <1>2, <1>3 DEF AllPlaces
  <2> QED BY <2>1, <2>2
<1>6. SamePlaces
  BY <1>2, <1>3, <1>5 DEF SamePlaces, AllPlaces, TxAt
<1> QED BY <1>2, <1>3, <1>4, <1>6

LEMMA DeterminePlaces ==
  ASSUME TypeOK, Determine
  PROVE  /\ SamePlaces
         /\ LastBatch' = LastBatch
         /\ \A i \in 1 .. LastBatch : TxsAt(i)' = TxsAt(i)
<1> USE DEF TypeOK
<1>1. LastBatch \in Nat /\ LastBatch' = LastBatch /\ LastBatch = Len(determined) + 2
  BY DEF Determine, LastBatch
<1>2. ASSUME NEW i \in 1 .. LastBatch
      PROVE  TxsAt(i)' = TxsAt(i)
  BY <1>1 DEF TxsAt, Determine, LastBatch
<1> QED BY <1>1, <1>2 DEF SamePlaces, AllPlaces, TxAt

(* The place AddToBatch fills.                                             *)
FreePlace == <<LastBatch, Len(batch) + 1>>

LEMMA AddToBatchPlaces ==
  ASSUME TypeOK, NEW c \in Clients, AddToBatch(c)
  PROVE  /\ FreePlace \notin AllPlaces
         /\ AllPlaces' = AllPlaces \cup {FreePlace}
         /\ \A p \in AllPlaces : TxAt(p)' = TxAt(p)
         /\ \A p : p = FreePlace => TxAt(p)' = adding[c][1]
         /\ adding[c][1] \in WriteTxs
         /\ LastBatch' = LastBatch
<1>1. /\ batch \in Seq(WriteTxs) /\ adding[c] \in Seq(WriteTxs)
      /\ Len(adding[c]) <= 1 /\ adding[c] # <<>> /\ Len(batch) < MAX_BATCH_SIZE
      /\ batch' = batch \o adding[c]
      /\ determined' = determined /\ rev_batch' = rev_batch
      /\ Len(determined) \in Nat /\ Len(rev_batch) \in Nat
  BY DEF TypeOK, AddToBatch, orderVars
<1>2. Len(adding[c]) = 1 /\ adding[c][1] \in WriteTxs
  <2>1. /\ Len(adding[c]) <= 1 => Len(adding[c]) = 1
        /\ adding[c][1] \in WriteTxs
    BY <1>1, NonEmptySeq
  <2>2. Len(adding[c]) <= 1
    BY <1>1
  <2> QED BY <2>1, <2>2
<1>3. /\ Len(batch') = Len(batch) + 1
      /\ \A j \in 1 .. Len(batch) : batch'[j] = batch[j]
      /\ batch'[Len(batch) + 1] = adding[c][1]
  BY <1>1, <1>2, ConcatOne
<1>4. /\ LastBatch \in Nat /\ LastBatch' = LastBatch
      /\ Len(determined) < LastBatch
  BY <1>1 DEF LastBatch
<1>5. \A i : i \in 1 .. LastBatch /\ i # LastBatch => TxsAt(i)' = TxsAt(i)
  BY <1>1, <1>4 DEF TxsAt
<1>6. \A i : i = LastBatch => TxsAt(i)' = batch' /\ TxsAt(i) = batch
  BY <1>1, <1>4 DEF TxsAt
<1>7. FreePlace \notin AllPlaces
  BY <1>1, <1>4, <1>6 DEF AllPlaces, FreePlace
<1>8. \A p : p \in AllPlaces' <=> p \in AllPlaces \/ p = FreePlace
  <2> SUFFICES ASSUME NEW p
               PROVE  p \in AllPlaces' <=> p \in AllPlaces \/ p = FreePlace
    OBVIOUS
  <2>1. CASE p[1] = LastBatch
    <3>1. Len(TxsAt(p[1])') = Len(batch) + 1 /\ Len(TxsAt(p[1])) = Len(batch)
      BY <1>3, <1>6, <2>1
    <3>2. Len(batch) \in Nat
      BY <1>1
    <3> QED BY SMTT(60), <2>1, <3>1, <3>2, <1>1, <1>4, Bounds DEF AllPlaces, FreePlace
  <2>2. CASE p[1] # LastBatch
    BY <2>2, <1>4, <1>5 DEF AllPlaces, FreePlace
  <2> QED BY <2>1, <2>2
<1>9. ASSUME NEW p \in AllPlaces
      PROVE  TxAt(p)' = TxAt(p)
  <2>1. /\ p[1] \in 1 .. LastBatch /\ p[2] \in 1 .. MAX_BATCH_SIZE
        /\ p[2] <= Len(TxsAt(p[1]))
    BY DEF AllPlaces
  <2>2. CASE p[1] = LastBatch
    <3>1. p[2] \in 1 .. Len(batch)
      BY <1>1, <1>6, <2>1, <2>2, Bounds
    <3> QED BY <1>3, <1>6, <2>2, <3>1 DEF TxAt
  <2>3. CASE p[1] # LastBatch
    BY <1>5, <2>1, <2>3 DEF TxAt
  <2> QED BY <2>2, <2>3
<1>10. ASSUME NEW p, p = FreePlace
       PROVE  TxAt(p)' = adding[c][1]
  <2>1. p[1] = LastBatch /\ p[2] = Len(batch) + 1
    BY <1>10 DEF FreePlace
  <2> QED BY <1>3, <1>6, <2>1 DEF TxAt
<1> QED BY <1>2, <1>4, <1>7, <1>8, <1>9, <1>10

-----------------------------------------------------------------------------
(* What a step that moves no transaction leaves as it was.                 *)
LEMMA SameKeeps ==
  ASSUME SamePlaces
  PROVE  KeepsPlaces
BY DEF SamePlaces, KeepsPlaces

LEMMA SameExecuted ==
  ASSUME UNCHANGED exec
  PROVE  /\ KeepsExecuted
         /\ \A s, p : Executed(s, p)' <=> Executed(s, p)
BY DEF Executed, KeepsExecuted

(* A transaction that is done stays done.                                  *)
LEMMA DoneStays ==
  ASSUME KeepsPlaces, KeepsExecuted, NEW c \in Clients, NEW id, Done(c, id)
  PROVE  Done(c, id)'
<1>1. PICK p \in Places(c, id) : Executed(Home[c], p)
  BY DEF Done
<1>2. p \in Places(c, id)' /\ p \in AllPlaces
  BY <1>1 DEF Places, KeepsPlaces
<1>3. Home[c] \in Slaves
  BY HomeAssumption
<1> QED BY <1>1, <1>2, <1>3 DEF Done, KeepsExecuted

(* What is known of a transaction stays known while its client's thread    *)
(* is at the same request.                                                 *)
LEMMA KnownStays ==
  ASSUME KeepsPlaces, KeepsExecuted, NEW x, x.client \in Clients, IsKnown(x),
         tx'[x.client] = tx[x.client]
  PROVE  IsKnown(x)'
<1>1. Done(x.client, x.id) => Done(x.client, x.id)'
  BY DoneStays
<1> QED BY <1>1 DEF IsKnown, WriteTx

(* What is in the network, at the master and in the batches.               *)
LEMMA KnownFrame ==
  ASSUME TypeOK, KnownInv, SamePlaces, UNCHANGED adding,
         \A x \in WriteTxs : IsKnown(x) => IsKnown(x)',
         \A x \in addNet' : x \in addNet \/ IsKnown(x)'
  PROVE  KnownInv'
<1>1. \A p \in AllPlaces : TxAt(p) \in WriteTxs
  BY PlaceType
<1>2. \A d \in Clients : adding[d] # <<>> => adding[d][1] \in WriteTxs
  BY NonEmptySeq DEF TypeOK
<1>3. \A x \in addNet : x \in WriteTxs
  BY DEF TypeOK
<1> QED BY <1>1, <1>2, <1>3 DEF KnownInv, SamePlaces

LEMMA OrderFrame ==
  ASSUME OrderInv, UNCHANGED <<batch, rev_batch, determined, handed, exec>>
  PROVE  OrderInv'
BY DEF OrderInv, LastBatch, TxsAt, HasBatch, CurrentBatch, HasTx

LEMMA WrittenFrame ==
  ASSUME SamePlaces, UNCHANGED exec, NEW s, NEW k
  PROVE  WrittenPlaces(s, k)' = WrittenPlaces(s, k)
BY SameExecuted DEF SamePlaces, WrittenPlaces

LEMMA StorageFrame ==
  ASSUME StorageInv, SamePlaces, UNCHANGED <<exec, storage>>
  PROVE  StorageInv'
BY WrittenFrame DEF StorageInv

LEMMA MasterFrame ==
  ASSUME MasterInv, SamePlaces, UNCHANGED <<recieved_tx_id, adding>>,
         ackAddNet' \subseteq ackAddNet,
         \A c \in Clients : recieved_tx_id[c] <= tx'[c].id
  PROVE  MasterInv'
<1>1. \A c, id : Places(c, id)' = Places(c, id) /\ Pending(c, id)' = Pending(c, id)
  BY SamePlacesOfEach DEF Pending
<1> QED BY <1>1 DEF MasterInv, SamePlaces

LEMMA FloorFrame ==
  ASSUME FloorInv, SamePlaces, UNCHANGED <<floor, reported>>,
         \A c \in Clients : tx'[c].type = tx[c].type /\ tx'[c].id = tx[c].id
  PROVE  FloorInv'
BY SamePlacesOfEach DEF FloorInv

(* What a client was told stays true.                                      *)
LEMMA AnsweredStays ==
  ASSUME TypeOK, AnsweredWriteIsDone, KeepsPlaces, KeepsExecuted,
         Len(determined) <= Len(determined'), Len(determined') \in Nat,
         NEW c \in Clients, tx'[c] = tx[c],
         tx[c].type = "WRITE_ONLY", tx[c].complete_flag = 1
  PROVE  \E p \in Places(c, tx[c].id)' :
           /\ p[1] <= Len(determined')
           /\ p[1] = tx'[c].assigned_epoch_id + 1
           /\ Executed(Home[c], p)'
<1>1. PICK p \in Places(c, tx[c].id) : /\ p[1] <= Len(determined)
                                      /\ p[1] = tx[c].assigned_epoch_id + 1
                                      /\ Executed(Home[c], p)
  BY DEF AnsweredWriteIsDone
<1>2. p \in AllPlaces
  BY <1>1 DEF Places
<1>3. p \in Places(c, tx[c].id)'
  BY <1>1, <1>2 DEF Places, KeepsPlaces
<1>4. Executed(Home[c], p)'
  BY <1>1, <1>2, HomeAssumption DEF KeepsExecuted
<1>5. Len(determined) \in Nat /\ p[1] \in Nat
  BY SMTT(60), <1>2, PlaceType DEF TypeOK
<1> QED BY <1>1, <1>3, <1>4, <1>5

LEMMA AnsweredFrame ==
  ASSUME TypeOK, AnsweredWriteIsDone, KeepsPlaces, KeepsExecuted,
         determined' = determined,
         \A c \in Clients : tx'[c].type = "WRITE_ONLY" /\ tx'[c].complete_flag = 1
                            => tx'[c] = tx[c]
  PROVE  AnsweredWriteIsDone'
<1>1. Len(determined) \in Nat /\ Len(determined) <= Len(determined)
  BY DEF TypeOK
<1>2. ASSUME NEW c \in Clients, tx'[c].type = "WRITE_ONLY", tx'[c].complete_flag = 1
      PROVE  \E p \in Places(c, tx[c].id)' :
               /\ p[1] <= Len(determined')
               /\ p[1] = tx'[c].assigned_epoch_id + 1
               /\ Executed(Home[c], p)'
  BY <1>1, <1>2, AnsweredStays
<1> QED BY <1>2 DEF AnsweredWriteIsDone

(* Who waits for the read scheduler is a client.                           *)
LEMMA ReaderType ==
  ASSUME TypeOK, NEW s \in Slaves, NEW i \in 1 .. Len(read_tx_buffer[s])
  PROVE  read_tx_buffer[s][i] \in Clients
BY DEF TypeOK

LEMMA FinitePlaces ==
  ASSUME TypeOK, NEW s, NEW k
  PROVE  IsFiniteSet(AllPlaces) /\ IsFiniteSet(WrittenPlaces(s, k))
<1>1. LastBatch \in Nat
  BY DEF TypeOK, LastBatch
<1>2. IsFiniteSet((1 .. LastBatch) \X (1 .. MAX_BATCH_SIZE))
  <2>1. IsFiniteSet(1 .. LastBatch) /\ IsFiniteSet(1 .. MAX_BATCH_SIZE)
    BY <1>1, Bounds, FS_Interval
  <2> QED BY <2>1, FS_Product
<1>3. IsFiniteSet(AllPlaces)
  BY <1>2, FS_Subset DEF AllPlaces
<1>4. WrittenPlaces(s, k) \in SUBSET AllPlaces
  BY DEF WrittenPlaces
<1> QED BY <1>3, <1>4, FS_Subset

LEMMA OwnWritesFrame ==
  ASSUME SamePlaces, NEW c,
         tx'[c].id = tx[c].id, tx'[c].key = tx[c].key
  PROVE  OwnWrites(c)' = OwnWrites(c)
BY SamePlacesOfEach DEF OwnWrites, SamePlaces, Places

(* A read that was answered stays true when its slave writes more.         *)
LEMMA ReadsStay ==
  ASSUME TypeOK, ReadsOwnWrites,
         \A c \in Clients :
           tx'[c].type = "READ_ONLY" /\ tx'[c].complete_flag = 1
             => tx'[c] = tx[c] /\ OwnWrites(c)' = OwnWrites(c),
         \A s \in Slaves : \A k :
           \/ WrittenPlaces(s, k)' = WrittenPlaces(s, k)
           \/ \E p : WrittenPlaces(s, k)' = WrittenPlaces(s, k) \cup {p}
  PROVE  ReadsOwnWrites'
<1> SUFFICES ASSUME NEW c \in Clients, tx'[c].type = "READ_ONLY",
                    tx'[c].complete_flag = 1
             PROVE  \E n \in CountsToRead(c)' : tx'[c].value = Short(n)
  BY DEF ReadsOwnWrites
<1> DEFINE W == WrittenPlaces(Home[c], tx[c].key)
<1>1. tx'[c] = tx[c] /\ OwnWrites(c)' = OwnWrites(c) /\ Home[c] \in Slaves
  BY HomeAssumption
<1>2. Cardinality(W) \in Nat /\ Cardinality(W') \in Nat
      /\ Cardinality(W) <= Cardinality(W')
  <2>1. IsFiniteSet(W)
    BY FinitePlaces
  <2>2. W' = W \/ \E p : W' = W \cup {p}
    <3>1. ASSUME NEW k, k = tx[c].key
          PROVE  W' = W \/ \E p : W' = W \cup {p}
      <4>1. WrittenPlaces(Home[c], k)' = W'
        BY <1>1, <3>1 DEF WrittenPlaces
      <4>2. WrittenPlaces(Home[c], k) = W
        BY <3>1
      <4>3. \/ WrittenPlaces(Home[c], k)' = WrittenPlaces(Home[c], k)
            \/ \E p : WrittenPlaces(Home[c], k)'
                        = WrittenPlaces(Home[c], k) \cup {p}
        BY <1>1
      <4> HIDE DEF W
      <4> QED BY <4>1, <4>2, <4>3
    <3> QED BY <3>1
  <2> HIDE DEF W
  <2>3. CASE W' = W
    BY <2>1, <2>3, FS_CardinalityType
  <2>4. CASE \E p : W' = W \cup {p}
    <3>1. IsFiniteSet(W') /\ W \subseteq W'
      BY <2>1, <2>4, FS_AddElement
    <3> QED BY <2>1, <3>1, FS_Subset, FS_CardinalityType
  <2> QED BY <2>2, <2>3, <2>4
<1>3. PICK n \in CountsToRead(c) : tx[c].value = Short(n)
  BY <1>1 DEF ReadsOwnWrites
<1>4. n \in Cardinality(OwnWrites(c)) .. Cardinality(W')
  <2>1. n \in Cardinality(OwnWrites(c)) .. Cardinality(W)
    BY DEF CountsToRead
  <2> HIDE DEF W
  <2> QED BY <1>2, <2>1
<1>5. CountsToRead(c)' = Cardinality(OwnWrites(c)) .. Cardinality(W')
  BY <1>1 DEF CountsToRead
<1> QED BY <1>1, <1>3, <1>4, <1>5

LEMMA ReadsFrame ==
  ASSUME TypeOK, ReadsOwnWrites, SamePlaces, UNCHANGED <<tx, exec>>
  PROVE  ReadsOwnWrites'
BY OwnWritesFrame, WrittenFrame, ReadsStay

(* A step that leaves the threads and the reads alone.                     *)
LEMMA ThreadFrame ==
  ASSUME ThreadInv, ReadInv, UNCHANGED <<thread_pc, tx, wait_for_exe, read_tx_buffer>>
  PROVE  ThreadInv' /\ ReadInv'
<1>1. ThreadInv'
  BY DEF ThreadInv
<1>2. ReadInv'
  BY DEF ReadInv
<1> QED BY <1>1, <1>2

-----------------------------------------------------------------------------
(* The invariant holds at the beginning and after every step.              *)
LEMMA InitInv ==
  ASSUME Init
  PROVE  IInv
<1>1. determined = <<>> /\ handed = [s \in Slaves |-> <<>>]
  BY DEF Init, BO!Init
<1>2. LastBatch = 1 /\ TxsAt(1) = <<>>
  BY <1>1 DEF Init, LastBatch, TxsAt
<1>3. AllPlaces = {}
  BY <1>2, Bounds DEF AllPlaces
<1>4. TypeOK
  BY <1>1, Bounds, HalfAssumption DEF Init, TypeOK, Txs, Values
<1>5. OrderInv
  BY <1>1, <1>2, Bounds DEF Init, OrderInv, HasBatch, HasTx
<1>6. ThreadInv /\ ReadInv
  BY DEF Init, ThreadInv, ReadInv
<1>7. KnownInv /\ MasterInv
  BY <1>3 DEF Init, KnownInv, MasterInv
<1>8. FloorInv /\ AnsweredWriteIsDone /\ ReadsOwnWrites
  BY DEF Init, FloorInv, AnsweredWriteIsDone, ReadsOwnWrites
<1>9. StorageInv
  <2>1. \A s, k : WrittenPlaces(s, k) = {}
    BY <1>3 DEF WrittenPlaces
  <2> QED BY <2>1, FS_EmptySet, ShortOfZero DEF Init, StorageInv
<1> QED BY <1>4, <1>5, <1>6, <1>7, <1>8, <1>9 DEF IInv

LEMMA ResendAddInv ==
  ASSUME IInv, NEW c \in Clients, ResendAdd(c)
  PROVE  IInv'
<1> USE DEF IInv
<1>1. /\ UNCHANGED <<threadVars, ackAddNet, masterVars, orderVars, schedVars,
                     historyVars>>
      /\ thread_pc[c] = "request_write" /\ addNet' = addNet \cup {WriteTx(c)}
  BY DEF ResendAdd
<1> USE DEF threadVars, masterVars, orderVars, schedVars, historyVars
<1>2. SamePlaces /\ KeepsPlaces /\ KeepsExecuted
  BY <1>1, UnchangedPlaces, SameKeeps, SameExecuted
<1>3. tx[c].type = "WRITE_ONLY" /\ tx[c].id >= 0 /\ tx[c].key \in Keys
  BY <1>1 DEF ThreadInv
<1>4. WriteTx(c) \in WriteTxs /\ tx[c].id \in Int
  BY <1>3, Bounds DEF TypeOK, Txs, WriteTx, WriteTxs, TxIds
<1>5. TypeOK'
  BY <1>1, <1>4 DEF TypeOK
<1>6. OrderInv'
  BY <1>1, OrderFrame
<1>7. ThreadInv' /\ ReadInv'
  BY <1>1 DEF ThreadInv, ReadInv
<1>8. KnownInv'
  <2>1. IsKnown(WriteTx(c))
    <3>1. tx[c].complete_flag = 1 => Done(c, tx[c].id)
      BY <1>3 DEF AnsweredWriteIsDone, Done
    <3> QED BY <3>1, <1>3, <1>4 DEF IsKnown, WriteTx
  <2>2. \A x \in WriteTxs : IsKnown(x) => IsKnown(x)'
    BY <1>1, <1>2, KnownStays DEF WriteTxs
  <2>3. \A x : x = WriteTx(c) => IsKnown(x)'
    BY <1>4, <2>1, <2>2
  <2>4. \A x \in addNet' : x \in addNet \/ IsKnown(x)'
    BY <1>1, <2>3
  <2> QED BY <1>1, <1>2, <2>2, <2>4, KnownFrame
<1>9. MasterInv'
  BY <1>1, <1>2, MasterFrame DEF MasterInv
<1>10. FloorInv'
  BY <1>1, <1>2, FloorFrame
<1>11. StorageInv'
  BY <1>1, <1>2, StorageFrame
<1>12. AnsweredWriteIsDone' /\ ReadsOwnWrites'
  BY <1>1, <1>2, AnsweredFrame, ReadsFrame
<1> QED BY <1>5, <1>6, <1>7, <1>8, <1>9, <1>10, <1>11, <1>12

LEMMA RecvAckAddInv ==
  ASSUME IInv, NEW c \in Clients, RecvAckAdd(c)
  PROVE  IInv'
<1> USE DEF IInv
<1>1. /\ UNCHANGED <<tx, wait_for_exe, addVars, masterVars, orderVars, schedVars,
                     historyVars>>
      /\ thread_pc[c] = "request_write"
      /\ thread_pc' = [thread_pc EXCEPT ![c] = "wait_flag"]
  BY DEF RecvAckAdd
<1> USE DEF addVars, masterVars, orderVars, schedVars, historyVars
<1>2. SamePlaces /\ KeepsPlaces /\ KeepsExecuted
  BY <1>1, UnchangedPlaces, SameKeeps, SameExecuted
<1>3. TypeOK'
  BY <1>1 DEF TypeOK
<1>4. OrderInv'
  BY <1>1, OrderFrame
<1>5. ThreadInv' /\ ReadInv'
  <2>1. ThreadInv /\ ReadInv /\ UNCHANGED <<tx, wait_for_exe, read_tx_buffer>>
    BY <1>1
  <2>2. \A d : thread_pc[d] = "wait_flag" => thread_pc'[d] = "wait_flag"
    BY <1>1 DEF TypeOK
  <2>3. \A d \in Clients :
          /\ thread_pc'[d] # "wait_flag" => thread_pc'[d] = thread_pc[d]
          /\ thread_pc[d] = "receive" => thread_pc'[d] = "receive"
    BY <1>1 DEF TypeOK
  <2> HIDE DEF IInv
  <2>4. ThreadInv'
    <3>1. ASSUME NEW d \in Clients, thread_pc'[d] = "wait_flag"
          PROVE  thread_pc[d] = "receive" \/ tx[d].type # "ERROR"
      BY <2>1 DEF ThreadInv
    <3>2. \A d \in Clients : thread_pc'[d] = "wait_flag" => tx[d].type # "ERROR"
      BY <2>3, <3>1
    <3> QED BY <2>1, <2>3, <3>2 DEF ThreadInv
  <2>5. ReadInv'
    BY <2>1, <2>2 DEF ReadInv
  <2> QED BY <2>4, <2>5
<1>6. KnownInv'
  BY <1>1, <1>2, KnownStays, KnownFrame DEF WriteTxs
<1>7. MasterInv'
  BY <1>1, <1>2, MasterFrame DEF MasterInv
<1>8. FloorInv'
  BY <1>1, <1>2, FloorFrame
<1>9. StorageInv'
  BY <1>1, <1>2, StorageFrame
<1>10. AnsweredWriteIsDone' /\ ReadsOwnWrites'
  BY <1>1, <1>2, AnsweredFrame, ReadsFrame
<1> QED BY <1>3, <1>4, <1>5, <1>6, <1>7, <1>8, <1>9, <1>10

LEMMA DropInv ==
  ASSUME IInv, DropAdd \/ DropAckAdd
  PROVE  IInv'
<1> USE DEF IInv
<1>1. /\ UNCHANGED <<threadVars, masterVars, orderVars, schedVars, historyVars>>
      /\ addNet' \subseteq addNet /\ ackAddNet' \subseteq ackAddNet
  BY DEF DropAdd, DropAckAdd
<1> USE DEF threadVars, masterVars, orderVars, schedVars, historyVars
<1>2. SamePlaces /\ KeepsPlaces /\ KeepsExecuted
  BY <1>1, UnchangedPlaces, SameKeeps, SameExecuted
<1>3. TypeOK'
  BY <1>1 DEF TypeOK
<1>4. OrderInv'
  BY <1>1, OrderFrame
<1>5. ThreadInv' /\ ReadInv'
  BY <1>1 DEF ThreadInv, ReadInv
<1>6. KnownInv'
  BY <1>1, <1>2, KnownStays, KnownFrame DEF WriteTxs
<1>7. MasterInv'
  BY <1>1, <1>2, MasterFrame DEF MasterInv
<1>8. FloorInv'
  BY <1>1, <1>2, FloorFrame
<1>9. StorageInv'
  BY <1>1, <1>2, StorageFrame
<1>10. AnsweredWriteIsDone' /\ ReadsOwnWrites'
  BY <1>1, <1>2, AnsweredFrame, ReadsFrame
<1> QED BY <1>3, <1>4, <1>5, <1>6, <1>7, <1>8, <1>9, <1>10

(* A client that makes its next request has been answered the one before:  *)
(* its writes are all done.                                                *)
LEMMA NothingPending ==
  ASSUME TypeOK, ThreadInv, NEW x \in WriteTxs, IsKnown(x),
         thread_pc[x.client] = "receive"
  PROVE  x.id <= tx[x.client].id /\ Done(x.client, x.id)
<1>1. x.client \in Clients /\ x.id \in Nat /\ tx[x.client].id \in Int
  BY Bounds DEF WriteTxs, TxIds, TypeOK, Txs
<1>2. x.id <= tx[x.client].id
  BY DEF IsKnown
<1>3. tx[x.client].complete_flag = 1
  BY <1>1, <1>2 DEF ThreadInv
<1> QED BY <1>2, <1>3 DEF IsKnown

(* Either request: what holds of the new Tx, and that it disturbs nothing  *)
(* of the transactions before.                                             *)
LEMMA NextTx ==
  ASSUME TypeOK, NEW c \in Clients, NEW k \in Keys,
         NEW type \in {"WRITE_ONLY", "READ_ONLY"}, tx[c].id < MaxTxId,
         tx' = [tx EXCEPT ![c] = NewTx(c, type, k)]
  PROVE  /\ tx[c].id \in -1 .. MaxTxId
         /\ \A d \in Clients : d # c => tx'[d] = tx[d]
         /\ tx'[c].id = tx[c].id + 1 /\ tx'[c].type = type /\ tx'[c].key = k
         /\ tx'[c].complete_flag = 0 /\ tx'[c].assigned_epoch_id = -1
         /\ tx[c].id + 1 \in TxIds /\ tx' \in [Clients -> Txs]
<1>1. /\ tx \in [Clients -> Txs] /\ tx[c].id \in -1 .. MaxTxId
      /\ tx'[c] = NewTx(c, type, k)
      /\ \A d \in Clients : d # c => tx'[d] = tx[d]
  BY DEF TypeOK, Txs
<1>2. tx[c].id + 1 \in TxIds
  BY <1>1, Bounds DEF TxIds
<1>3. NewTx(c, type, k) \in Txs
  BY <1>2, Bounds, HalfAssumption DEF NewTx, Txs, TxIds, Values
<1> QED BY <1>1, <1>2, <1>3 DEF NewTx

LEMMA NextRequest ==
  ASSUME IInv, NEW c \in Clients, NEW k \in Keys,
         NEW type \in {"WRITE_ONLY", "READ_ONLY"},
         thread_pc[c] = "receive", tx[c].id < MaxTxId,
         tx' = [tx EXCEPT ![c] = NewTx(c, type, k)],
         floor' = [floor EXCEPT ![c] = reported],
         UNCHANGED <<ackAddNet, masterVars, orderVars, exec, storage, reported>>,
         \A x \in addNet' : x \in addNet \/ IsKnown(x)'
  PROVE  OrderInv' /\ KnownInv' /\ MasterInv' /\ FloorInv' /\ StorageInv'
         /\ AnsweredWriteIsDone' /\ ReadsOwnWrites'
<1> USE DEF IInv, masterVars, orderVars
<1>1. SamePlaces /\ KeepsPlaces /\ KeepsExecuted
  BY UnchangedPlaces, SameKeeps, SameExecuted
<1>2. /\ tx[c].id \in -1 .. MaxTxId
      /\ \A d \in Clients : d # c => tx'[d] = tx[d]
      /\ tx'[c].id = tx[c].id + 1 /\ tx'[c].type = type
      /\ tx'[c].complete_flag = 0
  BY NextTx
<1>3. OrderInv' /\ StorageInv'
  BY <1>1, OrderFrame, StorageFrame
<1>4. KnownInv'
  <2>1. ASSUME NEW x \in WriteTxs, IsKnown(x)
        PROVE  IsKnown(x)'
    <3>1. CASE x.client = c
      <4>1. x.id <= tx[c].id /\ Done(c, x.id)
        BY <2>1, <3>1, NothingPending
      <4>2. Done(c, x.id)'
        BY <1>1, <4>1, DoneStays
      <4>3. x.id \in Nat
        BY DEF WriteTxs, TxIds
      <4> QED BY <1>2, <3>1, <4>1, <4>2, <4>3 DEF IsKnown
    <3>2. CASE x.client # c
      BY <1>1, <1>2, <2>1, <3>2, KnownStays DEF WriteTxs
    <3> QED BY <3>1, <3>2
  <2> QED BY <1>1, <2>1, KnownFrame
<1>5. MasterInv'
  <2>1. recieved_tx_id[c] <= tx[c].id /\ recieved_tx_id[c] \in Int
    BY Bounds DEF MasterInv, TypeOK
  <2>2. recieved_tx_id[c] <= tx[c].id + 1
    BY <2>1, <1>2
  <2>3. \A d \in Clients : recieved_tx_id[d] <= tx'[d].id
    BY <2>2, <1>2 DEF MasterInv
  <2> QED BY <1>1, <2>3, MasterFrame
<1>6. FloorInv'
  <2>1. Places(c, tx[c].id + 1) = {}
    BY <1>2, PlaceType DEF KnownInv, IsKnown, Places
  <2>2. \A d, id : Places(d, id)' = Places(d, id)
    BY <1>1, SamePlacesOfEach
  <2> QED BY <1>2, <2>1, <2>2 DEF FloorInv, TypeOK
<1>7. AnsweredWriteIsDone'
  <2>1. \A d \in Clients : tx'[d].complete_flag = 1 => tx'[d] = tx[d]
    BY <1>2
  <2> QED BY <1>1, <2>1, AnsweredFrame
<1>8. ReadsOwnWrites'
  <2>1. \A d \in Clients :
          tx'[d].complete_flag = 1 => /\ tx'[d] = tx[d]
                                      /\ OwnWrites(d)' = OwnWrites(d)
    BY <1>1, <1>2, OwnWritesFrame
  <2> QED BY <1>1, <2>1, WrittenFrame, ReadsStay
<1> QED BY <1>3, <1>4, <1>5, <1>6, <1>7, <1>8

LEMMA RequestWriteInv ==
  ASSUME IInv, NEW c \in Clients, RequestWrite(c)
  PROVE  IInv'
<1> USE DEF IInv
<1>1. PICK k \in Keys : /\ tx' = [tx EXCEPT ![c] = NewTx(c, "WRITE_ONLY", k)]
                        /\ addNet' = addNet \cup {WriteTx(c)'}
  BY DEF RequestWrite
<1>2. /\ UNCHANGED <<ackAddNet, masterVars, orderVars, schedVars, reported>>
      /\ thread_pc[c] = "receive" /\ tx[c].id < MaxTxId
      /\ wait_for_exe' = [wait_for_exe EXCEPT ![c] = TRUE]
      /\ thread_pc' = [thread_pc EXCEPT ![c] = "request_write"]
      /\ floor' = [floor EXCEPT ![c] = reported]
  BY DEF RequestWrite, MayRequest
<1> USE DEF schedVars
<1>3. /\ tx[c].id \in -1 .. MaxTxId
      /\ \A d \in Clients : d # c => tx'[d] = tx[d]
      /\ tx'[c].id = tx[c].id + 1 /\ tx'[c].type = "WRITE_ONLY" /\ tx'[c].key = k
      /\ tx'[c].complete_flag = 0
      /\ tx[c].id + 1 \in TxIds /\ tx' \in [Clients -> Txs]
  BY <1>1, <1>2, NextTx
<1>4. TypeOK'
  <2>1. WriteTx(c)' \in WriteTxs
    BY <1>3 DEF WriteTx, WriteTxs
  <2> QED BY <1>1, <1>2, <1>3, <2>1 DEF TypeOK, masterVars, orderVars
<1>5. ThreadInv'
  BY SMTT(60), <1>2, <1>3 DEF ThreadInv, TypeOK, TxIds
<1>6. ReadInv'
  BY <1>2, <1>3, ReaderType DEF ReadInv
<1>7. IsKnown(WriteTx(c))'
  BY <1>3 DEF IsKnown, WriteTx
<1>8. OrderInv' /\ KnownInv' /\ MasterInv' /\ FloorInv' /\ StorageInv'
      /\ AnsweredWriteIsDone' /\ ReadsOwnWrites'
  BY <1>1, <1>2, <1>7, NextRequest
<1> QED BY <1>4, <1>5, <1>6, <1>8

LEMMA RequestReadInv ==
  ASSUME IInv, NEW c \in Clients, RequestRead(c)
  PROVE  IInv'
<1> USE DEF IInv
<1>1. PICK k \in Keys : tx' = [tx EXCEPT ![c] = NewTx(c, "READ_ONLY", k)]
  BY DEF RequestRead
<1>2. /\ UNCHANGED <<wait_for_exe, addVars, masterVars, orderVars, exec, storage,
                     reported>>
      /\ thread_pc[c] = "receive" /\ tx[c].id < MaxTxId
      /\ read_tx_buffer' = [read_tx_buffer EXCEPT ![Home[c]] = Append(@, c)]
      /\ thread_pc' = [thread_pc EXCEPT ![c] = "wait_flag"]
      /\ floor' = [floor EXCEPT ![c] = reported]
  BY DEF RequestRead, MayRequest
<1>3. /\ tx[c].id \in -1 .. MaxTxId
      /\ \A d \in Clients : d # c => tx'[d] = tx[d]
      /\ tx'[c].id = tx[c].id + 1 /\ tx'[c].type = "READ_ONLY" /\ tx'[c].key = k
      /\ tx'[c].complete_flag = 0 /\ tx'[c].assigned_epoch_id = -1
      /\ tx[c].id + 1 \in TxIds /\ tx' \in [Clients -> Txs]
  BY <1>1, <1>2, NextTx
<1>4. /\ Home[c] \in Slaves /\ read_tx_buffer \in [Slaves -> Seq(Clients)]
      /\ thread_pc'[c] = "wait_flag"
      /\ \A d \in Clients : d # c => thread_pc'[d] = thread_pc[d]
  BY <1>2, HomeAssumption DEF TypeOK
<1>5. TypeOK'
  <2>1. read_tx_buffer' \in [Slaves -> Seq(Clients)]
    BY <1>2, <1>4
  <2> QED BY <1>2, <1>3, <2>1 DEF TypeOK, addVars, masterVars, orderVars
<1>6. ThreadInv'
  BY SMTT(60), <1>2, <1>3 DEF ThreadInv, TypeOK, TxIds
<1>7. ReadInv'
  <2> SUFFICES ASSUME NEW s \in Slaves, NEW i \in 1 .. Len(read_tx_buffer'[s]),
                      NEW d, d = read_tx_buffer'[s][i]
               PROVE  /\ Home[d] = s /\ thread_pc'[d] = "wait_flag"
                      /\ tx'[d].type = "READ_ONLY" /\ tx'[d].complete_flag = 0
                      /\ \A j \in 1 .. Len(read_tx_buffer'[s]) :
                           read_tx_buffer'[s][j] = d => j = i
    BY DEF ReadInv
  <2>1. \A j \in 1 .. Len(read_tx_buffer[s]) :
          read_tx_buffer[s][j] \in Clients /\ read_tx_buffer[s][j] # c
    BY <1>2, ReaderType DEF ReadInv
  <2>2. CASE s # Home[c]
    <3>1. read_tx_buffer'[s] = read_tx_buffer[s]
      BY <1>2, <1>4, <2>2
    <3> QED BY <1>3, <1>4, <2>1, <3>1 DEF ReadInv
  <2>3. CASE s = Home[c]
    <3>1. read_tx_buffer'[s] = Append(read_tx_buffer[s], c)
      BY <1>2, <1>4, <2>3
    <3>2. read_tx_buffer[s] \in Seq(Clients)
      BY <1>4
    <3>3. /\ Len(read_tx_buffer'[s]) = Len(read_tx_buffer[s]) + 1
          /\ Len(read_tx_buffer[s]) \in Nat
          /\ \A j \in 1 .. Len(read_tx_buffer[s]) :
               read_tx_buffer'[s][j] = read_tx_buffer[s][j]
          /\ read_tx_buffer'[s][Len(read_tx_buffer[s]) + 1] = c
      BY <3>1, <3>2
    <3>4. \A j \in 1 .. Len(read_tx_buffer'[s]) :
            j = Len(read_tx_buffer[s]) + 1 \/ j \in 1 .. Len(read_tx_buffer[s])
      BY <3>3
    <3>5. CASE i = Len(read_tx_buffer[s]) + 1
      <4>1. d = c
        BY <3>3, <3>5
      <4>2. \A j \in 1 .. Len(read_tx_buffer'[s]) :
              read_tx_buffer'[s][j] = c => j = i
        BY <2>1, <3>3, <3>4, <3>5
      <4> QED BY <1>3, <1>4, <2>3, <4>1, <4>2
    <3>6. CASE i \in 1 .. Len(read_tx_buffer[s])
      <4>1. d = read_tx_buffer[s][i] /\ d \in Clients /\ d # c
        BY <2>1, <3>3, <3>6
      <4>2. /\ Home[d] = s /\ thread_pc[d] = "wait_flag"
            /\ tx[d].type = "READ_ONLY" /\ tx[d].complete_flag = 0
            /\ \A j \in 1 .. Len(read_tx_buffer[s]) :
                 read_tx_buffer[s][j] = d => j = i
        BY <3>6, <4>1 DEF ReadInv
      <4>3. \A j \in 1 .. Len(read_tx_buffer'[s]) :
              read_tx_buffer'[s][j] = d => j = i
        BY <3>3, <3>4, <4>1, <4>2
      <4> QED BY <1>3, <1>4, <4>1, <4>2, <4>3
    <3> QED BY <3>4, <3>5, <3>6
  <2> QED BY <2>2, <2>3
<1>8. OrderInv' /\ KnownInv' /\ MasterInv' /\ FloorInv' /\ StorageInv'
      /\ AnsweredWriteIsDone' /\ ReadsOwnWrites'
  BY <1>1, <1>2, NextRequest DEF addVars
<1> QED BY <1>5, <1>6, <1>7, <1>8

LEMMA RespondInv ==
  ASSUME IInv, NEW c \in Clients, Respond(c)
  PROVE  IInv'
<1> USE DEF IInv
<1>1. /\ UNCHANGED <<tx, wait_for_exe, addVars, masterVars, orderVars, schedVars,
                     floor>>
      /\ thread_pc[c] = "wait_flag" /\ tx[c].complete_flag = 1
      /\ thread_pc' = [thread_pc EXCEPT ![c] = "receive"]
      /\ reported' = IF tx[c].assigned_epoch_id > reported
                       THEN tx[c].assigned_epoch_id ELSE reported
  BY DEF Respond
<1> USE DEF addVars, masterVars, orderVars, schedVars
<1>2. SamePlaces /\ KeepsPlaces /\ KeepsExecuted
  BY <1>1, UnchangedPlaces, SameKeeps, SameExecuted
<1>3. /\ tx[c].assigned_epoch_id \in Nat \cup {-1}
      /\ reported \in Nat \cup {-1} /\ reported < Len(determined)
      /\ Len(determined) \in Nat
  BY DEF TypeOK, Txs
<1>4. tx[c].assigned_epoch_id < Len(determined)
  <2>1. CASE tx[c].type = "WRITE_ONLY"
    <3>1. PICK p \in Places(c, tx[c].id) : /\ p[1] <= Len(determined)
                                          /\ p[1] = tx[c].assigned_epoch_id + 1
      BY <1>1, <2>1 DEF AnsweredWriteIsDone
    <3> QED BY <1>3, <3>1
  <2>2. CASE tx[c].type = "READ_ONLY"
    BY <1>3, <2>2 DEF ThreadInv
  <2>3. tx[c].type # "ERROR" /\ tx[c] \in Txs
    BY <1>1 DEF ThreadInv, TypeOK
  <2> QED BY <2>1, <2>2, <2>3 DEF Txs
<1>5. /\ reported' \in Nat \cup {-1} /\ reported' < Len(determined)
      /\ reported <= reported'
  BY <1>1, <1>3, <1>4
<1>6. TypeOK'
  BY <1>1, <1>5 DEF TypeOK
<1>7. OrderInv'
  BY <1>1, OrderFrame
<1>8. ThreadInv' /\ ReadInv'
  <2>1. /\ thread_pc'[c] = "receive"
        /\ \A d \in Clients : d # c => thread_pc'[d] = thread_pc[d]
    BY <1>1 DEF TypeOK
  <2>2. ThreadInv'
    BY <1>1, <2>1 DEF ThreadInv
  <2>3. ReadInv'
    BY <1>1, <2>1, ReaderType DEF ReadInv
  <2> QED BY <2>2, <2>3
<1>9. KnownInv'
  BY <1>1, <1>2, KnownStays, KnownFrame DEF WriteTxs
<1>10. MasterInv'
  BY <1>1, <1>2, MasterFrame DEF MasterInv
<1>11. FloorInv'
  <2>1. \A d \in Clients : floor[d] \in Int /\ floor[d] <= reported'
    BY SMTT(60), <1>3, <1>5 DEF FloorInv, TypeOK
  <2> QED BY <1>1, <1>2, <2>1, SamePlacesOfEach DEF FloorInv
<1>12. StorageInv'
  BY <1>1, <1>2, StorageFrame
<1>13. AnsweredWriteIsDone' /\ ReadsOwnWrites'
  BY <1>1, <1>2, AnsweredFrame, ReadsFrame
<1> QED BY <1>6, <1>7, <1>8, <1>9, <1>10, <1>11, <1>12, <1>13

LEMMA RecvAddInv ==
  ASSUME IInv, NEW c \in Clients, NEW m \in addNet, RecvAdd(c, m)
  PROVE  IInv'
<1> USE DEF IInv
<1>1. /\ UNCHANGED <<threadVars, addNet, batch, rev_batch, orderVars, schedVars,
                     historyVars>>
      /\ adding[c] = <<>> /\ m.client = c
      /\ ackAddNet' = ackAddNet \cup {[client |-> c, id |-> m.id]}
  BY DEF RecvAdd
<1> USE DEF threadVars, orderVars, schedVars, historyVars
<1>2. SamePlaces /\ KeepsPlaces /\ KeepsExecuted
  BY <1>1, UnchangedPlaces, SameKeeps, SameExecuted
<1>3. /\ m \in WriteTxs /\ IsKnown(m) /\ m.id \in TxIds /\ m.id \in Nat
      /\ recieved_tx_id[c] \in Int /\ tx[c].id \in Int
  BY SMTT(60), Bounds DEF TypeOK, Txs, WriteTxs, TxIds, KnownInv
<1>4. m.id <= tx[c].id
  BY <1>1, <1>3 DEF IsKnown
<1>5. \/ /\ m.id <= recieved_tx_id[c]
         /\ UNCHANGED <<recieved_tx_id, adding>>
      \/ /\ m.id > recieved_tx_id[c]
         /\ recieved_tx_id' = [recieved_tx_id EXCEPT ![c] = m.id]
         /\ adding' = [adding EXCEPT ![c] = <<m>>]
  BY <1>3 DEF RecvAdd
<1>6. /\ adding \in [Clients -> Seq(WriteTxs)]
      /\ \A d \in Clients : Len(adding[d]) <= 1
      /\ recieved_tx_id \in [Clients -> -1 .. MaxTxId]
      /\ \A d \in Clients : d # c => /\ adding'[d] = adding[d]
                                    /\ recieved_tx_id'[d] = recieved_tx_id[d]
  BY <1>5 DEF TypeOK
<1>7. TypeOK'
  <2>1. [client |-> c, id |-> m.id] \in [client : Clients, id : TxIds]
    BY <1>3
  <2>2. recieved_tx_id' \in [Clients -> -1 .. MaxTxId]
    <3>1. m.id \in -1 .. MaxTxId
      BY <1>3, Bounds DEF TxIds
    <3> QED BY <1>5, <1>6, <3>1
  <2>3. /\ adding' \in [Clients -> Seq(WriteTxs)]
        /\ \A d \in Clients : Len(adding'[d]) <= 1
    <3>1. <<m>> \in Seq(WriteTxs) /\ Len(<<m>>) <= 1
      BY <1>3
    <3> QED BY <1>5, <1>6, <3>1
  <2> QED BY <1>1, <2>1, <2>2, <2>3 DEF TypeOK
<1>8. OrderInv'
  BY <1>1, OrderFrame
<1>9. ThreadInv' /\ ReadInv'
  BY <1>1, ThreadFrame
<1>10. KnownInv'
  <2>1. \A x \in WriteTxs : IsKnown(x) => IsKnown(x)'
    BY <1>1, <1>2, KnownStays DEF WriteTxs
  <2>2. \A p \in AllPlaces : TxAt(p) \in WriteTxs /\ TxAt(p)' = TxAt(p)
    BY <1>2, PlaceType DEF SamePlaces
  <2>3. ASSUME NEW d \in Clients, adding'[d] # <<>>
        PROVE  IsKnown(adding[d][1])'
    <3>1. adding'[d][1] = m \/ (adding[d] # <<>> /\ adding'[d] = adding[d])
      BY <1>5, <1>6, <2>3
    <3>2. CASE adding[d] # <<>> /\ adding'[d] = adding[d]
      <4>1. adding[d][1] \in WriteTxs /\ IsKnown(adding[d][1])
        BY <1>6, <3>2, NonEmptySeq DEF KnownInv
      <4> QED BY <2>1, <3>2, <4>1
    <3> QED BY <1>3, <2>1, <3>1, <3>2
  <2>4. \A x \in addNet' : IsKnown(x)'
    BY <1>1, <2>1 DEF KnownInv, TypeOK
  <2>5. \A p \in AllPlaces' : IsKnown(TxAt(p))'
    BY <1>2, <2>1, <2>2 DEF KnownInv, SamePlaces
  <2> QED BY <2>3, <2>4, <2>5 DEF KnownInv
<1>11. MasterInv'
  <2>1. \A d, id : Places(d, id)' = Places(d, id)
    BY <1>2, SamePlacesOfEach
  <2>2. \A p \in AllPlaces : /\ TxAt(p)' = TxAt(p) /\ TxAt(p) \in WriteTxs
                             /\ TxAt(p).client \in Clients /\ TxAt(p).id \in Nat
    BY <1>2, PlaceType DEF SamePlaces, WriteTxs, TxIds
  <2>3. /\ \A d \in Clients : recieved_tx_id[d] <= recieved_tx_id'[d]
        /\ \A d \in Clients : recieved_tx_id[d] \in Int /\ recieved_tx_id'[d] \in Int
    <3>1. \A d \in Clients : recieved_tx_id[d] \in Int
      BY <1>6, Bounds
    <3>2. recieved_tx_id[c] <= recieved_tx_id'[c] /\ recieved_tx_id'[c] \in Int
      BY <1>3, <1>5, <1>6
    <3>3. ASSUME NEW d \in Clients, d # c
          PROVE  recieved_tx_id[d] <= recieved_tx_id'[d] /\ recieved_tx_id'[d] \in Int
      BY <1>6, <3>1, <3>3
    <3> QED BY <3>1, <3>2, <3>3
  <2>4. \A p \in AllPlaces : TxAt(p).id <= recieved_tx_id'[TxAt(p).client]
    BY <2>2, <2>3 DEF MasterInv
  <2>5. \A d, id : Pending(d, id) /\ d \in Clients => Pending(d, id)'
    BY <1>1, <1>6 DEF Pending
  <2>6. \A d \in Clients : recieved_tx_id'[d] <= tx'[d].id
    BY <1>1, <1>4, <1>5, <1>6 DEF MasterInv
  <2>7. ASSUME NEW d \in Clients
        PROVE  /\ adding'[d] # <<>> => /\ adding'[d][1].client = d
                                      /\ adding'[d][1].id = recieved_tx_id'[d]
                                      /\ Places(d, recieved_tx_id[d])' = {}
               /\ recieved_tx_id'[d] >= 0 =>
                    \/ Pending(d, recieved_tx_id[d])'
                    \/ Places(d, recieved_tx_id[d])' # {}
    <3>1. CASE d # c \/ UNCHANGED <<recieved_tx_id, adding>>
      <4>1. adding'[d] = adding[d] /\ recieved_tx_id'[d] = recieved_tx_id[d]
        BY <1>6, <3>1
      <4> QED BY <2>1, <4>1 DEF MasterInv, Pending
    <3>2. CASE /\ d = c /\ m.id > recieved_tx_id[c]
               /\ recieved_tx_id' = [recieved_tx_id EXCEPT ![c] = m.id]
               /\ adding' = [adding EXCEPT ![c] = <<m>>]
      <4>1. recieved_tx_id'[c] = m.id /\ adding'[c] = <<m>>
        BY <1>6, <3>2
      <4>2. Places(c, m.id) = {}
        BY <1>3, <2>2, <3>2 DEF MasterInv, Places
      <4>3. Places(c, recieved_tx_id[c])' = {} /\ Pending(c, recieved_tx_id[c])'
        BY <2>1, <4>1, <4>2 DEF Pending
      <4> QED BY <1>1, <3>2, <4>1, <4>3
    <3> QED BY <1>5, <3>1, <3>2
  <2>8. ASSUME NEW a \in ackAddNet'
        PROVE  Pending(a.client, a.id)' \/ Places(a.client, a.id)' # {}
    <3>1. CASE a \in ackAddNet
      BY <2>1, <2>5, <3>1 DEF MasterInv, TypeOK
    <3>2. CASE a = [client |-> c, id |-> m.id]
      <4>1. CASE m.id > recieved_tx_id[c]
        <5>1. adding'[c] = <<m>>
          BY <1>3, <1>5, <1>6, <4>1
        <5> QED BY <3>2, <5>1 DEF Pending
      <4>2. CASE m.id = recieved_tx_id[c]
        <5>1. Pending(c, m.id) \/ Places(c, m.id) # {}
          BY <1>3, <4>2 DEF MasterInv
        <5> QED BY <2>1, <2>5, <3>2, <5>1
      <4>3. CASE m.id < recieved_tx_id[c]
        <5>1. recieved_tx_id[c] <= tx[c].id
          BY DEF MasterInv
        <5>2. m.id < tx[c].id
          BY <1>3, <4>3, <5>1
        <5>3. Done(c, m.id)
          BY <1>1, <1>3, <5>2 DEF IsKnown
        <5>4. Places(c, m.id) # {}
          BY <5>3 DEF Done
        <5> QED BY <2>1, <3>2, <5>4
      <4> QED BY <1>3, <4>1, <4>2, <4>3
    <3> QED BY <1>1, <3>1, <3>2
  <2>9. \A p, q \in AllPlaces' :
          TxAt(p)'.client = TxAt(q)'.client /\ TxAt(p)'.id = TxAt(q)'.id => p = q
    BY <1>2, <2>2 DEF MasterInv, SamePlaces
  <2>10. \A p \in AllPlaces' : TxAt(p)'.id <= recieved_tx_id'[TxAt(p)'.client]
    BY <1>2, <2>2, <2>4 DEF SamePlaces
  <2> QED BY <2>6, <2>7, <2>8, <2>9, <2>10 DEF MasterInv
<1>12. FloorInv' /\ StorageInv'
  BY <1>1, <1>2, FloorFrame, StorageFrame
<1>13. AnsweredWriteIsDone' /\ ReadsOwnWrites'
  BY <1>1, <1>2, AnsweredFrame, ReadsFrame
<1> QED BY <1>7, <1>8, <1>9, <1>10, <1>11, <1>12, <1>13

(* The place that is filled has not been executed by anyone.               *)
LEMMA FreePlaceNotExecuted ==
  ASSUME TypeOK, OrderInv, NEW s \in Slaves
  PROVE  /\ ~Executed(s, FreePlace)
         /\ exec[s].next = "notify" => FreePlace # <<exec[s].epoch + 1, exec[s].pos + 1>>
<1>1. /\ exec[s].epoch \in Nat /\ exec[s].pos \in Nat
      /\ Len(handed[s]) \in Nat /\ Len(determined) \in Nat /\ Len(rev_batch) \in Nat
      /\ Len(batch) \in Nat
  BY DEF TypeOK
<1>2. /\ Len(handed[s]) <= Len(determined) /\ exec[s].epoch <= Len(handed[s])
      /\ exec[s].epoch >= Len(handed[s]) => exec[s].pos = 0
      /\ exec[s].next = "notify" => exec[s].epoch < Len(handed[s])
  BY <1>1 DEF OrderInv, HasBatch, HasTx
<1>3. /\ FreePlace[1] = Len(determined) + Len(rev_batch) + 1
      /\ FreePlace[2] = Len(batch) + 1
      /\ FreePlace = <<Len(determined) + Len(rev_batch) + 1, Len(batch) + 1>>
  BY DEF FreePlace, LastBatch
<1>4. ~Executed(s, FreePlace)
  BY SMTT(60), <1>1, <1>2, <1>3 DEF Executed
<1>5. ASSUME exec[s].next = "notify"
      PROVE  FreePlace # <<exec[s].epoch + 1, exec[s].pos + 1>>
  BY SMTT(60), <1>1, <1>2, <1>3, <1>5
<1> QED BY <1>4, <1>5

LEMMA AddToBatchInv ==
  ASSUME IInv, NEW c \in Clients, AddToBatch(c)
  PROVE  IInv'
<1> USE DEF IInv
<1> DEFINE x == adding[c][1]
<1>1. /\ UNCHANGED <<threadVars, addVars, recieved_tx_id, rev_batch, orderVars,
                     schedVars, historyVars>>
      /\ adding[c] # <<>> /\ Len(batch) < MAX_BATCH_SIZE
      /\ batch' = batch \o adding[c]
      /\ adding' = [adding EXCEPT ![c] = <<>>]
  BY DEF AddToBatch
<1> USE DEF threadVars, addVars, orderVars, schedVars, historyVars
<1>2. /\ FreePlace \notin AllPlaces
      /\ AllPlaces' = AllPlaces \cup {FreePlace}
      /\ \A p \in AllPlaces : TxAt(p)' = TxAt(p)
      /\ \A p : p = FreePlace => TxAt(p)' = x
      /\ x \in WriteTxs /\ LastBatch' = LastBatch
  BY AddToBatchPlaces
<1>3. KeepsPlaces /\ KeepsExecuted
  BY <1>1, <1>2, SameExecuted DEF KeepsPlaces
<1>4. /\ IsKnown(x) /\ x.client = c /\ x.id = recieved_tx_id[c] /\ x.id \in Nat
      /\ Places(c, x.id) = {}
  <2>1. IsKnown(x)
    BY <1>1 DEF KnownInv
  <2>2. x.client = c /\ x.id = recieved_tx_id[c] /\ Places(c, recieved_tx_id[c]) = {}
    BY <1>1 DEF MasterInv
  <2>3. x.id \in Nat
    BY <1>2 DEF WriteTxs, TxIds
  <2> QED BY <2>1, <2>2, <2>3
<1>5. /\ adding \in [Clients -> Seq(WriteTxs)] /\ adding'[c] = <<>>
      /\ \A d \in Clients : d # c => adding'[d] = adding[d]
      /\ \A d \in Clients : Len(adding[d]) <= 1
  BY <1>1 DEF TypeOK
<1>6. /\ batch' \in Seq(WriteTxs) /\ Len(batch') = Len(batch) + 1
      /\ Len(batch) \in Nat /\ Len(batch') <= MAX_BATCH_SIZE
  <2>1. /\ Len(adding[c]) <= 1 => Len(adding[c]) = 1
        /\ batch \in Seq(WriteTxs) /\ adding[c] \in Seq(WriteTxs)
    BY <1>1, <1>5, NonEmptySeq DEF TypeOK
  <2>2. Len(adding[c]) = 1
    BY <1>5, <2>1
  <2>3. batch' \in Seq(WriteTxs) /\ Len(batch') = Len(batch) + 1
    BY <1>1, <2>1, <2>2, ConcatOne
  <2>4. Len(batch) \in Nat
    BY <2>1
  <2> QED BY <1>1, <2>3, <2>4, Bounds
<1>7. TypeOK'
  <2>1. /\ adding' \in [Clients -> Seq(WriteTxs)]
        /\ \A d \in Clients : Len(adding'[d]) <= 1
    BY <1>1, <1>5
  <2> QED BY <1>1, <1>6, <2>1 DEF TypeOK
<1>8. OrderInv'
  <2>1. \A i \in 1 .. LastBatch : Len(TxsAt(i)') <= MAX_BATCH_SIZE
    <3>1. \A i : TxsAt(i)' = TxsAt(i) \/ TxsAt(i)' = batch'
      BY <1>1, <1>2 DEF TxsAt
    <3> QED BY <1>6, <3>1 DEF OrderInv
  <2> QED BY <1>1, <1>2, <2>1 DEF OrderInv, HasBatch, CurrentBatch, HasTx
<1>9. ThreadInv' /\ ReadInv'
  BY <1>1, ThreadFrame
<1>10. KnownInv'
  <2>1. \A y \in WriteTxs : IsKnown(y) => IsKnown(y)'
    BY <1>1, <1>3, KnownStays DEF WriteTxs
  <2>2. \A p \in AllPlaces' : IsKnown(TxAt(p))'
    <3>1. \A p \in AllPlaces : TxAt(p) \in WriteTxs /\ IsKnown(TxAt(p))
      BY PlaceType DEF KnownInv
    <3>2. \A p \in AllPlaces' : TxAt(p)' \in WriteTxs /\ IsKnown(TxAt(p)')
      BY <1>2, <1>4, <3>1
    <3> QED BY <2>1, <3>1, <3>2, <1>2, <1>4
  <2>3. \A y \in addNet' : IsKnown(y)'
    BY <1>1, <2>1 DEF KnownInv, TypeOK
  <2>4. ASSUME NEW d \in Clients, adding'[d] # <<>>
        PROVE  IsKnown(adding[d][1])'
    <3>1. adding'[d] = adding[d] /\ adding[d] # <<>>
      BY <1>5, <2>4
    <3>2. adding[d][1] \in WriteTxs /\ IsKnown(adding[d][1])
      BY <1>5, <3>1, NonEmptySeq DEF KnownInv
    <3> QED BY <2>1, <3>1, <3>2
  <2> QED BY <2>2, <2>3, <2>4 DEF KnownInv
<1>11. ASSUME NEW d \in Clients, NEW id
       PROVE  /\ d # c \/ id # x.id => Places(d, id)' = Places(d, id)
              /\ d = c /\ id = x.id => Places(d, id)' = {FreePlace}
  <2>1. Places(d, id)' = {p \in AllPlaces : TxAt(p).client = d /\ TxAt(p).id = id}
                          \cup {p \in {FreePlace} : x.client = d /\ x.id = id}
    BY <1>2 DEF Places
  <2> QED BY <1>4, <2>1 DEF Places
<1>12. MasterInv'
  <2>1. \A d \in Clients : \A id : Pending(d, id)' <=> Pending(d, id) /\ d # c
    BY <1>5 DEF Pending
  <2>2. \A id : Pending(c, id) => id = x.id
    BY DEF Pending
  <2>3. \A d \in Clients : \A id :
          /\ Places(d, id) # {} => Places(d, id)' # {}
          /\ Pending(d, id) => Pending(d, id)' \/ Places(d, id)' # {}
    BY <1>11, <2>1, <2>2
  <2>4. ASSUME NEW d \in Clients
        PROVE  /\ recieved_tx_id'[d] <= tx'[d].id
               /\ adding'[d] # <<>> => /\ adding'[d][1].client = d
                                      /\ adding'[d][1].id = recieved_tx_id'[d]
                                      /\ Places(d, recieved_tx_id[d])' = {}
               /\ recieved_tx_id'[d] >= 0 =>
                    \/ Pending(d, recieved_tx_id[d])'
                    \/ Places(d, recieved_tx_id[d])' # {}
    <3>1. recieved_tx_id'[d] = recieved_tx_id[d] /\ tx'[d] = tx[d]
      BY <1>1
    <3>2. CASE d = c
      BY <1>1, <1>5, <2>3, <3>1, <3>2 DEF MasterInv
    <3>3. CASE d # c
      <4>1. adding'[d] = adding[d] /\ \A id : Places(d, id)' = Places(d, id)
        BY <1>5, <1>11, <3>3
      <4> QED BY <2>3, <3>1, <4>1 DEF MasterInv
    <3> QED BY <3>2, <3>3
  <2>5. \A a \in ackAddNet' : Pending(a.client, a.id)' \/ Places(a.client, a.id)' # {}
    <3>1. \A a \in ackAddNet : a.client \in Clients
      BY DEF TypeOK
    <3> QED BY <1>1, <2>3, <3>1 DEF MasterInv
  <2>6. \A p \in AllPlaces' : TxAt(p)'.id <= recieved_tx_id'[TxAt(p)'.client]
    <3>1. \A n \in Nat : n <= n
      OBVIOUS
    <3> QED BY <1>1, <1>2, <1>4, <3>1 DEF MasterInv
  <2>7. \A p, q \in AllPlaces' :
          TxAt(p)'.client = TxAt(q)'.client /\ TxAt(p)'.id = TxAt(q)'.id => p = q
    <3>1. \A p \in AllPlaces : ~(TxAt(p).client = c /\ TxAt(p).id = x.id)
      BY <1>4 DEF Places
    <3> QED BY <1>2, <1>4, <3>1 DEF MasterInv
  <2> QED BY <2>4, <2>5, <2>6, <2>7 DEF MasterInv
<1>13. FloorInv'
  <2>1. ASSUME NEW d \in Clients
        PROVE  FreePlace[1] > floor[d] + 1
    <3>1. /\ floor[d] \in Int /\ reported \in Int /\ reported < Len(determined)
          /\ Len(determined) \in Nat /\ Len(rev_batch) \in Nat
      BY DEF TypeOK
    <3>2. floor[d] <= reported
      BY DEF FloorInv
    <3> QED BY <3>1, <3>2 DEF FreePlace, LastBatch
  <2>2. ASSUME NEW d \in Clients, NEW id, NEW p \in Places(d, id)'
        PROVE  p \in Places(d, id) \/ p = FreePlace
    BY <1>11
  <2> QED BY <1>1, <2>1, <2>2 DEF FloorInv
<1>17. ASSUME NEW s \in Slaves, NEW k
       PROVE  WrittenPlaces(s, k)' = WrittenPlaces(s, k)
  BY <1>1, <1>2, SameExecuted, FreePlaceNotExecuted DEF WrittenPlaces
<1>14. StorageInv'
  BY <1>1, <1>17 DEF StorageInv
<1>15. AnsweredWriteIsDone'
  BY <1>1, <1>3, AnsweredFrame
<1>16. ReadsOwnWrites'
  <2>1. ASSUME NEW d \in Clients
        PROVE  OwnWrites(d)' = OwnWrites(d)
    <3>1. ~ x.id < tx[c].id
      <4>1. CASE x.id < tx[c].id
        <5>1. Done(c, x.id)
          BY <1>4, <4>1 DEF IsKnown
        <5> QED BY <1>4, <5>1 DEF Done
      <4> QED BY <4>1
    <3>2. \A id \in 0 .. tx[d].id - 1 : d # c \/ id # x.id
      <4>1. tx[d].id \in Int
        BY Bounds DEF TypeOK, Txs
      <4> QED BY <1>4, <3>1, <4>1
    <3>3. \A id \in 0 .. tx[d].id - 1 :
            /\ Places(d, id)' = Places(d, id)
            /\ \A p \in Places(d, id) : TxAt(p)' = TxAt(p)
      BY <1>2, <1>11, <3>2 DEF Places
    <3> QED BY <1>1, <3>3 DEF OwnWrites
  <2> QED BY <1>1, <1>17, <2>1, ReadsStay
<1> QED BY <1>7, <1>8, <1>9, <1>10, <1>12, <1>13, <1>14, <1>15, <1>16

LEMMA CutBatchInv ==
  ASSUME IInv, CutBatch
  PROVE  IInv'
<1> USE DEF IInv
<1>1. /\ UNCHANGED <<threadVars, addVars, recieved_tx_id, adding, orderVars,
                     schedVars, historyVars>>
      /\ rev_batch = <<>> /\ batch' = <<>>
      /\ rev_batch' = <<[epoch_id |-> Len(determined), tx_set |-> batch]>>
  BY DEF CutBatch
<1> USE DEF threadVars, addVars, orderVars, schedVars, historyVars
<1>2. /\ SamePlaces /\ LastBatch \in Nat /\ LastBatch' = LastBatch + 1
      /\ \A i \in 1 .. LastBatch : TxsAt(i)' = TxsAt(i)
      /\ \A i : i = LastBatch + 1 => TxsAt(i)' = <<>>
  BY CutBatchPlaces
<1>3. KeepsPlaces /\ KeepsExecuted
  BY <1>1, <1>2, SameKeeps, SameExecuted
<1>4. TypeOK'
  <2>1. [epoch_id |-> Len(determined), tx_set |-> batch] \in Batches
    BY DEF TypeOK, Batches
  <2>2. rev_batch' \in Seq(Batches) /\ Len(rev_batch') <= 1
    BY <1>1, <2>1
  <2>3. batch' \in Seq(WriteTxs) /\ Len(batch') <= MAX_BATCH_SIZE
    BY <1>1, Bounds
  <2> QED BY <1>1, <2>2, <2>3 DEF TypeOK
<1>5. OrderInv'
  <2>1. \A i : i \in 1 .. LastBatch + 1 => Len(TxsAt(i)') <= MAX_BATCH_SIZE
    <3>1. ASSUME NEW i, i = LastBatch + 1
          PROVE  Len(TxsAt(i)') <= MAX_BATCH_SIZE
      BY <1>2, <3>1, Bounds
    <3>2. ASSUME NEW i \in 1 .. LastBatch
          PROVE  Len(TxsAt(i)') <= MAX_BATCH_SIZE
      BY <1>2, <3>2 DEF OrderInv
    <3> QED BY <1>2, <3>1, <3>2
  <2>2. rev_batch'[1].epoch_id = Len(determined')
    BY <1>1
  <2> QED BY <1>1, <1>2, <2>1, <2>2 DEF OrderInv, HasBatch, CurrentBatch, HasTx
<1>6. ThreadInv' /\ ReadInv'
  BY <1>1 DEF ThreadInv, ReadInv
<1>7. KnownInv'
  BY <1>1, <1>2, <1>3, KnownStays, KnownFrame DEF WriteTxs
<1>8. MasterInv'
  BY <1>1, <1>2, MasterFrame DEF MasterInv
<1>9. FloorInv' /\ StorageInv'
  BY <1>1, <1>2, FloorFrame, StorageFrame
<1>10. AnsweredWriteIsDone' /\ ReadsOwnWrites'
  BY <1>1, <1>2, <1>3, AnsweredFrame, ReadsFrame
<1> QED BY <1>4, <1>5, <1>6, <1>7, <1>8, <1>9, <1>10

LEMMA DetermineInv ==
  ASSUME IInv, Determine
  PROVE  IInv'
<1> USE DEF IInv
<1>1. /\ UNCHANGED <<threadVars, addVars, recieved_tx_id, adding, batch, handed,
                     schedVars, historyVars>>
      /\ rev_batch # <<>> /\ determined' = determined \o rev_batch
      /\ rev_batch' = <<>>
  BY DEF Determine
<1> USE DEF threadVars, addVars, schedVars, historyVars
<1>2. /\ SamePlaces /\ LastBatch' = LastBatch
      /\ \A i \in 1 .. LastBatch : TxsAt(i)' = TxsAt(i)
  BY DeterminePlaces
<1>3. KeepsPlaces /\ KeepsExecuted
  BY <1>1, <1>2, SameKeeps, SameExecuted
<1>4. /\ determined \in Seq(Batches) /\ rev_batch \in Seq(Batches)
      /\ Len(rev_batch) <= 1 /\ Len(determined) \in Nat
  BY DEF TypeOK
<1>5. Len(rev_batch) = 1
  <2>1. Len(rev_batch) <= 1 => Len(rev_batch) = 1
    BY <1>1, <1>4, NonEmptySeq
  <2> QED BY <1>4, <2>1
<1>6. /\ determined' \in Seq(Batches) /\ Len(determined') = Len(determined) + 1
      /\ \A i \in 1 .. Len(determined) : determined'[i] = determined[i]
  BY <1>1, <1>4, <1>5, ConcatOne
<1>7. TypeOK'
  <2>1. rev_batch' \in Seq(Batches) /\ Len(rev_batch') <= 1
    BY <1>1
  <2>2. reported < Len(determined')
    BY <1>4, <1>6 DEF TypeOK
  <2> QED BY <1>1, <1>6, <2>1, <2>2 DEF TypeOK
<1>8. OrderInv'
  <2>1. \A i \in 1 .. LastBatch : Len(TxsAt(i)') <= MAX_BATCH_SIZE
    BY <1>2 DEF OrderInv
  <2>2. ASSUME NEW s \in Slaves
        PROVE  /\ Len(handed[s]) <= Len(determined')
               /\ \A i \in 1 .. Len(handed[s]) : handed[s][i] = determined'[i]
    <3>1. /\ Len(handed[s]) <= Len(determined) /\ Len(handed[s]) \in Nat
          /\ \A i \in 1 .. Len(handed[s]) : handed[s][i] = determined[i]
      BY DEF OrderInv, TypeOK
    <3> QED BY <1>4, <1>6, <3>1
  <2> QED BY <1>1, <1>2, <2>1, <2>2 DEF OrderInv, HasBatch, CurrentBatch, HasTx
<1>9. ThreadInv' /\ ReadInv'
  BY <1>1, ThreadFrame
<1>10. KnownInv'
  BY <1>1, <1>2, <1>3, KnownStays, KnownFrame DEF WriteTxs
<1>11. MasterInv'
  BY <1>1, <1>2, MasterFrame DEF MasterInv
<1>12. FloorInv' /\ StorageInv'
  BY <1>1, <1>2, FloorFrame, StorageFrame
<1>13. AnsweredWriteIsDone'
  <2>1. Len(determined) <= Len(determined') /\ Len(determined') \in Nat
    BY <1>4, <1>6
  <2> QED BY <1>1, <1>3, <2>1, AnsweredStays DEF AnsweredWriteIsDone
<1>14. ReadsOwnWrites'
  BY <1>1, <1>2, ReadsFrame
<1> QED BY <1>7, <1>8, <1>9, <1>10, <1>11, <1>12, <1>13, <1>14

LEMMA HandOverInv ==
  ASSUME IInv, NEW s \in Slaves, HandOver(s)
  PROVE  IInv'
<1> USE DEF IInv
<1>1. /\ UNCHANGED <<threadVars, addVars, masterVars, schedVars, historyVars>>
      /\ determined' = determined /\ Len(handed[s]) < Len(determined)
      /\ handed' = [handed EXCEPT ![s] =
                      Append(handed[s], determined[Len(handed[s]) + 1])]
  BY DEF HandOver, BO!HandOver
<1> USE DEF threadVars, addVars, masterVars, schedVars, historyVars
<1>2. SamePlaces /\ LastBatch' = LastBatch /\ KeepsPlaces /\ KeepsExecuted
  BY <1>1, UnchangedPlaces, SameKeeps, SameExecuted
<1>3. /\ determined \in Seq(Batches) /\ handed \in [Slaves -> Seq(Batches)]
      /\ Len(determined) \in Nat /\ handed[s] \in Seq(Batches)
      /\ Len(handed[s]) \in Nat
      /\ exec[s].epoch \in Nat /\ exec[s].pos \in Nat
  BY DEF TypeOK
<1>4. determined[Len(handed[s]) + 1] \in Batches
  BY <1>1, <1>3
<1>5. /\ handed'[s] = Append(handed[s], determined[Len(handed[s]) + 1])
      /\ \A t \in Slaves : t # s => handed'[t] = handed[t]
      /\ Len(handed'[s]) = Len(handed[s]) + 1
      /\ \A i \in 1 .. Len(handed[s]) : handed'[s][i] = handed[s][i]
      /\ handed'[s][Len(handed[s]) + 1] = determined[Len(handed[s]) + 1]
      /\ handed' \in [Slaves -> Seq(Batches)]
  BY <1>1, <1>3, <1>4
<1>6. TypeOK'
  BY <1>1, <1>5 DEF TypeOK
<1>7. OrderInv'
  <2>1. ASSUME NEW t \in Slaves
        PROVE  /\ Len(handed'[t]) <= Len(determined)
               /\ \A i \in 1 .. Len(handed'[t]) : handed'[t][i] = determined[i]
               /\ exec[t].epoch <= Len(handed'[t])
               /\ ~HasBatch(t)' => exec[t].pos = 0
               /\ HasBatch(t)' => exec[t].pos <= Len(CurrentBatch(t).tx_set)'
               /\ exec[t].next = "notify" => HasTx(t)'
    <3>1. /\ Len(handed[t]) <= Len(determined)
          /\ \A i \in 1 .. Len(handed[t]) : handed[t][i] = determined[i]
          /\ exec[t].epoch <= Len(handed[t])
          /\ ~HasBatch(t) => exec[t].pos = 0
          /\ HasBatch(t) => exec[t].pos <= Len(CurrentBatch(t).tx_set)
          /\ exec[t].next = "notify" => HasTx(t)
      BY DEF OrderInv
    <3>2. CASE t # s
      <4>1. handed'[t] = handed[t]
        BY <1>5, <3>2
      <4> QED BY <1>1, <3>1, <4>1 DEF HasBatch, CurrentBatch, HasTx
    <3>3. CASE t = s
      <4>1. \A i \in 1 .. Len(handed'[s]) : handed'[s][i] = determined[i]
        BY <1>3, <1>5, <3>1, <3>3
      <4>2. HasBatch(s)'
        BY <1>1, <1>3, <1>5, <3>1, <3>3 DEF HasBatch
      <4>3. CASE HasBatch(s)
        <5>1. CurrentBatch(s)' = CurrentBatch(s)
          BY <1>1, <1>3, <1>5, <4>3 DEF HasBatch, CurrentBatch
        <5> QED BY <1>1, <1>3, <1>5, <3>1, <3>3, <4>1, <4>2, <4>3, <5>1 DEF HasTx
      <4>4. CASE ~HasBatch(s)
        <5>1. exec[s].epoch = Len(handed[s])
          BY <1>3, <3>1, <3>3, <4>4 DEF HasBatch
        <5>2. CurrentBatch(s)' \in Batches
          BY <1>1, <1>4, <1>5, <5>1 DEF CurrentBatch
        <5>3. exec[s].pos <= Len(CurrentBatch(s).tx_set)'
          BY <3>1, <3>3, <4>4, <5>2 DEF Batches
        <5> QED BY <1>1, <1>3, <1>5, <3>1, <3>3, <4>1, <4>2, <4>4, <5>3 DEF HasTx
      <4> QED BY <4>3, <4>4
    <3> QED BY <3>2, <3>3
  <2>2. \A i : TxsAt(i)' = TxsAt(i)
    BY <1>1, <1>2 DEF TxsAt
  <2> QED BY <1>1, <1>2, <2>1, <2>2 DEF OrderInv
<1>8. ThreadInv' /\ ReadInv'
  BY <1>1 DEF ThreadInv, ReadInv
<1>9. KnownInv'
  BY <1>1, <1>2, KnownStays, KnownFrame DEF WriteTxs
<1>10. MasterInv'
  BY <1>1, <1>2, MasterFrame DEF MasterInv
<1>11. FloorInv' /\ StorageInv'
  BY <1>1, <1>2, FloorFrame, StorageFrame
<1>12. AnsweredWriteIsDone' /\ ReadsOwnWrites'
  BY <1>1, <1>2, AnsweredFrame, ReadsFrame
<1> QED BY <1>6, <1>7, <1>8, <1>9, <1>10, <1>11, <1>12

-----------------------------------------------------------------------------
(* The steps of the schedulers.                                            *)
(* The place slave s is at in its batch.                                   *)
Current(s) == <<exec[s].epoch + 1, exec[s].pos + 1>>

LEMMA CurrentPlace ==
  ASSUME TypeOK, OrderInv, NEW s \in Slaves, HasTx(s)
  PROVE  /\ Current(s) \in AllPlaces /\ TxAt(Current(s)) = CurrentTx(s)
         /\ CurrentTx(s) \in WriteTxs
         /\ ~Executed(s, Current(s))
         /\ Current(s)[1] = exec[s].epoch + 1 /\ Current(s)[1] <= Len(determined)
<1>1. /\ exec[s].epoch \in Nat /\ exec[s].pos \in Nat
      /\ Len(handed[s]) \in Nat /\ Len(determined) \in Nat /\ Len(rev_batch) \in Nat
  BY DEF TypeOK
<1>2. /\ exec[s].epoch < Len(handed[s]) /\ Len(handed[s]) <= Len(determined)
      /\ exec[s].pos < Len(handed[s][exec[s].epoch + 1].tx_set)
      /\ handed[s][exec[s].epoch + 1] = determined[exec[s].epoch + 1]
  BY SMTT(60), <1>1 DEF OrderInv, HasTx, HasBatch, CurrentBatch
<1>3. /\ exec[s].epoch + 1 <= Len(determined) /\ exec[s].epoch + 1 \in 1 .. LastBatch
      /\ exec[s].epoch + 1 \in 1 .. Len(determined)
  BY SMTT(60), <1>1, <1>2 DEF LastBatch
<1>4. TxsAt(exec[s].epoch + 1) = CurrentBatch(s).tx_set
  BY <1>2, <1>3 DEF TxsAt, CurrentBatch
<1>5. CurrentBatch(s).tx_set \in Seq(WriteTxs)
  <2>1. determined[exec[s].epoch + 1] \in Batches
    BY <1>3 DEF TypeOK
  <2> QED BY <1>2, <2>1 DEF CurrentBatch, Batches
<1>6. /\ exec[s].pos + 1 \in 1 .. MAX_BATCH_SIZE
      /\ exec[s].pos + 1 <= Len(CurrentBatch(s).tx_set)
  <2>1. Len(CurrentBatch(s).tx_set) <= MAX_BATCH_SIZE
    BY <1>3, <1>4 DEF OrderInv
  <2>2. exec[s].pos < Len(CurrentBatch(s).tx_set) /\ Len(CurrentBatch(s).tx_set) \in Nat
    BY <1>2, <1>5 DEF CurrentBatch
  <2> QED BY <1>1, <2>1, <2>2, Bounds
<1>7. Current(s) \in AllPlaces
  BY <1>3, <1>4, <1>6 DEF AllPlaces, Current
<1>8. TxAt(Current(s)) = CurrentTx(s)
  BY <1>4 DEF TxAt, Current, CurrentTx
<1>9. ~Executed(s, Current(s))
  BY <1>1 DEF Executed, Current
<1> QED BY <1>3, <1>7, <1>8, <1>9, PlaceType DEF Current

(* The transaction slave s is at, if it is of a client of its own, is the  *)
(* one that client's thread waits for.                                     *)
LEMMA CurrentIsAwaited ==
  ASSUME IInv, NEW s \in Slaves, HasTx(s), NEW c, c = CurrentTx(s).client,
         Home[c] = s
  PROVE  /\ c \in Clients /\ tx[c].type = "WRITE_ONLY" /\ CurrentTx(s) = WriteTx(c)
         /\ tx[c].id = CurrentTx(s).id
         /\ tx[c].complete_flag = 0 /\ wait_for_exe[c] /\ thread_pc[c] # "receive"
<1> USE DEF IInv
<1> DEFINE x == CurrentTx(s)
<1>1. /\ Current(s) \in AllPlaces /\ TxAt(Current(s)) = x /\ x \in WriteTxs
      /\ ~Executed(s, Current(s))
  BY CurrentPlace
<1>2. IsKnown(x) /\ c \in Clients /\ x.id \in Nat /\ tx[c].id \in Int /\ tx[c] \in Txs
  BY SMTT(60), <1>1, Bounds DEF KnownInv, WriteTxs, TxIds, TypeOK, Txs
<1>3. ~Done(c, x.id)
  BY <1>1 DEF Done, Places, MasterInv
<1>4. x.id = tx[c].id /\ tx[c].complete_flag # 1
  BY <1>2, <1>3 DEF IsKnown
<1>5. tx[c].type = "WRITE_ONLY" /\ x = WriteTx(c)
  BY <1>2, <1>4 DEF IsKnown
<1>6. tx[c].complete_flag = 0
  BY <1>2, <1>4 DEF Txs
<1>7. wait_for_exe[c] /\ thread_pc[c] # "receive"
  BY <1>2, <1>4, <1>5 DEF ThreadInv
<1> QED BY <1>2, <1>4, <1>5, <1>6, <1>7

LEMMA WriteToStorageInv ==
  ASSUME IInv, NEW s \in Slaves, WriteToStorage(s)
  PROVE  IInv'
<1> USE DEF IInv
<1>1. /\ UNCHANGED <<threadVars, addVars, masterVars, orderVars, read_tx_buffer,
                     historyVars>>
      /\ HasTx(s) /\ exec[s].next = "write"
      /\ storage' = [storage EXCEPT ![s][CurrentTx(s).key] = Short(@ + 1)]
      /\ exec' = [exec EXCEPT ![s].next = "notify"]
  BY DEF WriteToStorage
<1> USE DEF threadVars, addVars, masterVars, orderVars, historyVars
<1>2. /\ exec'[s].epoch = exec[s].epoch /\ exec'[s].pos = exec[s].pos
      /\ exec'[s].next = "notify"
      /\ \A t \in Slaves : t # s => exec'[t] = exec[t]
      /\ exec' \in [Slaves -> [epoch : Nat, pos : Nat, next : {"write", "notify"}]]
  BY <1>1 DEF TypeOK
<1>3. \A t \in Slaves : /\ exec'[t].epoch = exec[t].epoch
                        /\ exec'[t].pos = exec[t].pos
  BY <1>2
<1>4. /\ \A t \in Slaves : \A p : Executed(t, p)' <=> Executed(t, p)
      /\ SamePlaces /\ LastBatch' = LastBatch /\ KeepsPlaces /\ KeepsExecuted
  BY <1>1, <1>3, UnchangedPlaces, SameKeeps DEF Executed, KeepsExecuted
<1>5. /\ Current(s) \in AllPlaces /\ TxAt(Current(s)) = CurrentTx(s)
      /\ CurrentTx(s).key \in Keys /\ ~Executed(s, Current(s))
  BY <1>1, CurrentPlace DEF WriteTxs
<1>6. /\ storage \in [Slaves -> [Keys -> Values]]
      /\ storage'[s][CurrentTx(s).key] = Short(storage[s][CurrentTx(s).key] + 1)
      /\ \A t \in Slaves, k \in Keys :
           t # s \/ k # CurrentTx(s).key => storage'[t][k] = storage[t][k]
      /\ storage' \in [Slaves -> [Keys -> Values]]
  <2>1. storage \in [Slaves -> [Keys -> Values]]
    BY DEF TypeOK
  <2>2. Short(storage[s][CurrentTx(s).key] + 1) \in Values
    <3>1. storage[s][CurrentTx(s).key] + 1 \in Int
      BY <1>5, <2>1, HalfAssumption DEF Values
    <3> QED BY <3>1, ShortRange
  <2> QED BY SMTT(60), <1>1, <1>5, <2>1, <2>2
<1>7. TypeOK'
  BY <1>1, <1>2, <1>6 DEF TypeOK
<1>8. OrderInv'
  <2>1. \A t \in Slaves : /\ HasBatch(t)' <=> HasBatch(t)
                          /\ CurrentBatch(t)' = CurrentBatch(t)
                          /\ HasTx(t)' <=> HasTx(t)
    BY <1>1, <1>3 DEF HasBatch, CurrentBatch, HasTx
  <2>2. \A i : TxsAt(i)' = TxsAt(i)
    BY <1>1, <1>4 DEF TxsAt
  <2>3. \A t \in Slaves : exec'[t].next = "notify" => HasTx(t)'
    BY <1>1, <1>2, <2>1 DEF OrderInv
  <2> QED BY <1>1, <1>3, <1>4, <2>1, <2>2, <2>3 DEF OrderInv
<1>9. ThreadInv' /\ ReadInv'
  BY <1>1, ThreadFrame
<1>10. KnownInv'
  BY <1>1, <1>4, KnownStays, KnownFrame DEF WriteTxs
<1>11. MasterInv'
  BY <1>1, <1>4, MasterFrame DEF MasterInv
<1>12. FloorInv'
  BY <1>1, <1>4, FloorFrame
<1>13. ASSUME NEW t \in Slaves, NEW k, t # s \/ k # CurrentTx(s).key
       PROVE  WrittenPlaces(t, k)' = WrittenPlaces(t, k)
  <2>1. CASE t # s
    BY <1>2, <1>4, <2>1 DEF WrittenPlaces, SamePlaces
  <2>2. CASE t = s
    BY <1>1, <1>2, <1>4, <1>5, <1>13, <2>2 DEF WrittenPlaces, SamePlaces, Current
  <2> QED BY <2>1, <2>2
<1>14. \A k : k = CurrentTx(s).key =>
         /\ WrittenPlaces(s, k)' = WrittenPlaces(s, k) \cup {Current(s)}
         /\ Current(s) \notin WrittenPlaces(s, k)
  BY <1>1, <1>2, <1>4, <1>5 DEF WrittenPlaces, SamePlaces, Current
<1>15. StorageInv'
  <2> SUFFICES ASSUME NEW t \in Slaves, NEW k \in Keys
               PROVE  storage'[t][k] = Short(Cardinality(WrittenPlaces(t, k)'))
    BY DEF StorageInv
  <2> DEFINE n == Cardinality(WrittenPlaces(t, k))
  <2>1. storage[t][k] = Short(n)
    BY DEF StorageInv
  <2>2. CASE t # s \/ k # CurrentTx(s).key
    BY <1>6, <1>13, <2>1, <2>2
  <2>3. CASE t = s /\ k = CurrentTx(s).key
    <3>1. IsFiniteSet(WrittenPlaces(t, k)) /\ n \in Nat
      BY FinitePlaces, FS_CardinalityType
    <3>2. Cardinality(WrittenPlaces(t, k)') = n + 1
      BY <1>14, <2>3, <3>1, FS_AddElement
    <3>3. storage'[t][k] = Short(Short(n) + 1)
      BY <1>6, <2>1, <2>3
    <3>4. Short(Short(n) + 1) = Short(n + 1)
      BY <3>1, ShortOfNext
    <3> QED BY <3>2, <3>3, <3>4
  <2> QED BY <2>2, <2>3
<1>16. AnsweredWriteIsDone'
  BY <1>1, <1>4, AnsweredFrame
<1>17. ReadsOwnWrites'
  <2>1. \A d \in Clients : OwnWrites(d)' = OwnWrites(d)
    BY <1>1, <1>4, OwnWritesFrame
  <2>2. ASSUME NEW t \in Slaves, NEW k
        PROVE  \/ WrittenPlaces(t, k)' = WrittenPlaces(t, k)
               \/ \E p : WrittenPlaces(t, k)' = WrittenPlaces(t, k) \cup {p}
    BY <1>13, <1>14
  <2> QED BY <1>1, <2>1, <2>2, ReadsStay
<1> QED BY <1>7, <1>8, <1>9, <1>10, <1>11, <1>12, <1>15, <1>16, <1>17

LEMMA NotifyClientInv ==
  ASSUME IInv, NEW s \in Slaves, NotifyClient(s)
  PROVE  IInv'
<1> USE DEF IInv
<1>0. PICK c \in Clients : c = CurrentTx(s).client
  BY CurrentPlace DEF NotifyClient, WriteTxs
<1>1. /\ UNCHANGED <<thread_pc, wait_for_exe, addVars, masterVars, orderVars,
                     read_tx_buffer, storage, historyVars>>
      /\ HasTx(s) /\ exec[s].next = "notify"
      /\ tx' = IF Home[c] = s
                 THEN [tx EXCEPT ![c].assigned_epoch_id = exec[s].epoch,
                                 ![c].complete_flag = 1]
                 ELSE tx
      /\ exec' = [exec EXCEPT ![s].pos = @ + 1, ![s].next = "write"]
  BY <1>0 DEF NotifyClient
<1> USE DEF addVars, masterVars, orderVars, historyVars
<1>2. /\ exec[s].epoch \in Nat /\ exec[s].pos \in Nat
      /\ exec'[s].epoch = exec[s].epoch /\ exec'[s].pos = exec[s].pos + 1
      /\ exec'[s].next = "write"
      /\ \A t \in Slaves : t # s => exec'[t] = exec[t]
      /\ exec' \in [Slaves -> [epoch : Nat, pos : Nat, next : {"write", "notify"}]]
  <2>1. exec \in [Slaves -> [epoch : Nat, pos : Nat, next : {"write", "notify"}]]
    BY DEF TypeOK
  <2>2. exec'[s] = [exec[s] EXCEPT !.pos = @ + 1, !.next = "write"]
    BY <1>1, <2>1
  <2>3. exec[s].pos + 1 \in Nat
    BY <2>1
  <2> QED BY <1>1, <2>1, <2>2, <2>3
<1>3. /\ Current(s) \in AllPlaces /\ TxAt(Current(s)) = CurrentTx(s)
      /\ CurrentTx(s) \in WriteTxs /\ ~Executed(s, Current(s))
      /\ Current(s)[1] = exec[s].epoch + 1 /\ Current(s)[1] <= Len(determined)
  BY <1>1, CurrentPlace
<1>4. SamePlaces /\ LastBatch' = LastBatch /\ KeepsPlaces
  BY <1>1, UnchangedPlaces, SameKeeps
<1>5. ASSUME NEW p \in AllPlaces
      PROVE  Executed(s, p)' <=> Executed(s, p) \/ p = Current(s)
  <2>1. p = <<p[1], p[2]>> /\ p[1] \in Nat /\ p[2] \in Nat
    BY PlaceType
  <2> QED BY <1>2, <2>1 DEF Executed, Current
<1>6. \A t \in Slaves : t # s => \A p : Executed(t, p)' <=> Executed(t, p)
  BY <1>2 DEF Executed
<1>7. KeepsExecuted
  BY <1>5, <1>6 DEF KeepsExecuted
<1>9. /\ \A d \in Clients : /\ tx'[d].id = tx[d].id /\ tx'[d].type = tx[d].type
                           /\ tx'[d].key = tx[d].key /\ tx'[d].value = tx[d].value
      /\ \A d \in Clients : d # c => tx'[d] = tx[d]
      /\ Home[c] # s => tx' = tx
      /\ Home[c] = s => /\ tx'[c].assigned_epoch_id = exec[s].epoch
                        /\ tx'[c].complete_flag = 1
      /\ tx' \in [Clients -> Txs]
  <2>1. tx \in [Clients -> Txs]
    BY DEF TypeOK
  <2>2. CASE Home[c] = s
    BY <1>1, <1>2, <1>0, <2>1, <2>2 DEF Txs
  <2>3. CASE Home[c] # s
    BY <1>1, <2>1, <2>3
  <2> QED BY <2>2, <2>3
<1>10. Home[c] = s => /\ tx[c].type = "WRITE_ONLY" /\ CurrentTx(s) = WriteTx(c)
                      /\ tx[c].id = CurrentTx(s).id /\ tx[c].complete_flag = 0
                      /\ wait_for_exe[c] /\ thread_pc[c] # "receive"
  BY <1>0, <1>1, CurrentIsAwaited
<1>11. TypeOK'
  BY <1>1, <1>2, <1>9 DEF TypeOK
<1>12. OrderInv'
  <2>1. \A t \in Slaves : /\ HasBatch(t)' <=> HasBatch(t)
                          /\ CurrentBatch(t)' = CurrentBatch(t)
    BY <1>1, <1>2 DEF HasBatch, CurrentBatch
  <2>2. \A i : TxsAt(i)' = TxsAt(i)
    BY <1>1, <1>4 DEF TxsAt
  <2>3. ASSUME NEW t \in Slaves
        PROVE  /\ exec'[t].epoch <= Len(handed'[t])
               /\ ~HasBatch(t)' => exec'[t].pos = 0
               /\ HasBatch(t)' => exec'[t].pos <= Len(CurrentBatch(t).tx_set)'
               /\ exec'[t].next = "notify" => HasTx(t)'
    <3>1. CASE t # s
      BY <1>1, <1>2, <2>1, <3>1 DEF OrderInv, HasTx
    <3>2. CASE t = s
      <4>1. exec[s].pos < Len(CurrentBatch(s).tx_set) /\ HasBatch(s)
        BY <1>1 DEF HasTx
      <4>2. Len(CurrentBatch(s).tx_set) \in Nat
        <5>1. CurrentBatch(s) \in Batches
          BY SMTT(60), <1>1, <1>2 DEF TypeOK, CurrentBatch, HasTx, HasBatch
        <5> QED BY <5>1 DEF Batches
      <4>3. exec[s].pos + 1 <= Len(CurrentBatch(s).tx_set)
        BY <1>2, <4>1, <4>2
      <4> QED BY <1>1, <1>2, <2>1, <3>2, <4>1, <4>3 DEF OrderInv
    <3> QED BY <3>1, <3>2
  <2> QED BY <1>1, <1>4, <2>2, <2>3 DEF OrderInv
<1>13. ThreadInv'
  BY <1>1, <1>9, <1>10 DEF ThreadInv
<1>14. ReadInv'
  <2>1. \A t \in Slaves : \A i \in 1 .. Len(read_tx_buffer[t]) :
          /\ read_tx_buffer[t][i] \in Clients
          /\ tx'[read_tx_buffer[t][i]] = tx[read_tx_buffer[t][i]]
    BY <1>9, <1>10, ReaderType DEF ReadInv
  <2>2. read_tx_buffer' = read_tx_buffer /\ thread_pc' = thread_pc
    BY <1>1
  <2>3. ASSUME NEW t \in Slaves, NEW i \in 1 .. Len(read_tx_buffer[t]),
               NEW d, d = read_tx_buffer[t][i]
        PROVE  /\ Home[d] = t /\ thread_pc'[d] = "wait_flag"
               /\ tx'[d].type = "READ_ONLY" /\ tx'[d].complete_flag = 0
               /\ \A j \in 1 .. Len(read_tx_buffer[t]) :
                    read_tx_buffer[t][j] = d => j = i
    BY <2>1, <2>2, <2>3 DEF ReadInv
  <2> QED BY <2>2, <2>3 DEF ReadInv
<1>15. Home[c] = s => Done(c, tx[c].id)'
  <2>1. CASE Home[c] = s
    <3>1. Current(s) \in Places(c, tx[c].id)
      BY <1>0, <1>3, <1>10, <2>1 DEF Places
    <3>2. Current(s) \in Places(c, tx[c].id)'
      BY <1>0, <1>4, <1>9, <3>1, SamePlacesOfEach
    <3>3. \A p : p = Current(s) => Executed(s, p)'
      BY <1>3, <1>5
    <3> QED BY <2>1, <3>2, <3>3 DEF Done
  <2> QED BY <2>1
<1>16. KnownInv'
  <2>1. ASSUME NEW x \in WriteTxs, IsKnown(x)
        PROVE  IsKnown(x)'
    <3>1. CASE x.client # c \/ Home[c] # s
      BY <1>4, <1>7, <1>9, <2>1, <3>1, KnownStays DEF WriteTxs
    <3>2. CASE x.client = c /\ Home[c] = s
      <4>1. x.id < tx[c].id => Done(c, x.id)'
        BY <1>4, <1>7, <1>0, <2>1, <3>2, DoneStays DEF IsKnown
      <4>2. x.id = tx[c].id \/ x.id < tx[c].id
        BY SMTT(60), <1>0, <2>1, <3>2, Bounds DEF IsKnown, WriteTxs, TxIds, TypeOK, Txs
      <4>3. Done(c, x.id)'
        <5>1. CASE x.id = tx[c].id
          BY <1>0, <1>9, <1>15, <3>2, <5>1
        <5> QED BY <4>1, <4>2, <5>1
      <4> QED BY <1>0, <1>9, <2>1, <3>2, <4>3 DEF IsKnown, WriteTx
    <3> QED BY <3>1, <3>2
  <2> QED BY <1>1, <1>4, <2>1, KnownFrame
<1>17. MasterInv'
  BY <1>1, <1>4, <1>9, MasterFrame DEF MasterInv
<1>18. FloorInv'
  BY <1>1, <1>4, <1>9, FloorFrame
<1>22. ASSUME NEW t \in Slaves, NEW k
       PROVE  WrittenPlaces(t, k)' = WrittenPlaces(t, k)
  <2>1. CASE t # s
    BY <1>2, <1>4, <1>6, <2>1 DEF WrittenPlaces, SamePlaces
  <2>2. CASE t = s
    BY <1>1, <1>2, <1>4, <1>5, <2>2 DEF WrittenPlaces, SamePlaces, Current
  <2> QED BY <2>1, <2>2
<1>19. StorageInv'
  BY <1>1, <1>22 DEF StorageInv
<1>20. AnsweredWriteIsDone'
  <2> SUFFICES ASSUME NEW d \in Clients, tx'[d].type = "WRITE_ONLY",
                      tx'[d].complete_flag = 1
               PROVE  \E p \in Places(d, tx[d].id)' :
                        /\ p[1] <= Len(determined')
                        /\ p[1] = tx'[d].assigned_epoch_id + 1
                        /\ Executed(Home[d], p)'
    BY DEF AnsweredWriteIsDone
  <2>1. CASE d # c \/ Home[c] # s
    <3>1. tx'[d] = tx[d]
      BY <1>9, <2>1
    <3>2. Len(determined) <= Len(determined') /\ Len(determined') \in Nat
      BY <1>1 DEF TypeOK
    <3> QED BY <1>4, <1>7, <3>1, <3>2, AnsweredStays
  <2>2. CASE d = c /\ Home[c] = s
    <3>1. Current(s) \in Places(c, tx[c].id)'
      <4>1. Current(s) \in Places(c, tx[c].id)
        BY <1>0, <1>3, <1>10, <2>2 DEF Places
      <4> QED BY <1>0, <1>4, <1>9, <4>1, SamePlacesOfEach
    <3>2. \A p : p = Current(s) => Executed(s, p)'
      BY <1>3, <1>5
    <3> QED BY <1>1, <1>3, <1>9, <2>2, <3>1, <3>2
  <2> QED BY <2>1, <2>2
<1>21. ReadsOwnWrites'
  <2>1. ASSUME NEW d \in Clients, tx'[d].type = "READ_ONLY", tx'[d].complete_flag = 1
        PROVE  tx'[d] = tx[d] /\ OwnWrites(d)' = OwnWrites(d)
    <3>1. tx'[d] = tx[d]
      BY <1>9, <1>10, <2>1
    <3> QED BY <1>4, <3>1, OwnWritesFrame
  <2> QED BY <1>22, <2>1, ReadsStay
<1> QED BY <1>11, <1>12, <1>13, <1>14, <1>16, <1>17, <1>18, <1>19, <1>20, <1>21

LEMMA EndBatchInv ==
  ASSUME IInv, NEW s \in Slaves, EndBatch(s)
  PROVE  IInv'
<1> USE DEF IInv
<1>1. /\ UNCHANGED <<threadVars, addVars, masterVars, orderVars, read_tx_buffer,
                     storage, historyVars>>
      /\ HasBatch(s) /\ ~HasTx(s)
      /\ exec' = [exec EXCEPT ![s].epoch = @ + 1, ![s].pos = 0]
  BY DEF EndBatch
<1> USE DEF threadVars, addVars, masterVars, orderVars, historyVars
<1>2. /\ exec[s].epoch \in Nat /\ exec[s].pos \in Nat
      /\ exec'[s].epoch = exec[s].epoch + 1 /\ exec'[s].pos = 0
      /\ exec'[s].next = exec[s].next /\ exec[s].next \in {"write", "notify"}
      /\ \A t \in Slaves : t # s => exec'[t] = exec[t]
      /\ exec' \in [Slaves -> [epoch : Nat, pos : Nat, next : {"write", "notify"}]]
  <2>1. exec \in [Slaves -> [epoch : Nat, pos : Nat, next : {"write", "notify"}]]
    BY DEF TypeOK
  <2>2. exec'[s] = [exec[s] EXCEPT !.epoch = @ + 1, !.pos = 0]
    BY <1>1, <2>1
  <2>3. exec[s].epoch + 1 \in Nat
    BY <2>1
  <2>4. /\ exec'[s] \in [epoch : Nat, pos : Nat, next : {"write", "notify"}]
        /\ exec'[s].epoch = exec[s].epoch + 1 /\ exec'[s].pos = 0
        /\ exec'[s].next = exec[s].next
    <3>1. exec[s] \in [epoch : Nat, pos : Nat, next : {"write", "notify"}]
      BY <2>1
    <3>2. /\ exec'[s].epoch = exec[s].epoch + 1 /\ exec'[s].pos = 0
          /\ exec'[s].next = exec[s].next
      BY <2>2, <3>1
    <3>3. [exec[s] EXCEPT !.epoch = @ + 1, !.pos = 0]
            \in [epoch : Nat, pos : Nat, next : {"write", "notify"}]
      BY <2>3, <3>1
    <3> QED BY <2>2, <3>2, <3>3
  <2>5. \A t \in Slaves : t # s => exec'[t] = exec[t]
    BY <1>1, <2>1
  <2>6. DOMAIN exec' = Slaves /\ exec' = [t \in Slaves |-> exec'[t]]
    BY <1>1, <2>1
  <2>7. exec' \in [Slaves -> [epoch : Nat, pos : Nat, next : {"write", "notify"}]]
    BY <2>1, <2>4, <2>5, <2>6
  <2> QED BY <2>1, <2>4, <2>5, <2>7
<1>3. exec[s].next # "notify"
  BY <1>1 DEF OrderInv
<1>4. SamePlaces /\ LastBatch' = LastBatch /\ KeepsPlaces
  BY <1>1, UnchangedPlaces, SameKeeps
<1>5. /\ exec[s].epoch < Len(handed[s]) /\ Len(handed[s]) \in Nat
      /\ Len(determined) \in Nat /\ Len(rev_batch) \in Nat
      /\ Len(handed[s]) <= Len(determined)
      /\ exec[s].pos >= Len(determined[exec[s].epoch + 1].tx_set)
  <2>1. /\ exec[s].epoch < Len(handed[s]) /\ Len(handed[s]) \in Nat
        /\ Len(determined) \in Nat /\ Len(rev_batch) \in Nat
        /\ Len(handed[s]) <= Len(determined)
    BY <1>1 DEF HasBatch, OrderInv, TypeOK
  <2>2. handed[s][exec[s].epoch + 1] = determined[exec[s].epoch + 1]
    BY SMTT(60), <1>2, <2>1 DEF OrderInv
  <2>3. determined[exec[s].epoch + 1] \in Batches
    BY <1>2, <2>1 DEF TypeOK
  <2>4. Len(determined[exec[s].epoch + 1].tx_set) \in Nat
    BY <2>3 DEF Batches
  <2> QED BY <1>1, <1>2, <2>1, <2>2, <2>4 DEF HasTx, CurrentBatch
<1>6. ASSUME NEW p \in AllPlaces
      PROVE  Executed(s, p)' <=> Executed(s, p)
  <2>1. p[1] \in Nat /\ p[2] \in Nat /\ p[2] >= 1 /\ p[2] <= Len(TxsAt(p[1]))
    BY PlaceType
  <2>2. CASE p[1] = exec[s].epoch + 1
    <3>1. TxsAt(p[1]) = determined[exec[s].epoch + 1].tx_set
      BY <1>2, <1>5, <2>2 DEF TxsAt
    <3>2. determined[exec[s].epoch + 1] \in Batches
      BY <1>2, <1>5 DEF TypeOK
    <3>3. Len(determined[exec[s].epoch + 1].tx_set) \in Nat
      BY <3>2 DEF Batches
    <3>4. p[2] <= exec[s].pos
      BY SMTT(60), <1>2, <1>5, <2>1, <3>1, <3>3
    <3> QED BY <1>2, <2>1, <2>2, <3>4 DEF Executed
  <2>3. CASE p[1] # exec[s].epoch + 1
    BY SMTT(60), <1>2, <2>1, <2>3 DEF Executed
  <2> QED BY <2>2, <2>3
<1>7. \A t \in Slaves : \A p \in AllPlaces : Executed(t, p)' <=> Executed(t, p)
  <2>1. \A t \in Slaves : t # s => \A p : Executed(t, p)' <=> Executed(t, p)
    BY <1>2 DEF Executed
  <2> QED BY <1>6, <2>1
<1>8. KeepsExecuted
  BY <1>7 DEF KeepsExecuted
<1>9. TypeOK'
  BY <1>1, <1>2 DEF TypeOK
<1>10. OrderInv'
  <2>1. \A i : TxsAt(i)' = TxsAt(i)
    BY <1>1, <1>4 DEF TxsAt
  <2>2. ASSUME NEW t \in Slaves
        PROVE  /\ exec'[t].epoch <= Len(handed'[t])
               /\ ~HasBatch(t)' => exec'[t].pos = 0
               /\ HasBatch(t)' => exec'[t].pos <= Len(CurrentBatch(t).tx_set)'
               /\ exec'[t].next = "notify" => HasTx(t)'
    <3>1. CASE t # s
      BY <1>1, <1>2, <3>1 DEF OrderInv, HasTx, HasBatch, CurrentBatch
    <3>2. CASE t = s
      <4>1. exec[s].epoch + 1 <= Len(handed[s])
        BY SMTT(60), <1>2, <1>5
      <4>2. HasBatch(s)' => 0 <= Len(CurrentBatch(s).tx_set)'
        <5> SUFFICES ASSUME HasBatch(s)'
                     PROVE  0 <= Len(CurrentBatch(s).tx_set)'
          OBVIOUS
        <5>1. exec'[s].epoch + 1 \in 1 .. Len(handed'[s])
          BY <1>1, <1>2, <1>5 DEF HasBatch
        <5>2. handed'[s] \in Seq(Batches)
          BY <1>9 DEF TypeOK
        <5>3. CurrentBatch(s)' \in Batches
          BY <5>1, <5>2 DEF CurrentBatch
        <5> QED BY <5>3 DEF Batches
      <4> QED BY <1>1, <1>2, <1>3, <3>2, <4>1, <4>2
    <3> QED BY <3>1, <3>2
  <2> QED BY <1>1, <1>4, <2>1, <2>2 DEF OrderInv
<1>11. ThreadInv' /\ ReadInv'
  BY <1>1 DEF ThreadInv, ReadInv
<1>12. KnownInv'
  BY <1>1, <1>4, <1>8, KnownStays, KnownFrame DEF WriteTxs
<1>13. MasterInv'
  BY <1>1, <1>4, MasterFrame DEF MasterInv
<1>14. FloorInv'
  BY <1>1, <1>4, FloorFrame
<1>15. StorageInv' /\ ReadsOwnWrites'
  <2>1. \A t \in Slaves : exec'[t].next = "notify" =>
          exec[t].next = "notify" /\ t # s
    BY <1>2, <1>3
  <2>2. \A t \in Slaves : exec[t].next = "notify" => t # s /\ exec'[t] = exec[t]
    BY <1>2, <1>3
  <2>3. ASSUME NEW t \in Slaves, NEW k
        PROVE  WrittenPlaces(t, k)' = WrittenPlaces(t, k)
    BY <1>4, <1>7, <2>1, <2>2 DEF WrittenPlaces, SamePlaces
  <2>4. StorageInv'
    BY <1>1, <2>3 DEF StorageInv
  <2>5. \A d \in Clients : OwnWrites(d)' = OwnWrites(d)
    BY <1>1, <1>4, OwnWritesFrame
  <2>6. ReadsOwnWrites'
    BY <1>1, <2>3, <2>5, ReadsStay
  <2> QED BY <2>4, <2>6
<1>16. AnsweredWriteIsDone'
  BY <1>1, <1>4, <1>8, AnsweredFrame
<1> QED BY <1>9, <1>10, <1>11, <1>12, <1>13, <1>14, <1>15, <1>16

(* The writes of a client that its present request comes after have been   *)
(* made by its slave.                                                      *)
LEMMA OwnWritesAreStored ==
  ASSUME IInv, NEW c \in Clients
  PROVE  /\ Cardinality(OwnWrites(c)) \in Nat
         /\ Cardinality(WrittenPlaces(Home[c], tx[c].key)) \in Nat
         /\ Cardinality(OwnWrites(c))
              <= Cardinality(WrittenPlaces(Home[c], tx[c].key))
<1> USE DEF IInv
<1> DEFINE W == WrittenPlaces(Home[c], tx[c].key)
           f == [id \in OwnWrites(c) |-> CHOOSE p \in W : TxAt(p).id = id]
<1>1. Home[c] \in Slaves /\ tx[c].id \in Int
  BY HomeAssumption, Bounds DEF TypeOK, Txs
<1>2. ASSUME NEW id \in OwnWrites(c)
      PROVE  \E p \in W : TxAt(p).id = id
  <2>1. id < tx[c].id /\ \E p \in Places(c, id) : TxAt(p).key = tx[c].key
    BY <1>1 DEF OwnWrites
  <2>2. PICK p \in Places(c, id) : TxAt(p).key = tx[c].key
    BY <2>1
  <2>3. p \in AllPlaces /\ TxAt(p).client = c /\ TxAt(p).id = id
    BY DEF Places
  <2>4. Done(c, id)
    BY <2>1, <2>3 DEF KnownInv, IsKnown
  <2>5. Executed(Home[c], p)
    BY <2>3, <2>4 DEF Done, MasterInv, Places
  <2>6. p \in W
    BY <2>2, <2>3, <2>5 DEF WrittenPlaces
  <2> QED BY <2>3, <2>6
<1>3. \A id \in OwnWrites(c) : f[id] \in W /\ TxAt(f[id]).id = id
  BY <1>2
<1> HIDE DEF f
<1>4. f \in [OwnWrites(c) -> W]
  BY <1>3 DEF f
<1>5. f \in Injection(OwnWrites(c), W)
  BY <1>3, <1>4 DEF Injection, IsInjective
<1>6. IsFiniteSet(W)
  BY FinitePlaces
<1>7. Cardinality(OwnWrites(c)) <= Cardinality(W)
  BY <1>5, <1>6, FS_Injection
<1>8. Cardinality(OwnWrites(c)) \in Nat
  <2>1. OwnWrites(c) \in SUBSET (0 .. tx[c].id - 1)
    BY DEF OwnWrites
  <2>2. IsFiniteSet(0 .. tx[c].id - 1)
    BY SMTT(60), <1>1, FS_Interval
  <2> QED BY <2>1, <2>2, FS_Subset, FS_CardinalityType
<1> QED BY <1>6, <1>7, <1>8, FS_CardinalityType

LEMMA ExecuteReadInv ==
  ASSUME IInv, NEW s \in Slaves, ExecuteRead(s)
  PROVE  IInv'
<1> USE DEF IInv
<1>1. PICK c : c = Head(read_tx_buffer[s])
  OBVIOUS
<1>2. /\ UNCHANGED <<thread_pc, wait_for_exe, addVars, masterVars, orderVars,
                     exec, storage, historyVars>>
      /\ read_tx_buffer[s] # <<>>
      /\ tx' = [tx EXCEPT ![c].value = storage[s][tx[c].key],
                          ![c].complete_flag = 1]
      /\ read_tx_buffer' = [read_tx_buffer EXCEPT ![s] = Tail(@)]
  BY <1>1 DEF ExecuteRead
<1> USE DEF addVars, masterVars, orderVars, historyVars
<1>3. SamePlaces /\ KeepsPlaces /\ KeepsExecuted
  BY <1>2, UnchangedPlaces, SameKeeps, SameExecuted
<1>4. /\ read_tx_buffer \in [Slaves -> Seq(Clients)]
      /\ read_tx_buffer[s] \in Seq(Clients)
      /\ Len(read_tx_buffer[s]) \in Nat /\ Len(read_tx_buffer[s]) >= 1
      /\ c = read_tx_buffer[s][1] /\ c \in Clients
  <2>1. read_tx_buffer \in [Slaves -> Seq(Clients)] /\ read_tx_buffer[s] \in Seq(Clients)
    BY DEF TypeOK
  <2>2. Len(read_tx_buffer[s]) \in Nat /\ Len(read_tx_buffer[s]) >= 1
        /\ read_tx_buffer[s][1] \in Clients
    BY <1>2, <2>1, NonEmptySeq
  <2>3. c = read_tx_buffer[s][1]
    BY <1>1, <1>2, <2>1
  <2> QED BY <2>1, <2>2, <2>3
<1>5. /\ Home[c] = s /\ thread_pc[c] = "wait_flag"
      /\ tx[c].type = "READ_ONLY" /\ tx[c].complete_flag = 0
      /\ \A j \in 1 .. Len(read_tx_buffer[s]) : read_tx_buffer[s][j] = c => j = 1
  BY <1>4 DEF ReadInv
<1>6. /\ tx[c].key \in Keys /\ tx[c].id >= 0 /\ tx[c].id \in Int
      /\ storage[s][tx[c].key] \in Values /\ tx \in [Clients -> Txs]
  <2>1. tx[c].key \in Keys /\ tx[c].id >= 0
    BY <1>4, <1>5 DEF ThreadInv
  <2>2. storage[s] \in [Keys -> Values] /\ tx \in [Clients -> Txs]
    BY DEF TypeOK
  <2>3. tx[c].id \in Int
    BY <1>4, <2>2, Bounds DEF Txs
  <2> QED BY <2>1, <2>2, <2>3
<1>7. /\ \A d \in Clients : d # c => tx'[d] = tx[d]
      /\ tx'[c].value = storage[s][tx[c].key] /\ tx'[c].complete_flag = 1
      /\ tx'[c].id = tx[c].id /\ tx'[c].type = tx[c].type /\ tx'[c].key = tx[c].key
      /\ tx'[c].assigned_epoch_id = tx[c].assigned_epoch_id
      /\ tx' \in [Clients -> Txs]
  <2>1. tx'[c] = [tx[c] EXCEPT !.value = storage[s][tx[c].key], !.complete_flag = 1]
    BY <1>2, <1>4, <1>6
  <2>2. tx[c] \in Txs
    BY <1>4, <1>6
  <2>3. \A d \in Clients : d # c => tx'[d] = tx[d]
    BY <1>2, <1>6
  <2>4. tx'[c] \in Txs
    BY <1>6, <2>1, <2>2 DEF Txs
  <2>5. tx' \in [Clients -> Txs]
    BY <1>2, <1>4, <1>6, <2>4
  <2> QED BY <2>1, <2>2, <2>3, <2>5 DEF Txs
<1>8. /\ read_tx_buffer' \in [Slaves -> Seq(Clients)]
      /\ \A t \in Slaves : t # s => read_tx_buffer'[t] = read_tx_buffer[t]
      /\ Len(read_tx_buffer'[s]) = Len(read_tx_buffer[s]) - 1
      /\ \A i \in 1 .. Len(read_tx_buffer'[s]) :
           /\ i + 1 \in 1 .. Len(read_tx_buffer[s]) /\ i + 1 # 1
           /\ read_tx_buffer'[s][i] = read_tx_buffer[s][i + 1]
  BY <1>2, <1>4
<1>9. TypeOK'
  BY <1>2, <1>7, <1>8 DEF TypeOK
<1>10. OrderInv'
  BY SMTT(60), <1>2, OrderFrame
<1>11. ThreadInv'
  BY <1>2, <1>5, <1>7 DEF ThreadInv
<1>12. ReadInv'
  <2> SUFFICES ASSUME NEW t \in Slaves, NEW i \in 1 .. Len(read_tx_buffer'[t]),
                      NEW d, d = read_tx_buffer'[t][i]
               PROVE  /\ Home[d] = t /\ thread_pc'[d] = "wait_flag"
                      /\ tx'[d].type = "READ_ONLY" /\ tx'[d].complete_flag = 0
                      /\ \A j \in 1 .. Len(read_tx_buffer'[t]) :
                           read_tx_buffer'[t][j] = d => j = i
    BY DEF ReadInv
  <2>1. CASE t # s
    <3>1. read_tx_buffer'[t] = read_tx_buffer[t]
      BY <1>8, <2>1
    <3>2. /\ d \in Clients /\ Home[d] = t /\ thread_pc[d] = "wait_flag"
          /\ tx[d].type = "READ_ONLY" /\ tx[d].complete_flag = 0
          /\ \A j \in 1 .. Len(read_tx_buffer[t]) :
               read_tx_buffer[t][j] = d => j = i
      BY SMTT(60), <3>1, ReaderType DEF ReadInv
    <3> QED BY <1>2, <1>5, <1>7, <2>1, <3>1, <3>2
  <2>2. CASE t = s
    <3>1. i + 1 \in 1 .. Len(read_tx_buffer[s]) /\ i + 1 # 1
          /\ d = read_tx_buffer[s][i + 1]
      BY <1>8, <2>2
    <3>2. /\ d \in Clients /\ Home[d] = s /\ thread_pc[d] = "wait_flag"
          /\ tx[d].type = "READ_ONLY" /\ tx[d].complete_flag = 0
          /\ \A j \in 1 .. Len(read_tx_buffer[s]) :
               read_tx_buffer[s][j] = d => j = i + 1
      BY <3>1, ReaderType DEF ReadInv
    <3>3. d # c
      BY <1>5, <3>1
    <3>4. \A j \in 1 .. Len(read_tx_buffer'[s]) :
            read_tx_buffer'[s][j] = d => j = i
      <4>1. \A j \in 1 .. Len(read_tx_buffer'[s]) :
              read_tx_buffer'[s][j] = d => j + 1 = i + 1
        BY <1>8, <3>2
      <4>2. i \in Int
        BY <1>4, <1>8, <2>2
      <4> QED BY <4>1, <4>2
    <3> QED BY <1>2, <1>7, <2>2, <3>2, <3>3, <3>4
  <2> QED BY <2>1, <2>2
<1>13. KnownInv'
  <2>1. ASSUME NEW x \in WriteTxs, IsKnown(x)
        PROVE  IsKnown(x)'
    <3>1. CASE x.client # c
      BY <1>3, <1>7, <2>1, <3>1, KnownStays DEF WriteTxs
    <3>2. CASE x.client = c
      <4>1. x.id <= tx[c].id /\ x.id # tx[c].id /\ x.id \in Nat
        BY <1>5, <2>1, <3>2 DEF IsKnown, WriteTxs, TxIds
      <4>2. x.id < tx[c].id
        BY <1>6, <4>1
      <4>3. Done(c, x.id)'
        BY <1>3, <1>4, <2>1, <3>2, <4>2, DoneStays DEF IsKnown
      <4> QED BY <1>7, <3>2, <4>1, <4>3 DEF IsKnown
    <3> QED BY <3>1, <3>2
  <2> QED BY <1>2, <1>3, <2>1, KnownFrame
<1>14. MasterInv'
  <2>1. \A d \in Clients : tx'[d].id = tx[d].id
    BY <1>7
  <2> QED BY <1>2, <1>3, <2>1, MasterFrame DEF MasterInv
<1>15. FloorInv'
  BY <1>2, <1>3, <1>7, FloorFrame
<1>16. StorageInv'
  BY <1>2, <1>3, StorageFrame
<1>17. AnsweredWriteIsDone'
  <2>1. \A d \in Clients : tx'[d].type = "WRITE_ONLY" => tx'[d] = tx[d]
    BY <1>5, <1>7
  <2> QED BY <1>2, <1>3, <2>1, AnsweredFrame
<1>18. ReadsOwnWrites'
  <2>1. \A d \in Clients : OwnWrites(d)' = OwnWrites(d)
    BY <1>3, <1>7, OwnWritesFrame
  <2>2. \A t, k : WrittenPlaces(t, k)' = WrittenPlaces(t, k)
    BY <1>2, <1>3, WrittenFrame
  <2>3. \A d \in Clients : CountsToRead(d)' = CountsToRead(d)
    BY <1>7, <2>1, <2>2 DEF CountsToRead
  <2>4. \E n \in CountsToRead(c) : tx'[c].value = Short(n)
    <3> DEFINE n == Cardinality(WrittenPlaces(s, tx[c].key))
    <3>1. tx'[c].value = Short(n)
      BY <1>6, <1>7 DEF StorageInv
    <3>2. n \in CountsToRead(c)
      <4>1. /\ n \in Nat /\ Cardinality(OwnWrites(c)) \in Nat
            /\ Cardinality(OwnWrites(c)) <= n
        BY <1>4, <1>5, OwnWritesAreStored
      <4>2. CountsToRead(c) = Cardinality(OwnWrites(c)) .. n
        BY <1>5 DEF CountsToRead
      <4> HIDE DEF n
      <4> QED BY <4>1, <4>2
    <3> QED BY <3>1, <3>2
  <2> QED BY <1>7, <2>3, <2>4 DEF ReadsOwnWrites
<1> QED BY <1>9, <1>10, <1>11, <1>12, <1>13, <1>14, <1>15, <1>16, <1>17, <1>18

LEMMA StutterInv ==
  ASSUME IInv, UNCHANGED vars
  PROVE  IInv'
<1> USE DEF IInv
<1>1. UNCHANGED <<threadVars, addVars, masterVars, orderVars, schedVars, historyVars>>
  BY DEF vars
<1> USE DEF threadVars, addVars, masterVars, orderVars, schedVars, historyVars
<1>2. SamePlaces /\ KeepsPlaces /\ KeepsExecuted
  BY <1>1, UnchangedPlaces, SameKeeps, SameExecuted
<1>3. TypeOK' /\ OrderInv'
  BY <1>1, OrderFrame DEF TypeOK
<1>4. ThreadInv' /\ ReadInv'
  BY <1>1 DEF ThreadInv, ReadInv
<1>5. KnownInv'
  BY <1>1, <1>2, KnownStays, KnownFrame DEF WriteTxs
<1>6. MasterInv'
  BY <1>1, <1>2, MasterFrame DEF MasterInv
<1>7. FloorInv' /\ StorageInv'
  BY <1>1, <1>2, FloorFrame, StorageFrame
<1>8. AnsweredWriteIsDone' /\ ReadsOwnWrites'
  BY <1>1, <1>2, AnsweredFrame, ReadsFrame
<1> QED BY <1>3, <1>4, <1>5, <1>6, <1>7, <1>8

LEMMA NextInv ==
  ASSUME IInv, [Next]_vars
  PROVE  IInv'
<1>1. CASE UNCHANGED vars
  BY <1>1, StutterInv
<1>2. ASSUME NEW c \in Clients,
             \/ RequestWrite(c) \/ RequestRead(c) \/ ResendAdd(c) \/ RecvAckAdd(c)
             \/ Respond(c) \/ AddToBatch(c)
             \/ \E m \in addNet : RecvAdd(c, m)
      PROVE  IInv'
  BY <1>2, RequestWriteInv, RequestReadInv, ResendAddInv, RecvAckAddInv, RespondInv,
     AddToBatchInv, RecvAddInv
<1>3. CASE CutBatch \/ Determine
  BY <1>3, CutBatchInv, DetermineInv
<1>4. ASSUME NEW s \in Slaves,
             \/ HandOver(s) \/ WriteToStorage(s) \/ NotifyClient(s) \/ EndBatch(s)
             \/ ExecuteRead(s)
      PROVE  IInv'
  BY <1>4, HandOverInv, WriteToStorageInv, NotifyClientInv, EndBatchInv, ExecuteReadInv
<1>5. CASE DropAdd \/ DropAckAdd
  BY <1>5, DropInv
<1> QED BY <1>1, <1>2, <1>3, <1>4, <1>5 DEF Next

(* What is known of every state: IInv.                                     *)
THEOREM Invariance == Spec => []IInv
<1>1. Init => IInv
  BY InitInv
<1>2. IInv /\ [Next]_vars => IInv'
  BY NextInv
<1> QED BY <1>1, <1>2, PTL DEF Spec

-----------------------------------------------------------------------------
(* What follows from IInv.                                                 *)

(* A transaction that no slave has executed is the one its client waits    *)
(* for, so that each client has one of them.                               *)
LEMMA OutstandingIsLast ==
  ASSUME TypeOK, NEW x \in WriteTxs, IsKnown(x), ~Done(x.client, x.id)
  PROVE  x.id = tx[x.client].id
<1>1. x.client \in Clients /\ x.id \in Nat /\ tx[x.client].id \in Int
  BY Bounds DEF WriteTxs, TxIds, TypeOK, Txs
<1> QED BY <1>1 DEF IsKnown

LEMMA RoomForAll ==
  ASSUME IInv
  PROVE  BatchHasRoom
<1> USE DEF IInv
<1> SUFFICES ASSUME Cardinality(Clients) <= MAX_BATCH_SIZE,
                    NEW c \in Clients, adding[c] # <<>>,
                    ~ Len(batch) < MAX_BATCH_SIZE
             PROVE  FALSE
  BY DEF BatchHasRoom
<1> DEFINE Positions == 1 .. MAX_BATCH_SIZE
           Others == Clients \ {c}
           f == [j \in Positions |-> batch[j].client]
<1>1. /\ batch \in Seq(WriteTxs) /\ Len(batch) = MAX_BATCH_SIZE
      /\ Len(determined) \in Nat /\ Len(rev_batch) \in Nat
  <2>1. batch \in Seq(WriteTxs) /\ Len(batch) <= MAX_BATCH_SIZE
        /\ Len(determined) \in Nat /\ Len(rev_batch) \in Nat
    BY DEF TypeOK
  <2>2. Len(batch) \in Nat
    BY <2>1
  <2> QED BY <2>1, <2>2, Bounds
<1>2. LastBatch \in Nat /\ LastBatch >= 1 /\ LastBatch > Len(determined)
      /\ TxsAt(LastBatch) = batch
  BY <1>1 DEF LastBatch, TxsAt
<1>3. ASSUME NEW j \in Positions
      PROVE  /\ <<LastBatch, j>> \in AllPlaces /\ TxAt(<<LastBatch, j>>) = batch[j]
             /\ batch[j] \in WriteTxs /\ batch[j].client \in Clients
  <2>1. j \in 1 .. Len(batch) /\ j \in 1 .. MAX_BATCH_SIZE
    BY <1>1
  <2>2. batch[j] \in WriteTxs
    BY <1>1, <2>1
  <2>3. <<LastBatch, j>>[1] = LastBatch /\ <<LastBatch, j>>[2] = j
    OBVIOUS
  <2>4. LastBatch \in 1 .. LastBatch /\ j <= Len(batch)
    BY <1>2, <2>1
  <2> QED BY <1>2, <2>1, <2>2, <2>3, <2>4 DEF AllPlaces, TxAt, WriteTxs
<1>4. ASSUME NEW j \in Positions, NEW s \in Slaves
      PROVE  ~Executed(s, <<LastBatch, j>>)
  <2>1. /\ exec[s].epoch \in Nat /\ exec[s].pos \in Nat /\ Len(handed[s]) \in Nat
    BY DEF TypeOK
  <2>2. /\ Len(handed[s]) <= Len(determined) /\ exec[s].epoch <= Len(handed[s])
        /\ exec[s].epoch >= Len(handed[s]) => exec[s].pos = 0
    BY <2>1 DEF OrderInv, HasBatch
  <2> QED BY SMTT(60), <1>1, <1>2, <2>1, <2>2, Bounds DEF Executed
<1>5. ASSUME NEW j \in Positions
      PROVE  batch[j].id = tx[batch[j].client].id
  <2>1. /\ <<LastBatch, j>> \in AllPlaces /\ TxAt(<<LastBatch, j>>) = batch[j]
        /\ batch[j] \in WriteTxs /\ batch[j].client \in Clients
    BY <1>3
  <2>2. IsKnown(batch[j])
    BY <2>1 DEF KnownInv
  <2>3. ~Done(batch[j].client, batch[j].id)
    <3>1. \A p \in Places(batch[j].client, batch[j].id) : p = <<LastBatch, j>>
      BY <2>1 DEF Places, MasterInv
    <3> QED BY <1>4, <2>1, <3>1, HomeAssumption DEF Done
  <2> QED BY <2>1, <2>2, <2>3, OutstandingIsLast
<1>6. ASSUME NEW j \in Positions
      PROVE  batch[j].client # c
  <2>1. /\ adding[c][1] \in WriteTxs /\ IsKnown(adding[c][1])
        /\ adding[c][1].client = c /\ adding[c][1].id = recieved_tx_id[c]
        /\ Places(c, recieved_tx_id[c]) = {}
    BY NonEmptySeq DEF TypeOK, KnownInv, MasterInv
  <2>2. recieved_tx_id[c] = tx[c].id
    BY <2>1, OutstandingIsLast DEF Done
  <2>3. ASSUME batch[j].client = c
        PROVE  <<LastBatch, j>> \in Places(c, recieved_tx_id[c])
    <3>1. batch[j].id = recieved_tx_id[c]
      BY <1>5, <2>2, <2>3
    <3> QED BY <1>3, <2>3, <3>1 DEF Places
  <2> QED BY <2>1, <2>3
<1>7. f \in [Positions -> Others]
  BY <1>3, <1>6
<1>8. ASSUME NEW i \in Positions, NEW j \in Positions, f[i] = f[j]
      PROVE  i = j
  <2>1. batch[i].client = batch[j].client /\ batch[i].id = batch[j].id
    BY <1>5, <1>8
  <2>2. <<LastBatch, i>> = <<LastBatch, j>>
    <3>1. /\ <<LastBatch, i>> \in AllPlaces /\ TxAt(<<LastBatch, i>>) = batch[i]
          /\ <<LastBatch, j>> \in AllPlaces /\ TxAt(<<LastBatch, j>>) = batch[j]
      BY <1>3
    <3> QED BY <2>1, <3>1 DEF MasterInv
  <2> QED BY <2>2
<1>9. f \in Injection(Positions, Others)
  BY <1>7, <1>8 DEF Injection, IsInjective
<1>10. /\ IsFiniteSet(Others) /\ Cardinality(Others) = Cardinality(Clients) - 1
       /\ Cardinality(Clients) \in Nat
  BY ClientsAssumption, FS_RemoveElement, FS_CardinalityType
<1>11. Cardinality(Positions) <= Cardinality(Others)
  BY <1>9, <1>10, FS_Injection
<1>12. Cardinality(Positions) = MAX_BATCH_SIZE
  BY SMTT(60), Bounds, FS_Interval
<1> QED BY <1>10, <1>11, <1>12, Bounds

LEMMA AtMostOnePlace ==
  ASSUME IInv
  PROVE  ExactlyOnce
<1> USE DEF IInv
<1> SUFFICES ASSUME NEW c \in Clients, NEW id \in TxIds
             PROVE  /\ Cardinality(Places(c, id)) <= 1
                    /\ Pending(c, id) => Places(c, id) = {}
                    /\ [client |-> c, id |-> id] \in ackAddNet =>
                         Pending(c, id) \/ Places(c, id) # {}
  BY DEF ExactlyOnce
<1>1. Cardinality(Places(c, id)) <= 1
  <2>1. CASE Places(c, id) = {}
    BY <2>1, FS_EmptySet
  <2>2. CASE Places(c, id) # {}
    <3>1. PICK p \in Places(c, id) : TRUE
      BY <2>2
    <3>2. Places(c, id) = {p}
      BY DEF Places, MasterInv
    <3> QED BY SMTT(60), <3>2, FS_Singleton
  <2> QED BY <2>1, <2>2
<1>2. Pending(c, id) => Places(c, id) = {}
  BY DEF Pending, MasterInv
<1>3. [client |-> c, id |-> id] \in ackAddNet =>
        Pending(c, id) \/ Places(c, id) # {}
  BY DEF MasterInv
<1> QED BY <1>1, <1>2, <1>3

LEMMA LaterEpochs ==
  ASSUME IInv
  PROVE  RealTimeOrder
<1> USE DEF IInv
<1> SUFFICES ASSUME NEW c \in Clients, tx[c].type = "WRITE_ONLY",
                    tx[c].complete_flag = 1
             PROVE  tx[c].assigned_epoch_id > floor[c]
  BY DEF RealTimeOrder
<1>1. PICK p \in Places(c, tx[c].id) : p[1] = tx[c].assigned_epoch_id + 1
  BY DEF AnsweredWriteIsDone
<1>2. p[1] > floor[c] + 1
  BY DEF FloorInv
<1>3. floor[c] \in Int /\ tx[c].assigned_epoch_id \in Int
  BY DEF TypeOK, Txs
<1> QED BY <1>1, <1>2, <1>3

LEMMA SameBatchesSameStorage ==
  ASSUME IInv
  PROVE  Convergence
<1> USE DEF IInv
<1> SUFFICES ASSUME NEW s \in Slaves, NEW t \in Slaves, exec[s] = exec[t]
             PROVE  storage[s] = storage[t]
  BY DEF Convergence
<1>1. \A k : WrittenPlaces(s, k) = WrittenPlaces(t, k)
  BY DEF WrittenPlaces, Executed
<1>2. \A k \in Keys : storage[s][k] = storage[t][k]
  BY <1>1 DEF StorageInv
<1>3. storage[s] \in [Keys -> Values] /\ storage[t] \in [Keys -> Values]
  BY DEF TypeOK
<1> QED BY <1>2, <1>3

LEMMA NotifiesAwaited ==
  ASSUME IInv
  PROVE  NotifiesItsOwnTx
BY CurrentIsAwaited DEF NotifiesItsOwnTx

(* In every state the invariant of the run holds, and with it there is     *)
(* room in the batch for every transaction a receiving thread has taken,   *)
(* as long as no more clients write than a batch holds.                    *)
THEOREM InvarianceOfRun == Spec => []TxInv
<1>1. IInv => TxInv
  BY RoomForAll DEF TxInv
<1> QED BY <1>1, Invariance, PTL

(* Loss and repetition of ADD_TO_BATCH and its ACK neither duplicate nor   *)
(* lose a transaction.                                                     *)
THEOREM EachTxInOneBatch == Spec => []ExactlyOnce
<1>1. IInv => ExactlyOnce
  BY AtMostOnePlace
<1> QED BY <1>1, Invariance, PTL

(* The write scheduler never raises the flag of another transaction than   *)
(* the one it executed.                                                    *)
THEOREM RightTxNotified == Spec => []NotifiesItsOwnTx
<1>1. IInv => NotifiesItsOwnTx
  BY NotifiesAwaited
<1> QED BY <1>1, Invariance, PTL

(* A client is told that a write is done only when its slave has executed  *)
(* it, and told the epoch it is in.                                        *)
THEOREM AnswersAreTrue == Spec => []AnsweredWriteIsDone
<1>1. IInv => AnsweredWriteIsDone
  BY DEF IInv
<1> QED BY <1>1, Invariance, PTL

(* The value a client reads is the count, in a short, of some number of    *)
(* writes its slave has made, at least as many as its own before.          *)
THEOREM ReadYourWrites == Spec => []ReadsOwnWrites
<1>1. IInv => ReadsOwnWrites
  BY DEF IInv
<1> QED BY <1>1, Invariance, PTL

(* While fewer than HALF (32768) writes of any client have been made to a  *)
(* record, the value a client reads of it is at least the number of its    *)
(* own writes before; after that storage.c:66 has made it negative.        *)
CountsOwnWrites ==
  \A c \in Clients :
    /\ tx[c].type = "READ_ONLY" /\ tx[c].complete_flag = 1
    /\ Cardinality(WrittenPlaces(Home[c], tx[c].key)) < HALF
    => tx[c].value >= Cardinality(OwnWrites(c))

THEOREM ReadsCountOwnWrites == Spec => []CountsOwnWrites
<1>1. IInv => CountsOwnWrites
  <2> SUFFICES ASSUME IInv, NEW c \in Clients, tx[c].type = "READ_ONLY",
                      tx[c].complete_flag = 1,
                      Cardinality(WrittenPlaces(Home[c], tx[c].key)) < HALF
               PROVE  tx[c].value >= Cardinality(OwnWrites(c))
    BY DEF CountsOwnWrites
  <2>1. PICK n \in CountsToRead(c) : tx[c].value = Short(n)
    BY DEF IInv, ReadsOwnWrites
  <2>2. /\ Cardinality(OwnWrites(c)) \in Nat
        /\ Cardinality(WrittenPlaces(Home[c], tx[c].key)) \in Nat
    BY OwnWritesAreStored
  <2>3. n \in 0 .. HALF - 1 /\ n >= Cardinality(OwnWrites(c))
    BY <2>2, HalfAssumption DEF CountsToRead
  <2> QED BY <2>1, <2>3, ShortOfSmall
<1> QED BY <1>1, Invariance, PTL

(* A write asked for after another was answered is in a later epoch.       *)
THEOREM EpochsInRealTime == Spec => []RealTimeOrder
<1>1. IInv => RealTimeOrder
  BY LaterEpochs
<1> QED BY <1>1, Invariance, PTL

(* Slaves at the same point of the same batch have the same storage.       *)
THEOREM SlavesConverge == Spec => []Convergence
<1>1. IInv => Convergence
  BY SameBatchesSameStorage
<1> QED BY <1>1, Invariance, PTL

(* With the clients, threads and schedulers around it, the master closes   *)
(* and the slaves receive batches as BatchOrder allows.                    *)
THEOREM BatchesInOrder == Spec => UsesBatchOrder
<1>1. Init => BO!Init
  BY DEF Init
<1>2. IInv /\ [Next]_vars => [BO!Next]_(BO!vars)
  <2> SUFFICES ASSUME IInv, [Next]_vars
               PROVE  [BO!Next]_(BO!vars)
    OBVIOUS
  <2>1. CASE Determine
    <3>1. /\ determined' = determined \o rev_batch /\ handed' = handed
          /\ rev_batch # <<>>
      BY <2>1 DEF Determine
    <3>2. /\ determined \in Seq(Batches) /\ rev_batch \in Seq(Batches)
          /\ Len(rev_batch) <= 1 /\ Len(determined) \in Nat
      BY DEF IInv, TypeOK
    <3>3. Len(rev_batch) = 1 /\ rev_batch[1] \in Batches
      <4>1. (Len(rev_batch) <= 1 => Len(rev_batch) = 1) /\ rev_batch[1] \in Batches
        BY <3>1, <3>2, NonEmptySeq
      <4> QED BY <3>2, <4>1
    <3>4. /\ rev_batch[1].epoch_id = Len(determined)
          /\ Len(rev_batch[1].tx_set) <= MAX_BATCH_SIZE
      <4>1. rev_batch[1].epoch_id = Len(determined)
        BY <3>1 DEF IInv, OrderInv
      <4>2. /\ Len(determined) + 1 \in 1 .. LastBatch
            /\ TxsAt(Len(determined) + 1) = rev_batch[1].tx_set
        BY <3>2, <3>3 DEF LastBatch, TxsAt
      <4> QED BY <4>1, <4>2 DEF IInv, OrderInv
    <3>5. rev_batch[1].tx_set \in TxSets
      <4>1. rev_batch[1].tx_set \in Seq(WriteTxs)
        BY <3>3 DEF Batches
      <4>2. Len(rev_batch[1].tx_set) \in 0 .. MAX_BATCH_SIZE
        BY <3>4, <4>1, Bounds
      <4>3. rev_batch[1].tx_set \in [1 .. Len(rev_batch[1].tx_set) -> WriteTxs]
        BY <4>1
      <4> QED BY <4>2, <4>3 DEF TxSets
    <3>6. rev_batch[1] = [epoch_id |-> Len(determined), tx_set |-> rev_batch[1].tx_set]
      BY <3>3, <3>4 DEF Batches
    <3>7. determined' = Append(determined, rev_batch[1])
      <4>1. rev_batch = <<rev_batch[1]>>
        BY <3>2, <3>3
      <4>2. \A b : determined \o <<b>> = Append(determined, b)
        BY <3>2
      <4> QED BY <3>1, <4>1, <4>2
    <3>8. BO!Determine
      BY <3>1, <3>5, <3>6, <3>7 DEF BO!Determine
    <3> QED BY <3>8 DEF BO!Next
  <2>2. ASSUME NEW s \in Slaves, HandOver(s)
        PROVE  [BO!Next]_(BO!vars)
    BY <2>2 DEF HandOver, BO!Next
  <2>3. CASE ~Determine /\ ~ \E s \in Slaves : HandOver(s)
    <3>1. UNCHANGED orderVars
      BY <2>3 DEF Next, vars, RequestWrite, RequestRead, ResendAdd, RecvAckAdd,
         Respond, AddToBatch, RecvAdd, CutBatch, WriteToStorage, NotifyClient,
         EndBatch, ExecuteRead, DropAdd, DropAckAdd
    <3> QED BY SMTT(60), <3>1 DEF orderVars, BO!vars
  <2> QED BY <2>1, <2>2, <2>3
<1> QED BY <1>1, <1>2, Invariance, PTL DEF Spec, UsesBatchOrder, BO!Spec
=============================================================================
