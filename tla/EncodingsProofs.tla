--------------------------- MODULE EncodingsProofs ---------------------------
(***************************************************************************)
(* Proofs about what becomes of the data when it is written down: the      *)
(* bytes of MessageCodec, for every size of the buffers and of the         *)
(* batches, and whatever transactions, ids and epochs are sent; and the    *)
(* numbers of ShortIds, for every width and however long the run is.       *)
(***************************************************************************)
EXTENDS MessageCodec, ShortIds, TLAPS

IsBuffer(msg) == DOMAIN msg = Cells /\ \A i \in Cells : IsByte(msg[i])

-----------------------------------------------------------------------------
(* Bytes and shorts.                                                       *)

LEMMA BytesOfAShort ==
  ASSUME NEW n \in Int
  PROVE  IsByte(Lo(n)) /\ IsByte(Hi(n))
BY DEF IsByte, Lo, Hi

LEMMA ShortRoundTrip ==
  ASSUME NEW n, IsShort(n)
  PROVE  Signed(Lo(n) + 256 * Hi(n)) = n
BY DEF IsShort, Lo, Hi, Signed

LEMMA IdRoundTrip ==
  ASSUME NEW n, IsUnsignedShort(n)
  PROVE  Signed(Lo(n) + 256 * Hi(n)) % 65536 = n
BY DEF IsUnsignedShort, Lo, Hi, Signed

LEMMA Division ==
  ASSUME NEW k \in Nat, NEW j \in 0 .. 10
  PROVE  (11 * k + j) \div 11 = k /\ (11 * k + j) % 11 = j
OBVIOUS

LEMMA RemainderAndQuotient ==
  ASSUME NEW n \in Nat, NEW m \in Nat, n < 11 * m
  PROVE  /\ (n \div 11) + 1 \in 1 .. m
         /\ (n % 11) + 1 \in 1 .. 11
OBVIOUS

(* A short is read back from where it was written ...                      *)
LEMMA ReadShort ==
  ASSUME NEW msg, NEW i \in Nat, NEW n, IsShort(n),
         msg[i] = Lo(n), msg[i + 1] = Hi(n)
  PROVE  GetShort(msg, i) = n
BY ShortRoundTrip DEF GetShort

LEMMA ReadId ==
  ASSUME NEW msg, NEW i \in Nat, NEW n, IsUnsignedShort(n),
         msg[i] = Lo(n), msg[i + 1] = Hi(n)
  PROVE  GetId(msg, i) = n
BY IdRoundTrip DEF GetId, GetShort

(* ... and so is a transaction.                                            *)
LEMMA ReadTx ==
  ASSUME NEW msg, NEW o \in Nat, NEW t, IsTx(t),
         msg[o] = Lo(t.replica_id),    msg[o + 1] = Hi(t.replica_id),
         msg[o + 2] = Lo(t.client_id), msg[o + 3] = Hi(t.client_id),
         msg[o + 4] = Lo(t.id),        msg[o + 5] = Hi(t.id),
         msg[o + 6] = t.type,
         msg[o + 7] = Lo(t.key),       msg[o + 8] = Hi(t.key),
         msg[o + 9] = Lo(t.value),     msg[o + 10] = Hi(t.value)
  PROVE  GetTx(msg, o) = t
<1>1. GetShort(msg, o) = t.replica_id
  BY ReadShort DEF IsTx
<1>2. GetShort(msg, o + 2) = t.client_id
  <2>1. o + 2 + 1 = o + 3 /\ o + 2 \in Nat
    OBVIOUS
  <2> QED BY <2>1, ReadShort DEF IsTx
<1>3. GetId(msg, o + 4) = t.id
  <2>1. o + 4 + 1 = o + 5 /\ o + 4 \in Nat
    OBVIOUS
  <2> QED BY <2>1, ReadId DEF IsTx
<1>4. GetChar(msg, o + 6) = t.type
  BY DEF GetChar, IsTx
<1>5. GetShort(msg, o + 7) = t.key
  <2>1. o + 7 + 1 = o + 8 /\ o + 7 \in Nat
    OBVIOUS
  <2> QED BY <2>1, ReadShort DEF IsTx
<1>6. GetShort(msg, o + 9) = t.value
  <2>1. o + 9 + 1 = o + 10 /\ o + 9 \in Nat
    OBVIOUS
  <2> QED BY <2>1, ReadShort DEF IsTx
<1> QED
  BY <1>1, <1>2, <1>3, <1>4, <1>5, <1>6 DEF GetTx, IsTx

LEMMA BytesOfATx ==
  ASSUME NEW t, IsTx(t), NEW j \in 1 .. 11
  PROVE  IsByte(TxBytes(t)[j])
<1>1. /\ t.replica_id \in Int /\ t.client_id \in Int /\ t.id \in Int
      /\ t.key \in Int /\ t.value \in Int
  BY DEF IsTx, IsShort, IsUnsignedShort
<1>2. IsByte(t.type)
  BY DEF IsTx, IsByte
<1>3. j \in {1, 2, 3, 4, 5, 6, 7, 8, 9, 10, 11}
  OBVIOUS
<1> QED
  BY <1>1, <1>2, <1>3, BytesOfAShort DEF TxBytes

LEMMA TheType ==
  ASSUME NEW msg, NEW type \in 3 .. 9, msg[0] = type
  PROVE  GetChar(msg, 0) = type
BY DEF GetChar

-----------------------------------------------------------------------------
(* What is read from a buffer that begins with a message, kind by kind.    *)

LEMMA ReadsRequestTx ==
  ASSUME NEW t, IsTx(t), NEW msg, IsBuffer(msg), NEW buf,
         \A i \in 0 .. 11 : buf[i] = CreateRequestTx(t, msg)[i]
  PROVE  Decode("request", buf) = [type |-> REQUEST_TX, tx |-> t]
<1>1. \A i \in 0 .. 13 : i \in DOMAIN msg
  BY SMTT(60), SizeAssumption DEF IsBuffer, Cells
<1>2. /\ buf[0] = REQUEST_TX
      /\ buf[1] = Lo(t.replica_id) /\ buf[2] = Hi(t.replica_id)
      /\ buf[3] = Lo(t.client_id) /\ buf[4] = Hi(t.client_id)
      /\ buf[5] = Lo(t.id) /\ buf[6] = Hi(t.id)
      /\ buf[7] = Lo(t.type)
      /\ buf[8] = Lo(t.key) /\ buf[9] = Hi(t.key)
      /\ buf[10] = Lo(t.value) /\ buf[11] = Hi(t.value)
  BY <1>1 DEF CreateRequestTx, Write
<1>3. Lo(t.type) = t.type
  BY DEF IsTx, Lo
<1>4. GetTx(buf, 1) = t
  BY <1>2, <1>3, ReadTx
<1>5. GetChar(buf, 0) = REQUEST_TX
  BY <1>2, TheType DEF REQUEST_TX
<1> QED
  BY <1>4, <1>5 DEF Decode, GetRequestTx

LEMMA ReadsWithTx ==
  ASSUME NEW t, IsTx(t), NEW msg, IsBuffer(msg), NEW buf, NEW type, NEW rest,
         \A i \in 0 .. 11 : buf[i] = WithTx(type, t, rest, msg)[i]
  PROVE  buf[0] = type /\ GetTx(buf, 1) = t
<1>1. \A i \in 0 .. 13 : i \in DOMAIN msg
  BY SizeAssumption DEF IsBuffer, Cells
<1>2. buf[0] = type
  BY <1>1 DEF WithTx
<1>3. \A i \in 1 .. 11 : buf[i] = TxBytes(t)[i]
  BY <1>1 DEF WithTx
<1>4. /\ buf[1] = Lo(t.replica_id) /\ buf[2] = Hi(t.replica_id)
      /\ buf[3] = Lo(t.client_id) /\ buf[4] = Hi(t.client_id)
      /\ buf[5] = Lo(t.id) /\ buf[6] = Hi(t.id)
      /\ buf[7] = t.type
      /\ buf[8] = Lo(t.key) /\ buf[9] = Hi(t.key)
      /\ buf[10] = Lo(t.value) /\ buf[11] = Hi(t.value)
  BY <1>3 DEF TxBytes
<1> QED
  BY <1>2, <1>4, ReadTx

LEMMA ReadsResponseTx ==
  ASSUME NEW t, IsTx(t), NEW e, IsShort(e), NEW msg, IsBuffer(msg), NEW buf,
         \A i \in 0 .. 13 : buf[i] = CreateResponseTx(t, e, msg)[i]
  PROVE  Decode("response", buf) = [type |-> RESPONSE_TX, tx |-> t, epoch |-> e]
<1>1. 12 \in DOMAIN msg /\ 13 \in DOMAIN msg
  BY SizeAssumption DEF IsBuffer, Cells
<1>2. GetTx(buf, 1) = t
  BY ReadsWithTx DEF CreateResponseTx
<1>3. buf[12] = Lo(e) /\ buf[13] = Hi(e)
  BY <1>1 DEF CreateResponseTx, WithTx
<1>4. GetShort(buf, 12) = e
  BY <1>3, ReadShort
<1> QED
  BY <1>2, <1>4 DEF Decode, GetResponseTx

LEMMA ReadsAddToBatch ==
  ASSUME NEW t, IsTx(t), NEW msg, IsBuffer(msg), NEW buf,
         \A i \in 0 .. 11 : buf[i] = CreateAddToBatch(t, msg)[i]
  PROVE  Decode("add", buf) = [type |-> ADD_TO_BATCH, tx |-> t]
<1>1. buf[0] = ADD_TO_BATCH /\ GetTx(buf, 1) = t
  BY ReadsWithTx DEF CreateAddToBatch
<1>2. GetChar(buf, 0) = ADD_TO_BATCH
  BY <1>1, TheType DEF ADD_TO_BATCH
<1> QED
  BY <1>1, <1>2 DEF Decode, GetAddToBatch, ADD_TO_BATCH, REQUEST_TX

LEMMA ReadsAckAdd ==
  ASSUME NEW r, NEW c, NEW id, IsShort(r), IsShort(c), IsShort(id),
         NEW msg, IsBuffer(msg), NEW buf,
         \A i \in 0 .. 6 : buf[i] = CreateAckAdd(r, c, id, msg)[i]
  PROVE  Decode("ack_add", buf) =
           [type |-> ACK_ADD, replica |-> r, client |-> c, id |-> id]
<1>1. \A i \in 0 .. 6 : i \in DOMAIN msg
  BY SizeAssumption DEF IsBuffer, Cells
<1>2. /\ buf[0] = ACK_ADD
      /\ buf[1] = Lo(r) /\ buf[2] = Hi(r)
      /\ buf[3] = Lo(c) /\ buf[4] = Hi(c)
      /\ buf[5] = Lo(id) /\ buf[6] = Hi(id)
  BY <1>1 DEF CreateAckAdd, Write
<1>3. GetShort(buf, 1) = r /\ GetShort(buf, 3) = c /\ GetShort(buf, 5) = id
  BY <1>2, ReadShort
<1>4. GetChar(buf, 0) = ACK_ADD
  BY <1>2, TheType DEF ACK_ADD
<1> QED
  BY <1>3, <1>4 DEF Decode, GetAckAdd, ADD_TO_BATCH, REQUEST_TX, ACK_ADD

LEMMA ReadsAboutBatch ==
  ASSUME NEW type \in {ACK_BATCH, REQUEST_BATCH}, NEW r, NEW e,
         IsShort(r), IsShort(e), NEW msg, IsBuffer(msg), NEW buf,
         \A i \in 0 .. 4 : buf[i] = CreateAboutBatch(type, r, e, msg)[i]
  PROVE  Decode("batch", buf) = [type |-> type, replica |-> r, epoch |-> e]
<1>1. \A i \in 0 .. 4 : i \in DOMAIN msg
  BY SizeAssumption DEF IsBuffer, Cells
<1>2. /\ buf[0] = type
      /\ buf[1] = Lo(r) /\ buf[2] = Hi(r)
      /\ buf[3] = Lo(e) /\ buf[4] = Hi(e)
  BY <1>1 DEF CreateAboutBatch, Write
<1>3. GetShort(buf, 1) = r /\ GetShort(buf, 3) = e
  BY <1>2, ReadShort
<1>4. GetChar(buf, 0) = type
  BY <1>2, TheType DEF ACK_BATCH, REQUEST_BATCH
<1> QED
  BY <1>3, <1>4
  DEF Decode, GetAboutBatch, REQUEST_TX, ADD_TO_BATCH, ACK_ADD, BATCH,
      ACK_BATCH, REQUEST_BATCH

LEMMA BatchCell ==
  ASSUME NEW e, NEW txs, NEW msg, NEW i \in DOMAIN msg
  PROVE  CreateBatch(e, txs, msg)[i] =
           IF i < 5 THEN BatchHead(e, txs)[i + 1]
           ELSE IF i < 5 + 11 * Len(txs) THEN BatchBody(txs, i - 5)
           ELSE msg[i]
BY DEF CreateBatch

LEMMA ReadsBatch ==
  ASSUME NEW e, IsShort(e), NEW n \in 0 .. MAX_BATCH_SIZE,
         NEW txs \in [1 .. n -> Txs], NEW msg, IsBuffer(msg), NEW buf,
         \A i \in Cells : buf[i] = CreateBatch(e, txs, msg)[i]
  PROVE  Decode("batch", buf) = [type |-> BATCH, epoch |-> e, txs |-> txs]
<1>0. /\ n \in Nat /\ n <= MAX_BATCH_SIZE /\ n < 32768 /\ Len(txs) = n
      /\ 5 + 11 * n <= MSG_SIZE /\ MSG_SIZE \in Nat
  BY SizeAssumption
<1>1. \A i \in 0 .. 4 : i \in Cells /\ i \in DOMAIN msg
  BY SizeAssumption DEF IsBuffer, Cells
<1>2. /\ buf[0] = BATCH
      /\ buf[1] = Lo(e) /\ buf[2] = Hi(e)
      /\ buf[3] = Lo(n) /\ buf[4] = Hi(n)
  <2>1. ASSUME NEW i \in 0 .. 4
        PROVE  buf[i] = <<BATCH, Lo(e), Hi(e), Lo(n), Hi(n)>>[i + 1]
    <3>1. CreateBatch(e, txs, msg)[i] = BatchHead(e, txs)[i + 1]
      BY <1>1, BatchCell
    <3> QED BY <1>0, <1>1, <3>1 DEF BatchHead
  <2> QED BY <2>1
<1>3. GetShort(buf, 1) = e
  BY <1>2, ReadShort
<1>4. GetShort(buf, 3) = n
  BY SMTT(60), <1>0, <1>2, ReadShort DEF IsShort
<1>5. TxNum(buf) = n
  BY <1>0, <1>4 DEF TxNum
<1>6. ASSUME NEW k \in 1 .. n
      PROVE  GetTx(buf, 5 + 11 * (k - 1)) = txs[k]
  <2>. DEFINE o == 5 + 11 * (k - 1)
  <2>1. ASSUME NEW j \in 0 .. 10
        PROVE  buf[o + j] = TxBytes(txs[k])[j + 1]
    <3>1. k - 1 \in Nat /\ k <= n /\ (k - 1) + 1 = k
      BY <1>0
    <3>2. /\ o + j \in Nat /\ o + j >= 5 /\ o + j < 5 + 11 * n
          /\ o + j - 5 = 11 * (k - 1) + j
      BY <1>0, <3>1
    <3>3. o + j \in Cells /\ o + j \in DOMAIN msg
      BY <1>0, <3>2 DEF Cells, IsBuffer
    <3>4. (o + j - 5) \div 11 = k - 1 /\ (o + j - 5) % 11 = j
      BY <3>1, <3>2, Division
    <3>5. buf[o + j] = BatchBody(txs, o + j - 5)
      <4>. DEFINE c == o + j
      <4>1. c \in Cells /\ c \in DOMAIN msg /\ ~ (c < 5) /\ c < 5 + 11 * Len(txs)
        BY <1>0, <3>2, <3>3
      <4>. HIDE DEF c
      <4>2. buf[c] = BatchBody(txs, c - 5)
        BY <4>1, BatchCell
      <4> QED BY <4>2 DEF c
    <3> QED
      BY <3>1, <3>4, <3>5 DEF BatchBody
  <2>2. IsTx(txs[k])
    BY FieldAssumption
  <2>3. o \in Nat
    BY <1>0
  <2>4. /\ buf[o + 0] = TxBytes(txs[k])[1] /\ buf[o + 1] = TxBytes(txs[k])[2]
        /\ buf[o + 2] = TxBytes(txs[k])[3] /\ buf[o + 3] = TxBytes(txs[k])[4]
        /\ buf[o + 4] = TxBytes(txs[k])[5] /\ buf[o + 5] = TxBytes(txs[k])[6]
        /\ buf[o + 6] = TxBytes(txs[k])[7] /\ buf[o + 7] = TxBytes(txs[k])[8]
        /\ buf[o + 8] = TxBytes(txs[k])[9]
        /\ buf[o + 9] = TxBytes(txs[k])[10]
        /\ buf[o + 10] = TxBytes(txs[k])[11]
    <3>. HIDE DEF o
    <3> QED BY <2>1
  <2>5. o + 0 = o
    BY <2>3
  <2> HIDE DEF o
  <2>6. GetTx(buf, o) = txs[k]
    BY <2>2, <2>3, <2>4, <2>5, ReadTx DEF TxBytes
  <2> QED
    BY <2>6 DEF o
<1>7. [k \in 1 .. n |-> GetTx(buf, 5 + 11 * (k - 1))] = txs
  BY <1>6
<1>8. GetChar(buf, 0) = BATCH
  BY <1>2, TheType DEF BATCH
<1> QED
  BY <1>3, <1>5, <1>7, <1>8
  DEF Decode, GetBatch, REQUEST_TX, ADD_TO_BATCH, ACK_ADD, BATCH

-----------------------------------------------------------------------------
(* Whatever is created, a buffer remains a buffer.                         *)

LEMMA WriteKeepsBytes ==
  ASSUME NEW msg, IsBuffer(msg), NEW offset \in Nat, NEW bytes,
         NEW n \in Nat, Len(bytes) = n, \A j \in 1 .. n : IsByte(bytes[j])
  PROVE  IsBuffer(Write(msg, offset, bytes))
<1>1. DOMAIN Write(msg, offset, bytes) = Cells
  BY DEF IsBuffer, Write
<1>2. ASSUME NEW i \in Cells
      PROVE  IsByte(Write(msg, offset, bytes)[i])
  <2>1. i \in DOMAIN msg /\ i \in Int
    BY SizeAssumption DEF IsBuffer, Cells
  <2>2. CASE offset <= i /\ i < offset + Len(bytes)
    <3>1. Write(msg, offset, bytes)[i] = bytes[i - offset + 1]
      BY <2>1, <2>2 DEF Write
    <3>2. i - offset + 1 \in 1 .. n
      BY <2>1, <2>2
    <3> QED BY <3>1, <3>2
  <2>3. CASE ~ (offset <= i /\ i < offset + Len(bytes))
    BY <2>1, <2>3 DEF Write, IsBuffer
  <2> QED BY <2>2, <2>3
<1> QED
  BY <1>1, <1>2 DEF IsBuffer

LEMMA WithTxKeepsBytes ==
  ASSUME NEW msg, IsBuffer(msg), NEW t, IsTx(t), NEW type \in 3 .. 9,
         NEW rest, NEW n \in Nat, Len(rest) = n,
         \A j \in 1 .. n : IsByte(rest[j])
  PROVE  IsBuffer(WithTx(type, t, rest, msg))
<1>1. DOMAIN WithTx(type, t, rest, msg) = Cells
  BY DEF IsBuffer, WithTx
<1>2. ASSUME NEW i \in Cells
      PROVE  IsByte(WithTx(type, t, rest, msg)[i])
  <2>1. i \in DOMAIN msg /\ i \in Nat
    BY SizeAssumption DEF IsBuffer, Cells
  <2>2. CASE i = 0
    BY <2>1, <2>2 DEF WithTx, IsByte
  <2>3. CASE i \in 1 .. 11
    <3>1. WithTx(type, t, rest, msg)[i] = TxBytes(t)[i]
      BY SMTT(60), <2>1, <2>3 DEF WithTx
    <3> QED BY <2>3, <3>1, BytesOfATx
  <2>4. CASE i > 11 /\ i <= 11 + n
    <3>1. WithTx(type, t, rest, msg)[i] = rest[i - 11]
      BY <2>1, <2>4 DEF WithTx
    <3>2. i - 11 \in 1 .. n
      BY <2>1, <2>4
    <3> QED BY <3>1, <3>2
  <2>5. CASE i > 11 + n
    <3>1. WithTx(type, t, rest, msg)[i] = msg[i]
      BY <2>1, <2>5 DEF WithTx
    <3> QED BY <3>1 DEF IsBuffer
  <2> QED
    BY SMTT(60), <2>1, <2>2, <2>3, <2>4, <2>5
<1> QED
  BY <1>1, <1>2 DEF IsBuffer

LEMMA RequestTxKeepsBytes ==
  ASSUME NEW msg, IsBuffer(msg), NEW t, IsTx(t)
  PROVE  IsBuffer(CreateRequestTx(t, msg))
<1>. DEFINE upToType == <<REQUEST_TX, Lo(t.replica_id), Hi(t.replica_id),
                          Lo(t.client_id), Hi(t.client_id), Lo(t.id), Hi(t.id),
                          Lo(t.type), Hi(t.type)>>
            keyAndValue == <<Lo(t.key), Hi(t.key), Lo(t.value), Hi(t.value)>>
<1>1. /\ t.replica_id \in Int /\ t.client_id \in Int /\ t.id \in Int
      /\ t.type \in Int /\ t.key \in Int /\ t.value \in Int
  BY DEF IsTx, IsShort, IsUnsignedShort
<1>2. Len(upToType) = 9 /\ \A j \in 1 .. 9 : IsByte(upToType[j])
  <2>1. IsByte(REQUEST_TX)
    BY DEF IsByte, REQUEST_TX
  <2> QED BY <1>1, <2>1, BytesOfAShort
<1>3. Len(keyAndValue) = 4 /\ \A j \in 1 .. 4 : IsByte(keyAndValue[j])
  BY <1>1, BytesOfAShort
<1>. HIDE DEF upToType, keyAndValue
<1>4. IsBuffer(Write(msg, 0, upToType))
  BY <1>2, WriteKeepsBytes
<1>5. IsBuffer(Write(Write(msg, 0, upToType), 8, keyAndValue))
  BY <1>3, <1>4, WriteKeepsBytes
<1> QED
  BY <1>5 DEF CreateRequestTx, upToType, keyAndValue

LEMMA AckAddKeepsBytes ==
  ASSUME NEW msg, IsBuffer(msg),
         NEW r \in Int, NEW c \in Int, NEW id \in Int
  PROVE  IsBuffer(CreateAckAdd(r, c, id, msg))
<1>. DEFINE bytes == <<ACK_ADD, Lo(r), Hi(r), Lo(c), Hi(c), Lo(id), Hi(id)>>
<1>1. Len(bytes) = 7 /\ \A j \in 1 .. 7 : IsByte(bytes[j])
  <2>1. IsByte(ACK_ADD)
    BY DEF IsByte, ACK_ADD
  <2> QED BY <2>1, BytesOfAShort
<1>. HIDE DEF bytes
<1>2. IsBuffer(Write(msg, 0, bytes))
  BY <1>1, WriteKeepsBytes
<1> QED
  BY <1>2 DEF CreateAckAdd, bytes

LEMMA AboutBatchKeepsBytes ==
  ASSUME NEW msg, IsBuffer(msg), NEW type \in {ACK_BATCH, REQUEST_BATCH},
         NEW r \in Int, NEW e \in Int
  PROVE  IsBuffer(CreateAboutBatch(type, r, e, msg))
<1>. DEFINE bytes == <<type, Lo(r), Hi(r), Lo(e), Hi(e)>>
<1>1. Len(bytes) = 5 /\ \A j \in 1 .. 5 : IsByte(bytes[j])
  <2>1. IsByte(type)
    BY DEF IsByte, ACK_BATCH, REQUEST_BATCH
  <2> QED BY <2>1, BytesOfAShort
<1>. HIDE DEF bytes
<1>2. IsBuffer(Write(msg, 0, bytes))
  BY <1>1, WriteKeepsBytes
<1> QED
  BY <1>2 DEF CreateAboutBatch, bytes

LEMMA BatchKeepsBytes ==
  ASSUME NEW e \in Int, NEW n \in Nat, NEW txs \in [1 .. n -> Txs],
         NEW msg, IsBuffer(msg)
  PROVE  IsBuffer(CreateBatch(e, txs, msg))
<1>1. DOMAIN CreateBatch(e, txs, msg) = Cells
  BY DEF IsBuffer, CreateBatch
<1>2. Len(txs) = n
  OBVIOUS
<1>3. ASSUME NEW i \in Cells
      PROVE  IsByte(CreateBatch(e, txs, msg)[i])
  <2>1. i \in DOMAIN msg /\ i \in Nat /\ IsByte(msg[i])
    BY SizeAssumption DEF IsBuffer, Cells
  <2>2. CASE i < 5
    <3>1. i + 1 \in {1, 2, 3, 4, 5}
      BY <2>1, <2>2
    <3>2. IsByte(BATCH)
      BY DEF IsByte, BATCH
    <3>3. IsByte(BatchHead(e, txs)[i + 1])
      BY <1>2, <3>1, <3>2, BytesOfAShort DEF BatchHead
    <3> QED BY <2>1, <2>2, <3>3, BatchCell
  <2>3. CASE ~ (i < 5) /\ i < 5 + 11 * n
    <3>1. i - 5 \in Nat /\ i - 5 < 11 * n
      BY <2>1, <2>3
    <3>2. ((i - 5) \div 11) + 1 \in 1 .. n /\ ((i - 5) % 11) + 1 \in 1 .. 11
      BY <3>1, RemainderAndQuotient
    <3>3. IsTx(txs[((i - 5) \div 11) + 1])
      BY <3>2, FieldAssumption
    <3>4. IsByte(BatchBody(txs, i - 5))
      BY <3>2, <3>3, BytesOfATx DEF BatchBody
    <3> QED BY <1>2, <2>1, <2>3, <3>4, BatchCell
  <2>4. CASE ~ (i < 5) /\ ~ (i < 5 + 11 * n)
    BY <1>2, <2>1, <2>4, BatchCell
  <2> QED BY <2>2, <2>3, <2>4
<1> QED
  BY <1>1, <1>3 DEF IsBuffer

-----------------------------------------------------------------------------
(* While bytes are on their way, the receiver, when it has got them on top *)
(* of what is in its buffer, will read what was sent.                      *)
WillUnderstand == len > 0 => Decode(link, Overlay) = sent

Inv == TypeOK /\ Understood /\ WillUnderstand

(* The first size bytes of msg are all a receiver needs to read message.   *)
Tells(where, msg, size, message) ==
  \A buf : (\A i \in 0 .. size - 1 : buf[i] = msg[i])
            => Decode(where, buf) = message

LEMMA SendKeepsInv ==
  ASSUME Inv, NEW where \in Links, NEW message, NEW msg, IsBuffer(msg),
         NEW size \in 1 .. MSG_SIZE, Tells(where, msg, size, message),
         Send(where, message, msg, size)
  PROVE  Inv'
<1>1. TypeOK'
  BY SizeAssumption DEF Send, Inv, TypeOK, IsBuffer
<1>2. Understood'
  BY SizeAssumption DEF Send, Understood
<1>3. \A i \in 0 .. size - 1 : Overlay'[i] = msg[i]
  BY SizeAssumption DEF Send, Overlay, Cells
<1>4. WillUnderstand'
  BY <1>3 DEF Send, WillUnderstand, Tells
<1> QED
  BY <1>1, <1>2, <1>4 DEF Inv

LEMMA Numbers ==
  /\ \A n \in AckIds \cup Epochs \cup ReplicaIds : IsShort(n) /\ n \in Int
  /\ \A t \in Txs : IsTx(t)
BY FieldAssumption DEF IsShort

LEMMA StepKeepsInv == Inv /\ [Next]_vars => Inv'
<1>. SUFFICES ASSUME Inv, [Next]_vars PROVE Inv'
  OBVIOUS
<1>0. /\ IsBuffer(send_msg) /\ MSG_SIZE \in Nat /\ MSG_SIZE >= 14
      /\ {5, 7, 12, 14, MSG_SIZE} \subseteq 1 .. MSG_SIZE
  BY SizeAssumption DEF Inv, TypeOK, IsBuffer
<1>1. CASE SendRequestTx
  <2>1. PICK t \in Txs : Send("request", [type |-> REQUEST_TX, tx |-> t],
                              CreateRequestTx(t, send_msg), 12)
    BY <1>1 DEF SendRequestTx
  <2>2. IsTx(t) /\ IsBuffer(CreateRequestTx(t, send_msg))
    BY <1>0, Numbers, RequestTxKeepsBytes
  <2>3. Tells("request", CreateRequestTx(t, send_msg), 12,
             [type |-> REQUEST_TX, tx |-> t])
    BY <1>0, <2>2, ReadsRequestTx DEF Tells
  <2> QED
    BY <1>0, <2>1, <2>2, <2>3, SendKeepsInv DEF Links
<1>2. CASE SendResponseTx
  <2>1. PICK t \in Txs, e \in Epochs :
          Send("response", [type |-> RESPONSE_TX, tx |-> t, epoch |-> e],
               CreateResponseTx(t, e, send_msg), 14)
    BY <1>2 DEF SendResponseTx
  <2>2. IsTx(t) /\ IsShort(e) /\ e \in Int
    BY Numbers
  <2>3. IsBuffer(CreateResponseTx(t, e, send_msg))
    <3>. DEFINE rest == <<Lo(e), Hi(e)>>
    <3>1. Len(rest) = 2 /\ \A j \in 1 .. 2 : IsByte(rest[j])
      BY <2>2, BytesOfAShort
    <3>2. RESPONSE_TX \in 3 .. 9
      BY DEF RESPONSE_TX
    <3>. HIDE DEF rest
    <3>3. IsBuffer(WithTx(RESPONSE_TX, t, rest, send_msg))
      BY <1>0, <2>2, <3>1, <3>2, WithTxKeepsBytes
    <3> QED
      BY <3>3 DEF CreateResponseTx, rest
  <2>4. Tells("response", CreateResponseTx(t, e, send_msg), 14,
             [type |-> RESPONSE_TX, tx |-> t, epoch |-> e])
    BY <1>0, <2>2, ReadsResponseTx DEF Tells
  <2> QED
    BY <1>0, <2>1, <2>3, <2>4, SendKeepsInv DEF Links
<1>3. CASE SendAddToBatch
  <2>1. PICK t \in Txs : Send("add", [type |-> ADD_TO_BATCH, tx |-> t],
                              CreateAddToBatch(t, send_msg), 12)
    BY <1>3 DEF SendAddToBatch
  <2>2. IsTx(t)
    BY Numbers
  <2>3. IsBuffer(CreateAddToBatch(t, send_msg))
    <3>1. Len(<<>>) = 0 /\ \A j \in 1 .. 0 : IsByte(<<>>[j])
      OBVIOUS
    <3> QED
      BY <1>0, <2>2, <3>1, WithTxKeepsBytes DEF CreateAddToBatch, ADD_TO_BATCH
  <2>4. Tells("add", CreateAddToBatch(t, send_msg), 12,
             [type |-> ADD_TO_BATCH, tx |-> t])
    BY <1>0, <2>2, ReadsAddToBatch DEF Tells
  <2> QED
    BY <1>0, <2>1, <2>3, <2>4, SendKeepsInv DEF Links
<1>4. CASE SendAckAdd
  <2>1. PICK r \in ReplicaIds, c \in ReplicaIds, id \in AckIds :
          Send("ack_add", [type |-> ACK_ADD, replica |-> r, client |-> c,
                           id |-> id],
               CreateAckAdd(r, c, id, send_msg), 7)
    BY <1>4 DEF SendAckAdd
  <2>2. /\ IsShort(r) /\ IsShort(c) /\ IsShort(id)
        /\ IsBuffer(CreateAckAdd(r, c, id, send_msg))
    BY <1>0, Numbers, AckAddKeepsBytes
  <2>3. Tells("ack_add", CreateAckAdd(r, c, id, send_msg), 7,
             [type |-> ACK_ADD, replica |-> r, client |-> c, id |-> id])
    BY <1>0, <2>2, ReadsAckAdd DEF Tells
  <2> QED
    BY <1>0, <2>1, <2>2, <2>3, SendKeepsInv DEF Links
<1>5. CASE SendBatch
  <2>. PICK e \in Epochs, n \in 0 .. MAX_BATCH_SIZE : \E txs \in [1 .. n -> Txs] :
          Send("batch", [type |-> BATCH, epoch |-> e, txs |-> txs],
               CreateBatch(e, txs, send_msg), MSG_SIZE)
    BY <1>5 DEF SendBatch
  <2>1. PICK txs \in [1 .. n -> Txs] :
          Send("batch", [type |-> BATCH, epoch |-> e, txs |-> txs],
               CreateBatch(e, txs, send_msg), MSG_SIZE)
    OBVIOUS
  <2>2. /\ IsShort(e) /\ n \in Nat
        /\ IsBuffer(CreateBatch(e, txs, send_msg))
    BY <1>0, Numbers, BatchKeepsBytes
  <2>3. Tells("batch", CreateBatch(e, txs, send_msg), MSG_SIZE,
             [type |-> BATCH, epoch |-> e, txs |-> txs])
    BY <1>0, <2>2, ReadsBatch DEF Tells, Cells
  <2> QED
    BY <1>0, <2>1, <2>2, <2>3, SendKeepsInv DEF Links
<1>6. CASE SendAboutBatch
  <2>1. PICK type \in {ACK_BATCH, REQUEST_BATCH}, r \in ReplicaIds, e \in Epochs :
          Send("batch", [type |-> type, replica |-> r, epoch |-> e],
               CreateAboutBatch(type, r, e, send_msg), 5)
    BY <1>6 DEF SendAboutBatch
  <2>2. /\ IsShort(r) /\ IsShort(e)
        /\ IsBuffer(CreateAboutBatch(type, r, e, send_msg))
    BY <1>0, Numbers, AboutBatchKeepsBytes
  <2>3. Tells("batch", CreateAboutBatch(type, r, e, send_msg), 5,
             [type |-> type, replica |-> r, epoch |-> e])
    BY <1>0, <2>2, ReadsAboutBatch DEF Tells
  <2> QED
    BY <1>0, <2>1, <2>2, <2>3, SendKeepsInv DEF Links
<1>7. CASE Receive
  <2>1. TypeOK'
    <3>1. DOMAIN Overlay = Cells /\ \A i \in Cells : IsByte(Overlay[i])
      BY DEF Overlay, Inv, TypeOK
    <3> QED BY <1>0, <1>7, <3>1 DEF Receive, Inv, TypeOK
  <2>2. Understood'
    BY <1>7 DEF Receive, Inv, WillUnderstand, Understood
  <2>3. WillUnderstand'
    BY <1>7 DEF Receive, WillUnderstand
  <2> QED BY <2>1, <2>2, <2>3 DEF Inv
<1>8. CASE UNCHANGED vars
  BY <1>8 DEF vars, Inv, TypeOK, Understood, WillUnderstand, Overlay
<1> QED
  BY <1>1, <1>2, <1>3, <1>4, <1>5, <1>6, <1>7, <1>8 DEF Next

LEMMA InitInv == Init => Inv
<1>. SUFFICES ASSUME Init PROVE Inv
  OBVIOUS
<1>1. TypeOK
  BY SizeAssumption, FieldAssumption DEF Init, TypeOK
<1> QED
  BY <1>1 DEF Init, Inv, Understood, WillUnderstand

LEMMA AlwaysInv == Spec => []Inv
BY InitInv, StepKeepsInv, PTL DEF Spec


(* Every message is read as it was written, whatever was in the buffers    *)
(* before it, for every transaction, id, epoch id and size of a batch.     *)
THEOREM EveryMessageUnderstood == Spec => []Understood
<1>1. Inv => Understood
  BY DEF Inv
<1> QED
  BY <1>1, AlwaysInv, PTL

-----------------------------------------------------------------------------
(* The short integers.                                                     *)

(* A number is not changed by a width it fits in ...                       *)
LEMMA UnsignedOfSmall ==
  ASSUME NEW n \in 0 .. 2 * HALF - 1
  PROVE  Unsigned(n) = n
<1> DEFINE K == 2 * HALF
<1>1. K \in Nat \ {0} /\ n \in 0 .. K - 1
  BY HalfAssumption
<1> HIDE DEF K
<1>2. n % K = n
  BY <1>1
<1> QED BY <1>2 DEF Unsigned, K

(* ... and what is left of any other is a number of that width.            *)
LEMMA UnsignedRange ==
  ASSUME NEW n \in Int
  PROVE  Unsigned(n) \in 0 .. 2 * HALF - 1
<1> DEFINE K == 2 * HALF
<1>1. K \in Nat \ {0}
  BY HalfAssumption
<1> HIDE DEF K
<1>2. n % K \in 0 .. K - 1
  BY <1>1
<1> QED BY <1>2 DEF Unsigned, K

LEMMA ShortRange ==
  ASSUME NEW n \in Int
  PROVE  Short(n) \in -HALF .. HALF - 1
BY UnsignedRange, HalfAssumption DEF Short

LEMMA ShortOfSmall ==
  ASSUME NEW n \in 0 .. 2 * HALF - 1
  PROVE  /\ n < HALF => Short(n) = n
         /\ n >= HALF => Short(n) < 0
BY UnsignedOfSmall, HalfAssumption DEF Short

-----------------------------------------------------------------------------
(* The client and its thread.                                              *)
LEMMA AddedGrows ==
  ASSUME UNCHANGED <<batch, determined, exited>>,
         IdsTypeOK, requests' \in Nat, requests <= requests'
  PROVE  Added \subseteq Added'
BY DEF Added, IdsTypeOK

LEMMA SameMaster ==
  ASSUME IdsInv, UNCHANGED masterVars
  PROVE  EpochInv' /\ LogKeepsBatches'
BY DEF IdsInv, EpochInv, LogKeepsBatches, masterVars

LEMMA RequestStep ==
  ASSUME IdsInv, RequestWrite \/ RequestRead
  PROVE  IdsInv'
<1> USE DEF IdsInv
<1>1. /\ thread_pc = "receive" /\ requests < MaxRequests /\ requests \in Nat
      /\ requests' = requests + 1 /\ tx_id' = TxId(requests)
      /\ thread_pc' \in {"request_write", "wait_flag"}
      /\ complete_flag' \in {0, 1}
      /\ AddMsg' = [id |-> tx_id', request |-> requests]
      /\ \/ addNet' = addNet /\ thread_pc' = "wait_flag"
         \/ addNet' = addNet \cup {AddMsg'} /\ thread_pc' = "request_write"
      /\ UNCHANGED <<acknowledged, ackAddNet, masterVars, executed>>
  BY DEF RequestWrite, RequestRead, netVars, AddMsg, IdsTypeOK
<1>2. tx_id' \in 0 .. 2 * HALF - 1
  BY <1>1, UnsignedRange DEF TxId
<1>3. IdsTypeOK'
  <2>1. 0 .. requests - 1 \subseteq 0 .. requests' - 1
    BY <1>1
  <2>2. addNet' \subseteq [id : 0 .. 2 * HALF - 1, request : 0 .. requests' - 1]
    <3>1. addNet \subseteq [id : 0 .. 2 * HALF - 1, request : 0 .. requests' - 1]
      BY <2>1 DEF IdsTypeOK
    <3>2. requests \in 0 .. requests' - 1
      BY <1>1
    <3> QED BY <1>1, <1>2, <3>1, <3>2
  <2>3. determined' \in Seq(SUBSET (0 .. requests' - 1))
    <3>1. SUBSET (0 .. requests - 1) \subseteq SUBSET (0 .. requests' - 1)
      BY <2>1
    <3> QED BY <1>1, <3>1 DEF IdsTypeOK, masterVars
  <2>4. requests' \in 0 .. MaxRequests
    BY <1>1, RequestsAssumption
  <2> QED BY <1>1, <1>2, <2>1, <2>2, <2>3, <2>4 DEF IdsTypeOK, masterVars
<1>4. Added \subseteq Added'
  BY <1>1, AddedGrows DEF masterVars
<1>5. requests' <= 2 * HALF => UniqueIdsInv'
  <2> SUFFICES ASSUME requests' <= 2 * HALF PROVE UniqueIdsInv'
    OBVIOUS
  <2>1. requests <= 2 * HALF /\ requests \in 0 .. 2 * HALF - 1
    BY <1>1, HalfAssumption
  <2>2. tx_id' = requests
    BY <1>1, <2>1, UnsignedOfSmall DEF TxId
  <2>3. recieved_tx_id < requests /\ recieved_tx_id \in Int
    BY <2>1 DEF UniqueIdsInv, IdsTypeOK
  <2>4. ASSUME NEW msg \in addNet'
        PROVE  /\ msg.id = msg.request
               /\ \/ msg.request \in acknowledged'
                  \/ msg.request = requests' - 1 /\ thread_pc' = "request_write"
               /\ msg.id <= recieved_tx_id' => msg.request \in Added'
    <3>1. CASE msg \in addNet
      BY <1>1, <1>4, <2>1, <3>1 DEF UniqueIdsInv, masterVars
    <3>2. CASE msg \notin addNet
      BY <1>1, <2>2, <2>3, <3>2 DEF masterVars
    <3> QED BY <3>1, <3>2
  <2>5. \A id \in ackAddNet' : id >= 0 => id \in Added'
    BY <1>1, <1>4, <2>1 DEF UniqueIdsInv
  <2> QED BY <1>1, <2>2, <2>3, <2>4, <2>5 DEF UniqueIdsInv, masterVars
<1>6. AcknowledgedWasAdded'
  BY <1>1, <1>4 DEF AcknowledgedWasAdded
<1> QED BY <1>1, <1>3, <1>5, <1>6, SameMaster

(* Nothing new comes of the same datagram again.                           *)
LEMMA ResendStep ==
  ASSUME IdsInv, ResendAdd
  PROVE  UNCHANGED idsVars
<1>1. addNet \cup {AddMsg} = addNet
  BY DEF IdsInv, ResendAdd
<1> QED BY <1>1 DEF ResendAdd, idsVars, netVars

LEMMA RecvAckStep ==
  ASSUME IdsInv, RecvAckAdd
  PROVE  IdsInv'
<1> USE DEF IdsInv
<1>1. /\ thread_pc = "request_write" /\ requests > 0 /\ requests \in Nat
      /\ thread_pc' = "wait_flag"
      /\ acknowledged' = acknowledged \cup {requests - 1}
      /\ tx_id \in ackAddNet /\ tx_id >= 0
      /\ UNCHANGED <<requests, tx_id, complete_flag, netVars, masterVars,
                     executed>>
  BY HalfAssumption DEF RecvAckAdd, IdsTypeOK
<1>2. IdsTypeOK'
  BY <1>1 DEF IdsTypeOK, netVars, masterVars
<1>3. Added' = Added
  BY <1>1 DEF Added, masterVars
<1>4. requests' <= 2 * HALF => UniqueIdsInv'
  <2> SUFFICES ASSUME requests <= 2 * HALF PROVE UniqueIdsInv'
    BY <1>1
  <2>1. UniqueIdsInv
    OBVIOUS
  <2> QED BY <1>1, <1>3, <2>1 DEF UniqueIdsInv, netVars, masterVars
<1>5. AcknowledgedWasAdded'
  <2>1. ASSUME requests - 1 < 2 * HALF
        PROVE  requests - 1 \in Added
    <3>1. UniqueIdsInv
      BY <1>1, <2>1, HalfAssumption
    <3> QED BY <1>1, <3>1 DEF UniqueIdsInv
  <2> QED BY <1>1, <1>3, <2>1 DEF AcknowledgedWasAdded
<1> QED BY <1>1, <1>2, <1>4, <1>5, SameMaster

LEMMA RespondStep ==
  ASSUME IdsInv, Respond
  PROVE  IdsInv'
<1> USE DEF IdsInv
<1>1. /\ thread_pc = "wait_flag" /\ thread_pc' = "receive"
      /\ UNCHANGED <<requests, tx_id, complete_flag, acknowledged, netVars,
                     masterVars, executed>>
  BY DEF Respond
<1>2. IdsTypeOK'
  BY <1>1 DEF IdsTypeOK, netVars, masterVars
<1>3. Added' = Added
  BY <1>1 DEF Added, masterVars
<1>4. requests' <= 2 * HALF => UniqueIdsInv'
  BY <1>1, <1>3 DEF UniqueIdsInv, netVars, masterVars
<1>5. AcknowledgedWasAdded'
  BY <1>1, <1>3 DEF AcknowledgedWasAdded
<1> QED BY <1>1, <1>2, <1>4, <1>5, SameMaster

LEMMA ExecuteStep ==
  ASSUME IdsInv, ExecuteBatch
  PROVE  IdsInv'
<1> USE DEF IdsInv
<1>1. /\ executed' \in 0 .. Len(determined) /\ complete_flag' \in {0, 1}
      /\ UNCHANGED <<requests, thread_pc, tx_id, acknowledged, netVars,
                     masterVars>>
  BY DEF ExecuteBatch, IdsTypeOK
<1>2. IdsTypeOK'
  BY <1>1 DEF IdsTypeOK, netVars, masterVars
<1>3. Added' = Added /\ AddMsg' = AddMsg
  BY <1>1 DEF Added, AddMsg, masterVars
<1>4. requests' <= 2 * HALF => UniqueIdsInv'
  BY <1>1, <1>3 DEF UniqueIdsInv, netVars, masterVars
<1>5. AcknowledgedWasAdded'
  BY <1>1, <1>3 DEF AcknowledgedWasAdded
<1> QED BY <1>1, <1>2, <1>3, <1>4, <1>5, SameMaster DEF netVars

-----------------------------------------------------------------------------
(* The master.                                                             *)

LEMMA RecvAddStep ==
  ASSUME IdsInv, NEW msg \in addNet, RecvAdd(msg)
  PROVE  IdsInv'
<1> USE DEF IdsInv
<1>1. /\ msg.id \in 0 .. 2 * HALF - 1 /\ msg.request \in 0 .. requests - 1
      /\ ackAddNet' = ackAddNet \cup {Short(msg.id)}
      /\ \/ /\ msg.id <= recieved_tx_id
            /\ UNCHANGED <<recieved_tx_id, batch>>
         \/ /\ msg.id > recieved_tx_id
            /\ recieved_tx_id' = msg.id
            /\ batch' = batch \cup {msg.request}
      /\ UNCHANGED <<clientVars, addNet, epoch, log, determined, exited,
                     executed>>
  BY DEF RecvAdd, IdsTypeOK
<1>2. Short(msg.id) \in -HALF .. HALF - 1
  BY <1>1, ShortRange
<1>3. IdsTypeOK'
  <2>1. recieved_tx_id' \in -1 .. 2 * HALF - 1
    BY <1>1, HalfAssumption DEF IdsTypeOK
  <2>2. batch' \subseteq 0 .. requests - 1
    BY <1>1 DEF IdsTypeOK
  <2>3. ackAddNet' \subseteq -HALF .. HALF - 1
    BY <1>1, <1>2 DEF IdsTypeOK
  <2> QED BY <1>1, <2>1, <2>2, <2>3 DEF IdsTypeOK, clientVars
<1>4. Added \subseteq Added'
  BY <1>1 DEF Added, clientVars
<1>5. ASSUME requests <= 2 * HALF PROVE UniqueIdsInv'
  <2>1. UniqueIdsInv /\ requests \in Nat
    BY <1>5 DEF IdsTypeOK
  <2>2. msg.id = msg.request /\ msg.id < requests
    BY <1>1, <2>1 DEF UniqueIdsInv
  <2>3. msg.request \in Added'
    <3>1. CASE msg.id <= recieved_tx_id
      BY <1>4, <2>1, <3>1 DEF UniqueIdsInv
    <3>2. CASE batch' = batch \cup {msg.request}
      BY <3>2 DEF Added
    <3> QED BY <1>1, <3>1, <3>2
  <2>4. ASSUME NEW other \in addNet, other.id <= recieved_tx_id'
        PROVE  other.request \in Added'
    <3>1. other.id = other.request
      BY <2>1 DEF UniqueIdsInv
    <3>2. CASE other.id <= recieved_tx_id
      BY <1>4, <2>1, <3>2 DEF UniqueIdsInv
    <3>3. CASE recieved_tx_id' = msg.id /\ other.id = msg.id
      BY <2>2, <2>3, <3>1, <3>3
    <3>4. CASE recieved_tx_id' = msg.id /\ other.id # msg.id
      <4>1. other.request < requests - 1 /\ other.request \in Nat
        BY <1>1, <2>1, <2>2, <2>4, <3>1, <3>4 DEF IdsTypeOK
      <4>2. other.request \in acknowledged
        BY <2>1, <4>1 DEF UniqueIdsInv
      <4>3. other.request \in Added
        BY <1>5, <2>1, <4>1, <4>2, HalfAssumption DEF AcknowledgedWasAdded
      <4> QED BY <1>4, <4>3
    <3> QED BY <1>1, <2>4, <3>2, <3>3, <3>4
  <2>5. ASSUME NEW id \in ackAddNet', id >= 0
        PROVE  id \in Added'
    <3>1. CASE id \in ackAddNet
      BY <1>4, <2>1, <2>5, <3>1 DEF UniqueIdsInv
    <3>2. CASE id = Short(msg.id)
      <4>1. id = msg.id
        <5>1. Short(msg.id) >= 0
          BY <2>5, <3>2
        <5>2. msg.id < HALF => Short(msg.id) = msg.id
          BY <1>1, ShortOfSmall
        <5>3. msg.id >= HALF => Short(msg.id) < 0
          BY <1>1, ShortOfSmall
        <5> QED BY <1>1, <1>2, <3>2, <5>1, <5>2, <5>3, HalfAssumption
      <4> QED BY <2>2, <2>3, <4>1
    <3> QED BY <1>1, <3>1, <3>2
  <2>6. recieved_tx_id' < requests
    BY <1>1, <2>1, <2>2 DEF UniqueIdsInv
  <2> QED BY <1>1, <2>1, <2>4, <2>5, <2>6 DEF UniqueIdsInv, clientVars
<1>6. AcknowledgedWasAdded'
  BY <1>1, <1>4 DEF AcknowledgedWasAdded, clientVars
<1>7. EpochInv' /\ LogKeepsBatches'
  BY <1>1 DEF EpochInv, LogKeepsBatches
<1>8. AddMsg' = AddMsg
  BY <1>1 DEF AddMsg, clientVars
<1> QED BY <1>1, <1>3, <1>5, <1>6, <1>7, <1>8 DEF clientVars

LEMMA CloseStep ==
  ASSUME IdsInv, CloseEpoch
  PROVE  IdsInv'
<1> USE DEF IdsInv
<1>1. /\ ~exited /\ epoch < MaxBatches /\ batch' = {} /\ epoch' = epoch + 1
      /\ UNCHANGED <<clientVars, netVars, recieved_tx_id, executed>>
  BY DEF CloseEpoch
<1>2. /\ epoch \in 0 .. 2 * HALF - 1 /\ epoch = Len(determined)
      /\ Len(determined) \in Nat
      /\ determined \in Seq(SUBSET (0 .. requests - 1))
      /\ batch \in SUBSET (0 .. requests - 1)
  BY <1>1, HalfAssumption DEF EpochInv, IdsTypeOK
<1>3. epoch' \in 0 .. MaxBatches
  BY <1>1, RequestsAssumption DEF IdsTypeOK
<1>4. AddMsg' = AddMsg
  BY <1>1 DEF AddMsg, clientVars
<1>5. ASSUME NEW n \in acknowledged, Added \subseteq Added'
      PROVE  n < 2 * HALF => n \in Added'
  BY <1>5 DEF AcknowledgedWasAdded
<1>6. CASE LogOffset(epoch) < 0
  <2>1. exited' = TRUE /\ UNCHANGED <<log, determined>>
    BY <1>6 DEF CloseEpoch
  <2>2. IdsTypeOK'
    BY <1>1, <1>3, <2>1 DEF IdsTypeOK, clientVars, netVars
  <2>3. Added \subseteq Added'
    <3>1. batch \subseteq 0 .. requests
      BY <1>2 DEF IdsTypeOK
    <3>2. Added = batch \cup UNION {determined[i] : i \in 1 .. Len(determined)}
      BY <1>1 DEF Added
    <3>3. /\ 0 .. requests \subseteq Added'
          /\ UNION {determined[i] : i \in 1 .. Len(determined)} \subseteq Added'
      BY <1>1, <2>1 DEF Added, clientVars
    <3> QED BY <3>1, <3>2, <3>3
  <2>4. requests' <= 2 * HALF => UniqueIdsInv'
    BY <1>1, <2>3 DEF UniqueIdsInv, clientVars, netVars
  <2>5. AcknowledgedWasAdded'
    BY <1>1, <1>5, <2>3 DEF AcknowledgedWasAdded, clientVars
  <2>6. EpochInv' /\ LogKeepsBatches'
    BY <2>1 DEF EpochInv, LogKeepsBatches
  <2> QED BY <1>1, <1>4, <2>2, <2>4, <2>5, <2>6 DEF clientVars, netVars
<1>7. CASE ~ (LogOffset(epoch) < 0)
  <2>1. /\ determined' = Append(determined, batch)
        /\ log' = [o \in (DOMAIN log) \cup {LogOffset(epoch)} |->
                     IF o = LogOffset(epoch) THEN batch ELSE log[o]]
        /\ UNCHANGED exited
    BY <1>7 DEF CloseEpoch
  <2>2. epoch < HALF /\ LogOffset(epoch) = epoch
    BY <1>2, <1>7, ShortOfSmall, HalfAssumption DEF LogOffset
  <2>3. /\ determined' \in Seq(SUBSET (0 .. requests - 1))
        /\ Len(determined') = Len(determined) + 1
        /\ determined'[Len(determined) + 1] = batch
        /\ \A i \in 1 .. Len(determined) : determined'[i] = determined[i]
    BY <1>2, <2>1
  <2>4. IdsTypeOK'
    <3>1. DOMAIN log' \subseteq 0 .. HALF - 1
      BY <1>2, <2>1, <2>2, HalfAssumption DEF IdsTypeOK
    <3>2. executed' \in 0 .. Len(determined')
      BY <1>1, <1>2, <2>3 DEF IdsTypeOK
    <3> QED BY <1>1, <1>3, <2>1, <2>3, <3>1, <3>2
            DEF IdsTypeOK, clientVars, netVars
  <2>5. Added \subseteq Added'
    <3>1. UNION {determined[i] : i \in 1 .. Len(determined)}
            \subseteq UNION {determined'[i] : i \in 1 .. Len(determined')}
      BY <1>2, <2>3
    <3>2. batch \subseteq UNION {determined'[i] : i \in 1 .. Len(determined')}
      BY <1>2, <2>3
    <3> QED BY <1>1, <2>1, <3>1, <3>2 DEF Added
  <2>6. requests' <= 2 * HALF => UniqueIdsInv'
    BY <1>1, <2>5 DEF UniqueIdsInv, clientVars, netVars
  <2>7. AcknowledgedWasAdded'
    BY <1>1, <1>5, <2>5 DEF AcknowledgedWasAdded, clientVars
  <2>8. EpochInv'
    BY <1>1, <1>2, <2>1, <2>2, <2>3, HalfAssumption DEF EpochInv
  <2>9. LogKeepsBatches'
    <3> SUFFICES ASSUME NEW i \in 1 .. Len(determined) + 1
                 PROVE  /\ Short(i - 1) \in DOMAIN log'
                        /\ log'[Short(i - 1)] = determined'[i]
      BY <2>3 DEF LogKeepsBatches
    <3>1. i - 1 \in 0 .. 2 * HALF - 1 /\ i - 1 < HALF
      BY <1>2, <2>2, HalfAssumption
    <3>2. Short(i - 1) = i - 1
      BY <3>1, ShortOfSmall
    <3>3. CASE i = Len(determined) + 1
      BY <1>2, <2>1, <2>2, <2>3, <3>2, <3>3
    <3>4. CASE i \in 1 .. Len(determined)
      BY <1>2, <2>1, <2>2, <2>3, <3>2, <3>4 DEF LogKeepsBatches
    <3> QED BY <1>2, <3>3, <3>4
  <2> QED BY <1>1, <1>4, <2>4, <2>6, <2>7, <2>8, <2>9 DEF clientVars, netVars
<1> QED BY <1>6, <1>7

-----------------------------------------------------------------------------
LEMMA IdsStart == IdsInit => IdsInv
<1> SUFFICES ASSUME IdsInit PROVE IdsInv
  OBVIOUS
<1>1. IdsTypeOK
  <2>1. /\ 0 \in 0 .. MaxRequests /\ 0 \in 0 .. 2 * HALF - 1
        /\ -1 \in -1 .. 2 * HALF - 1 /\ 0 \in 0 .. MaxBatches
    BY HalfAssumption, RequestsAssumption
  <2>2. determined \in Seq(SUBSET (0 .. requests - 1))
    BY DEF IdsInit
  <2>3. DOMAIN log \subseteq 0 .. HALF - 1
    BY DEF IdsInit
  <2>4. executed \in 0 .. Len(determined)
    BY DEF IdsInit
  <2> QED BY <2>1, <2>2, <2>3, <2>4 DEF IdsInit, IdsTypeOK
<1>2. UniqueIdsInv /\ AcknowledgedWasAdded
  BY DEF IdsInit, UniqueIdsInv, AcknowledgedWasAdded
<1>3. EpochInv /\ LogKeepsBatches
  BY HalfAssumption DEF IdsInit, EpochInv, LogKeepsBatches
<1> QED BY <1>1, <1>2, <1>3 DEF IdsInit, IdsInv

LEMMA IdsStutter == IdsInv /\ UNCHANGED idsVars => IdsInv'
<1> SUFFICES ASSUME IdsInv, UNCHANGED idsVars PROVE IdsInv'
  OBVIOUS
<1>1. /\ Added' = Added /\ AddMsg' = AddMsg
      /\ IdsTypeOK' /\ EpochInv' /\ LogKeepsBatches'
  BY DEF Added, AddMsg, IdsInv, IdsTypeOK, EpochInv, LogKeepsBatches,
         idsVars, clientVars, netVars, masterVars
<1> QED BY <1>1
        DEF IdsInv, UniqueIdsInv, AcknowledgedWasAdded, idsVars, clientVars,
            netVars, masterVars

LEMMA IdsStep == IdsInv /\ [IdsNext]_idsVars => IdsInv'
<1> SUFFICES ASSUME IdsInv, [IdsNext]_idsVars PROVE IdsInv'
  OBVIOUS
<1>1. CASE RequestWrite \/ RequestRead
  BY <1>1, RequestStep
<1>2. CASE ResendAdd
  BY <1>2, ResendStep, IdsStutter
<1>3. CASE RecvAckAdd
  BY <1>3, RecvAckStep
<1>4. CASE Respond
  BY <1>4, RespondStep
<1>5. CASE \E msg \in addNet : RecvAdd(msg)
  BY <1>5, RecvAddStep
<1>6. CASE CloseEpoch
  BY <1>6, CloseStep
<1>7. CASE ExecuteBatch
  BY <1>7, ExecuteStep
<1>8. CASE UNCHANGED idsVars
  BY <1>8, IdsStutter
<1> QED BY <1>1, <1>2, <1>3, <1>4, <1>5, <1>6, <1>7, <1>8 DEF IdsNext

(* Every write among the first 2 * HALF requests that the thread takes as   *)
(* received by the master is in a batch, as no two of them have one id; and *)
(* every determined batch is in the log at the offset of its epoch, as the  *)
(* master stops before an epoch id comes again as an offset.  This is so    *)
(* for every width of the integers, and however many requests and batches   *)
(* there are, more than the width can tell apart included.                  *)
THEOREM IdsInvariance == IdsSpec => []IdsInv
BY IdsStart, IdsStep, PTL DEF IdsSpec
=============================================================================
