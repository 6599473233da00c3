---------------------------- MODULE MessageCodec ----------------------------
(***************************************************************************)
(* The messages as bytes: what create_*_msg writes into a buffer,          *)
(* get_info_from_*_msg reads from one, and check_msg decides between       *)
(* (utils/message.c, utils/bytes.c, batch/batch.c).                        *)
(*                                                                         *)
(* The fields have no names on the wire.  Every thread reuses its buffers, *)
(* nothing clears them, and no receiver compares the length it got with    *)
(* the length of the type, so what lies behind a message is whatever an    *)
(* earlier one left there.  A state is one link between two threads, with  *)
(* the buffer of the sender, the bytes on their way and the buffer of the  *)
(* receiver.  The terminate messages have no caller and are left out.      *)
(***************************************************************************)
EXTENDS Integers, Sequences

CONSTANTS
  MAX_BATCH_SIZE,  \* the most transactions a batch holds
  MSG_SIZE,        \* the size of the buffers
  Txs,             \* the transactions of the clients
  AckIds,          \* ids in an ACK_ADD_MESSAGE
  Epochs,          \* epoch ids
  ReplicaIds,      \* replica ids
  Garbage          \* what a byte of a fresh buffer may be

(* x86: a char is 8 bits, signed, and a short 16 bits, low byte first.     *)
IsShort(n) == n \in Int /\ -32768 <= n /\ n < 32768
IsUnsignedShort(n) == n \in Int /\ 0 <= n /\ n < 65536
IsByte(b) == b \in Int /\ 0 <= b /\ b < 256

(* id is an unsigned short; the types are READ_ONLY 0, WRITE_ONLY 1 and    *)
(* FINISH_REQUEST 3.                                                       *)
IsTx(t) ==
  /\ t = [replica_id |-> t.replica_id, client_id |-> t.client_id,
          id |-> t.id, type |-> t.type, key |-> t.key, value |-> t.value]
  /\ IsShort(t.replica_id) /\ IsShort(t.client_id) /\ IsUnsignedShort(t.id)
  /\ t.type \in {0, 1, 2, 3}
  /\ IsShort(t.key) /\ IsShort(t.value)

ASSUME SizeAssumption ==
  /\ MAX_BATCH_SIZE \in Nat /\ MAX_BATCH_SIZE < 32768
  /\ MSG_SIZE \in Nat /\ MSG_SIZE >= 14
  /\ MSG_SIZE >= 5 + 11 * MAX_BATCH_SIZE
ASSUME FieldAssumption ==
  /\ \A t \in Txs : IsTx(t)
  /\ \A n \in AckIds : IsShort(n)
  /\ \A n \in Epochs \cup ReplicaIds : IsShort(n)
  /\ \A b \in Garbage : IsByte(b)

VARIABLES
  link,      \* who talks to whom
  send_msg,  \* the buffer of the sender
  len,       \* how many bytes of it are on their way, 0 if none are
  recv_msg,  \* the buffer of the receiver
  sent,      \* the message that was created last
  got        \* the message that was received last

vars == <<link, send_msg, len, recv_msg, sent, got>>

Cells == 0 .. MSG_SIZE - 1

-----------------------------------------------------------------------------
Lo(n) == n % 256


Hi(n) == (n \div 256) % 256

Signed(n) == IF n < 32768 THEN n ELSE n - 65536

GetShort(msg, offset) == Signed(msg[offset] + 256 * msg[offset + 1])

(* Assigned to the unsigned id of a Tx.                                    *)
GetId(msg, offset) == GetShort(msg, offset) % 65536

GetChar(msg, offset) ==
  IF msg[offset] < 128 THEN msg[offset] ELSE msg[offset] - 256

(* The message types of message.h.                                         *)
REQUEST_TX    == 3
RESPONSE_TX   == 4
ADD_TO_BATCH  == 5
ACK_ADD       == 6
BATCH         == 7
ACK_BATCH     == 8
REQUEST_BATCH == 9

(* msg with the bytes written from an offset on.                           *)
Write(msg, offset, bytes) ==
  [i \in DOMAIN msg |-> IF offset <= i /\ i < offset + Len(bytes)
                          THEN bytes[i - offset + 1] ELSE msg[i]]

(* The eleven bytes of a transaction, the same in all messages with one.   *)
TxBytes(t) ==
  <<Lo(t.replica_id), Hi(t.replica_id), Lo(t.client_id), Hi(t.client_id),
    Lo(t.id), Hi(t.id), t.type, Lo(t.key), Hi(t.key), Lo(t.value), Hi(t.value)>>

(* Mutant: the type is written last, over the first byte of the key. *)
RequestTxTypeLast(t, msg) ==
  LET all == <<REQUEST_TX, Lo(t.replica_id), Hi(t.replica_id),
               Lo(t.client_id), Hi(t.client_id), Lo(t.id), Hi(t.id),
               Lo(t.type), Hi(t.type), Hi(t.key), Lo(t.value), Hi(t.value)>>
  IN  Write(msg, 0, all)

(* The type is written as a short where the message has one byte for it;   *)
(* the key, written next, begins at the second of the two.                 *)
CreateRequestTx(t, msg) ==
  LET upToType == <<REQUEST_TX, Lo(t.replica_id), Hi(t.replica_id),
                    Lo(t.client_id), Hi(t.client_id), Lo(t.id), Hi(t.id),
                    Lo(t.type), Hi(t.type)>>
      keyAndValue == <<Lo(t.key), Hi(t.key), Lo(t.value), Hi(t.value)>>
  IN  Write(Write(msg, 0, upToType), 8, keyAndValue)

(* A message that is the type, a transaction and nothing or one short.     *)
WithTx(type, t, rest, msg) ==
  [i \in DOMAIN msg |->
     IF i = 0 THEN type
     ELSE IF i <= 11 THEN TxBytes(t)[i]
     ELSE IF i <= 11 + Len(rest) THEN rest[i - 11]
     ELSE msg[i]]

CreateResponseTx(t, epoch, msg) ==
  WithTx(RESPONSE_TX, t, <<Lo(epoch), Hi(epoch)>>, msg)

CreateAddToBatch(t, msg) == WithTx(ADD_TO_BATCH, t, <<>>, msg)

CreateAckAdd(replica, client, id, msg) ==
  Write(msg, 0, <<ACK_ADD, Lo(replica), Hi(replica), Lo(client), Hi(client),
                  Lo(id), Hi(id)>>)

BatchHead(epoch, txs) ==
  <<BATCH, Lo(epoch), Hi(epoch), Lo(Len(txs)), Hi(Len(txs))>>

(* Byte n of the transactions, which follow one another.                   *)
BatchBody(txs, n) == TxBytes(txs[(n \div 11) + 1])[(n % 11) + 1]

CreateBatch(epoch, txs, msg) ==
  [i \in DOMAIN msg |->
     IF i < 5 THEN BatchHead(epoch, txs)[i + 1]
     ELSE IF i < 5 + 11 * Len(txs) THEN BatchBody(txs, i - 5)
     ELSE msg[i]]

(* ACK_BATCH_MESSAGE and REQUEST_BATCH_MESSAGE.                            *)
CreateAboutBatch(type, replica, epoch, msg) ==
  Write(msg, 0, <<type, Lo(replica), Hi(replica), Lo(epoch), Hi(epoch)>>)

-----------------------------------------------------------------------------
GetTx(msg, offset) ==
  [replica_id |-> GetShort(msg, offset), client_id |-> GetShort(msg, offset + 2),
   id |-> GetId(msg, offset + 4), type |-> GetChar(msg, offset + 6),
   key |-> GetShort(msg, offset + 7), value |-> GetShort(msg, offset + 9)]

(* batch_add_tx refuses what is beyond MAX_BATCH_SIZE.                     *)
TxNum(msg) ==
  IF GetShort(msg, 3) <= MAX_BATCH_SIZE THEN GetShort(msg, 3)
                                        ELSE MAX_BATCH_SIZE

GetBatch(msg) ==
  [type |-> BATCH, epoch |-> GetShort(msg, 1),
   txs |-> [k \in 1 .. TxNum(msg) |-> GetTx(msg, 5 + 11 * (k - 1))]]

GetRequestTx(msg) == [type |-> REQUEST_TX, tx |-> GetTx(msg, 1)]

GetResponseTx(msg) ==
  [type |-> RESPONSE_TX, tx |-> GetTx(msg, 1), epoch |-> GetShort(msg, 12)]

GetAddToBatch(msg) == [type |-> ADD_TO_BATCH, tx |-> GetTx(msg, 1)]

GetAckAdd(msg) ==
  [type |-> ACK_ADD, replica |-> GetShort(msg, 1),
   client |-> GetShort(msg, 3), id |-> GetShort(msg, 5)]

GetAboutBatch(type, msg) ==
  [type |-> type, replica |-> GetShort(msg, 1), epoch |-> GetShort(msg, 3)]

(* check_msg, and what the receiver reads then; a client reads the         *)
(* response without looking at the type.                                   *)
Decode(where, msg) ==
  LET type == GetChar(msg, 0)
  IN  IF where = "response"     THEN GetResponseTx(msg)
      ELSE IF type = REQUEST_TX   THEN GetRequestTx(msg)
      ELSE IF type = ADD_TO_BATCH THEN GetAddToBatch(msg)
      ELSE IF type = ACK_ADD      THEN GetAckAdd(msg)
      ELSE IF type = BATCH        THEN GetBatch(msg)
      ELSE IF type = ACK_BATCH    THEN GetAboutBatch(ACK_BATCH, msg)
      ELSE GetAboutBatch(REQUEST_BATCH, msg)

-----------------------------------------------------------------------------
(* Requests and responses go over TCP between a client and its thread of   *)
(* the client interface; transactions and their ACKs between that thread   *)
(* and the master's; batches, their ACKs and requests for batches between  *)
(* the sequencers.                                                         *)
Links == {"request", "response", "add", "ack_add", "batch"}

NoMessage == [type |-> 0]

Init ==
  /\ link \in Links
  /\ \E b \in Garbage : send_msg = [i \in Cells |-> b]
  /\ \E b \in Garbage : recv_msg = [i \in Cells |-> b]
  /\ len = 0
  /\ sent = NoMessage
  /\ got = NoMessage

(* A message is created and sent; one on its way may be lost.              *)
Send(where, message, msg, size) ==
  /\ link = where
  /\ send_msg' = msg
  /\ len' = size
  /\ sent' = message
  /\ UNCHANGED <<link, recv_msg, got>>

SendRequestTx ==
  \E t \in Txs : Send("request", [type |-> REQUEST_TX, tx |-> t],
                      CreateRequestTx(t, send_msg), 12)

SendResponseTx ==
  \E t \in Txs, e \in Epochs :
    Send("response", [type |-> RESPONSE_TX, tx |-> t, epoch |-> e],
         CreateResponseTx(t, e, send_msg), 14)

SendAddToBatch ==
  \E t \in Txs : Send("add", [type |-> ADD_TO_BATCH, tx |-> t],
                      CreateAddToBatch(t, send_msg), 12)

SendAckAdd ==
  \E r, c \in ReplicaIds, id \in AckIds :
    Send("ack_add", [type |-> ACK_ADD, replica |-> r, client |-> c, id |-> id],
         CreateAckAdd(r, c, id, send_msg), 7)

(* A batch is sent as a whole record of the log, with what lies behind it. *)
SendBatch ==
  \E e \in Epochs, n \in 0 .. MAX_BATCH_SIZE : \E txs \in [1 .. n -> Txs] :
    Send("batch", [type |-> BATCH, epoch |-> e, txs |-> txs],
         CreateBatch(e, txs, send_msg), MSG_SIZE)

SendAboutBatch ==
  \E type \in {ACK_BATCH, REQUEST_BATCH}, r \in ReplicaIds, e \in Epochs :
    Send("batch", [type |-> type, replica |-> r, epoch |-> e],
         CreateAboutBatch(type, r, e, send_msg), 5)

(* The bytes overwrite the beginning of the receiver's buffer.             *)
Overlay == [i \in Cells |-> IF i < len THEN send_msg[i] ELSE recv_msg[i]]

Receive ==
  /\ len > 0
  /\ recv_msg' = Overlay
  /\ got' = Decode(link, Overlay)
  /\ len' = 0
  /\ UNCHANGED <<link, send_msg, sent>>

Next ==
  \/ SendRequestTx \/ SendResponseTx \/ SendAddToBatch \/ SendAckAdd
  \/ SendBatch \/ SendAboutBatch \/ Receive

Spec == Init /\ [][Next]_vars

-----------------------------------------------------------------------------
(* Every cell of a buffer is a byte, whatever short was written to it, and *)
(* the length of a message is within the buffers (bytes.c:18-36).          *)
TypeOK ==
  /\ link \in Links
  /\ len \in 0 .. MSG_SIZE
  /\ DOMAIN send_msg = Cells /\ DOMAIN recv_msg = Cells
  /\ \A i \in Cells : IsByte(send_msg[i]) /\ IsByte(recv_msg[i])

(* What a receiver reads is what the sender wrote: the kind, every field,  *)
(* also a negative one, an id above 32767 and the key next to the type     *)
(* that is written too wide (message.c:90-92), and of a batch all the      *)
(* transactions in their order and no other, whatever longer message was   *)
(* in either buffer before.                                                *)
Understood == len = 0 => got = sent
=============================================================================
