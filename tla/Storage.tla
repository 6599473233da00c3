------------------------------- MODULE Storage -------------------------------
(***************************************************************************)
(* The records of a replica (utils/storage.c): each has a value, which is  *)
(* a short, and a mutex.  write_to_storage increments the value, whatever  *)
(* value it is called with, in two accesses to memory.  The functions are  *)
(* documented as thread safe (storage.c:36, 56), so any number of threads  *)
(* may call them; in a replica they are the two schedulers.                *)
(***************************************************************************)
EXTENDS Shorts

CONSTANTS
  Keys,
  Writers,    \* threads that call write_to_storage
  Readers,    \* threads that call read_from_storage
  Arguments,  \* the values that write_to_storage is called with
  NOBODY,
  MaxWrites   \* bound: the calls of each writer

Callers == Writers \cup Readers

ASSUME CallersAssumption == Writers \cap Readers = {} /\ NOBODY \notin Callers
ASSUME ArgumentsAssumption == Arguments \subseteq Values
ASSUME WritesAssumption == MaxWrites \in Nat

VARIABLES
  value,         \* of each record
  record_mutex,  \* of each record: the thread that holds it, or NOBODY
  call_pc,       \* "idle", "lock", "access", "store", "unlock"
  key,           \* the argument of each thread's call
  argument,      \* the value a writer's call has
  register,      \* what a thread has loaded from the record
  calls,         \* how many calls each writer has begun
  writes,        \* history: the increments of each record
  stored,        \* history: what the last write to each record was called with
  before         \* history: writes[key] when a reader's call began

call == <<key, argument, calls>>
recordHistory == <<writes, stored, before>>
storageVars == <<value, record_mutex, call_pc, register, call, recordHistory>>

StorageInit ==
  /\ value = [k \in Keys |-> 0]
  /\ record_mutex = [k \in Keys |-> NOBODY]
  /\ call_pc = [t \in Callers |-> "idle"]
  /\ key \in [Callers -> Keys]
  /\ argument \in [Writers -> Arguments]
  /\ register = [t \in Callers |-> 0]
  /\ calls = [w \in Writers |-> 0]
  /\ writes = [k \in Keys |-> 0]
  /\ stored = [k \in Keys |-> 0]
  /\ before = [r \in Readers |-> 0]

CallGoto(t, from, to) ==
  call_pc[t] = from /\ call_pc' = [call_pc EXCEPT ![t] = to]

-----------------------------------------------------------------------------
CallWrite(w) ==
  /\ calls[w] < MaxWrites
  /\ CallGoto(w, "idle", "lock")
  /\ \E k \in Keys : key' = [key EXCEPT ![w] = k]
  /\ \E v \in Arguments : argument' = [argument EXCEPT ![w] = v]
  /\ calls' = [calls EXCEPT ![w] = @ + 1]
  /\ UNCHANGED <<value, record_mutex, register, recordHistory>>

CallRead(r) ==
  /\ CallGoto(r, "idle", "lock")
  /\ \E k \in Keys : /\ key' = [key EXCEPT ![r] = k]
                     /\ before' = [before EXCEPT ![r] = writes[k]]
  /\ UNCHANGED <<value, record_mutex, argument, calls, register, writes, stored>>

(* Mutant: the threads do not wait for one another. *)
LockRecordIgnored(t) ==
  /\ CallGoto(t, "lock", "access")
  /\ record_mutex' = [record_mutex EXCEPT ![key[t]] = t]
  /\ UNCHANGED <<value, register, call, recordHistory>>

LockRecord(t) ==
  /\ CallGoto(t, "lock", "access")
  /\ record_mutex[key[t]] = NOBODY
  /\ record_mutex' = [record_mutex EXCEPT ![key[t]] = t]
  /\ UNCHANGED <<value, register, call, recordHistory>>

(* A write loads the value, a read is done with that.                      *)
Load(t) ==
  /\ CallGoto(t, "access", IF t \in Writers THEN "store" ELSE "unlock")
  /\ register' = [register EXCEPT ![t] = value[key[t]]]
  /\ UNCHANGED <<value, record_mutex, call, recordHistory>>

Store(w) ==
  /\ CallGoto(w, "store", "unlock")
  /\ value' = [value EXCEPT ![key[w]] = Short(register[w] + 1)]
  /\ writes' = [writes EXCEPT ![key[w]] = @ + 1]
  /\ stored' = [stored EXCEPT ![key[w]] = argument[w]]
  /\ UNCHANGED <<record_mutex, register, call, before>>

UnlockRecord(t) ==
  /\ CallGoto(t, "unlock", "idle")
  /\ record_mutex' = [record_mutex EXCEPT ![key[t]] = NOBODY]
  /\ UNCHANGED <<value, register, call, recordHistory>>

StorageNext ==
  \/ \E w \in Writers : CallWrite(w) \/ Store(w)
  \/ \E r \in Readers : CallRead(r)
  \/ \E t \in Callers : LockRecord(t) \/ Load(t) \/ UnlockRecord(t)

StorageSpec == StorageInit /\ [][StorageNext]_storageVars

-----------------------------------------------------------------------------
StorageTypeOK ==
  /\ value \in [Keys -> Values]
  /\ record_mutex \in [Keys -> Callers \cup {NOBODY}]
  /\ call_pc \in [Callers -> {"idle", "lock", "access", "store", "unlock"}]
  /\ key \in [Callers -> Keys] /\ argument \in [Writers -> Arguments]
  /\ register \in [Callers -> Values]
  /\ calls \in [Writers -> 0 .. MaxWrites]
  /\ writes \in [Keys -> Nat] /\ stored \in [Keys -> Values]
  /\ before \in [Readers -> Nat]

(* A record is the number of the writes to it, none of which is lost to     *)
(* another thread that has loaded the same value; beyond 32767 the count    *)
(* goes on from -32768 (storage.c:66).                                     *)
CountsWrites == \A k \in Keys : value[k] = Short(writes[k])

(* A read returns the count of the writes at some time during the call     *)
(* (storage.c:41-53, 66).                                                  *)
ReadIsRecent ==
  \A r \in Readers :
    call_pc[r] = "unlock" =>
      \E n \in before[r] .. writes[key[r]] : register[r] = Short(n)

(* A read returns the value that the last write was called with: what the  *)
(* storage test asserts (test/storage_test.c:9-15), and the parameter of   *)
(* write_to_storage is for (storage.c:55-60).  The code increments.        *)
ReadReturnsStored ==
  \A r \in Readers : call_pc[r] = "unlock" => register[r] = stored[key[r]]
=============================================================================
