\* As in test/storage_test.c: one thread writes the key to each record, and
\* reads the records.
CONSTANTS
  Keys = {0, 1}
  Writers = {main}
  Readers = {reader}
  Arguments = {0, 1}
  NOBODY = NOBODY
  HALF = 4
  MaxWrites = 2
SPECIFICATION StorageSpec
INVARIANT ReadReturnsStored
\* The threads end.
CHECK_DEADLOCK FALSE
