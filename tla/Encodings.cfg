CONSTANTS
  MAX_BATCH_SIZE = 2
  MSG_SIZE = 30
  Txs <- MCTxs
  AckIds <- MCAckIds
  Epochs <- MCEpochs
  ReplicaIds <- MCReplicaIds
  Garbage = {0, 255}
  m = m
  s1 = s1
  s2 = s2
  NULL = NULL
  Master = m
  Slaves = {s1, s2}
  Senders = {s1}
  Helpers = {s1}
  RecordSize = 3
  Sizes = {1, 2}
  MaxEpoch = 1
  HALF = 2
  MaxRequests = 5
  MaxBatches = 6
  REPLICA_NUM = 3
  CLIENT_NUM = 2
  OneHost = TRUE
SPECIFICATION EncodingsSpec
INVARIANTS
  Understood
  FileInv
  IdsInv
  NobodyElseReceives
PROPERTIES
  ImplementsBatchLog
\* ShortIds stops at its bounds.
CHECK_DEADLOCK FALSE
