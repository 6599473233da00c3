SPECIFICATION Spec
CONSTANTS
  s1 = s1
  s2 = s2
  c1 = c1
  c2 = c2
  Slaves = {s1, s2}
  Clients = {c1, c2}
  Home <- MCHome
  Keys = {1}
  HALF = 2
  MAX_BATCH_SIZE = 2
  MaxTxId = 1
  MaxRequests = 3
  MaxEmptyBatches = 1
  Loss = FALSE
INVARIANTS
  TxInv
  ExactlyOnce
  NotifiesItsOwnTx
  AnsweredWriteIsDone
  ReadsOwnWrites
  RealTimeOrder
  Convergence
PROPERTIES
  UsesBatchOrder
\* it stops where the clients have made their last request (MaxTxId)
CHECK_DEADLOCK FALSE
