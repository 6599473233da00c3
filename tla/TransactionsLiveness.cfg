SPECIFICATION FairSpec
CONSTANTS
  s1 = s1
  s2 = s2
  c1 = c1
  c2 = c2
  Slaves = {s1}
  Clients = {c1, c2}
  Home <- MCHome
  Keys = {1}
  HALF = 2
  MAX_BATCH_SIZE = 1
  MaxTxId = 1
  MaxRequests = 2
  MaxEmptyBatches = 0
  Loss = TRUE
PROPERTIES
  EveryRequestAnswered
\* it stops where the clients have made their last request (MaxRequests)
CHECK_DEADLOCK FALSE
