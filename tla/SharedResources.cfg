CONSTANTS
  w1 = w1
  w2 = w2
  r1 = r1
  p1 = p1
  p2 = p2
  c1 = c1
  n1 = n1
  n2 = n2
  NULL = NULL
  NOBODY = NOBODY
  Keys = {0}
  Writers = {w1, w2}
  Readers = {r1}
  Arguments = {1}
  HALF = 2
  MaxWrites = 2
  Producers = {p1, p2}
  Consumers = {c1}
  Nodes = {n1, n2}
  MaxItems = 2
  CLIENT_NUM = 2
  Runs = 2
  MaxTxId = 1
SPECIFICATION SharedSpec
INVARIANTS
  ReadIsRecent
  QueueInv
  ConnectionsInv
  RowsAreAnswers
PROPERTIES
  ImplementsFifo
  EveryItemTaken
  EveryAddReturns
  WorkersFollowClients
  ProgramEnds
\* The threads and the programs end.
CHECK_DEADLOCK FALSE
