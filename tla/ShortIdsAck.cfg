CONSTANTS
  HALF = 2
  MaxRequests = 4
  MaxBatches = 2
SPECIFICATION FairIdsSpec
PROPERTY FlagEndsWaiting
CHECK_DEADLOCK FALSE
