SPECIFICATION FairSpec
CONSTANTS
  Master = m
  Slaves = {s1, s2}
  OtherRegion = {}
  Region <- MCRegion
  TxSets = {t1}
  exp = "proposed_method"
  MaxEpoch = 1
  Loss = {"batch", "ack_to_master"}
  NoBatch = NoBatch
PROPERTIES
  EveryBatchAcknowledged
\* it stops where the last batch (MaxEpoch) is acknowledged
CHECK_DEADLOCK FALSE
