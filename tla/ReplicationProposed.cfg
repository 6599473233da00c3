SPECIFICATION Spec
CONSTANTS
  Master = m
  Slaves = {s1, s2, s3}
  OtherRegion = {s3}
  Region <- MCRegion
  TxSets = {t1, t2}
  exp = "proposed_method"
  MaxEpoch = 2
  Loss = {"request"}
  NoBatch = NoBatch
SYMMETRY Symmetry
INVARIANTS
  IInv
  NoHalt
  ReplicaAgreement
  AckedIsLogged
PROPERTIES
  NeverTakenBack
  ImplementsBatchOrder
