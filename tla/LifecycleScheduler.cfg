SPECIFICATION Spec
CONSTANTS
  m = m
  s1 = s1
  Master = m
  Slaves = {s1}
  Clients = {1}
  Home <- MCHome
  Program = "client_time"
  MaxEpoch = 0
  MaxTxId = 1
INVARIANT SchedulerRunsUntilFinish
\* The programs end, or wait for ever: both are ends of the run.
CHECK_DEADLOCK FALSE
