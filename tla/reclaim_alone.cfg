SPECIFICATION Spec
CONSTANTS
  MaxTx = 2
  Coins = {m1, m2}
  LateRequests = TRUE
  Batches = {batch}
  Ackers = {acker}
  Workers = {worker}
  MaxFaults = 1
INVARIANTS
  TypeOK
  SubmittedIsMarked
  FundedOnce
PROPERTIES
  GoneIsReclaimed
