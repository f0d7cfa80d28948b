SPECIFICATION Spec
CONSTANTS
  MaxTx = 1
  Coins = {message}
  LateRequests = FALSE
  Batches = {batch}
  Ackers = {acker}
  Workers = {}
  MaxFaults = 0
INVARIANTS
  SomeCallerWins
