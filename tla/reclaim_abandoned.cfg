SPECIFICATION Spec
CONSTANTS
  MaxTx = 1
  Coins = {message}
  LateRequests = FALSE
  Batches = {b1, b2}
  Ackers = {acker}
  Workers = {}
  MaxFaults = 1
PROPERTIES
  AbandonedIsOff
