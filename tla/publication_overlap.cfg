SPECIFICATION Spec
CONSTANTS
  MaxTx = 2
  Coins = {k1, k2}
  LateRequests = FALSE
  Texts = {}
  Responses = {resp}
  Screens = {}
  Sweeps = {s1, s2}
  Workers = {worker}
  MaxCrashes = 0
INVARIANTS
  AtMostOneCell
