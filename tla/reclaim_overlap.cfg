SPECIFICATION ForegroundSpec
CONSTANTS
  MaxTx = 2
  Coins = {m1, m2}
  LateRequests = FALSE
  Batches = {b1, b2}
  Ackers = {acker}
  Workers = {}
  MaxFaults = 0
  MaxSpends = 2
  MaxWalletFaults = 1
  Texting = {t1}
  Chunking = {g1}
  Cap = 3
  LedgerFee = 1
  ProfileCap = 2
  Funds = 6
  MaxLedgerFaults = 2
  Pollers = {p1, p2}
  MaxSpool = 2
  MaxPerPoll = 1
  MaxRelayFaults = 1
  MaxRelayEpoch = 2
  Senders = {m1, m2}
  Consumers = {b1, b2}
  PerContact = 2
  PerGlobal = 4
  MaxClock = 1
  MaxForward = 1
  MaxConsumes = 7
  MaxOverlaps = 1
  Reporters = {r1, r2}
  EndpointCount = 3
  Threshold = 2
  MaxReports = 5
  MaxRestarts = 2
  MaxVeks = 2
  MaxVaultEdits = 2
  VaultEdits = {e1, e2}
  MaxVaultFaults = 1
SYMMETRY Symmetry
INVARIANTS
  ReclaimedIsGone
  ReleasedOnce
  CapacityIsKept
  TransportsHold
  LimitsHold
  VaultFileIsSound
  ForegroundTypeOK
CHECK_DEADLOCK FALSE
