SPECIFICATION ScreensSpec
CONSTANTS
  MaxTx = 2
  Coins = {k1, k2}
  LateRequests = FALSE
  Texts = {text}
  Responses = {resp}
  Screens = {screen}
  Sweeps = {sweep}
  Workers = {worker}
  MaxCrashes = 1
  Inputs = {t1}
  MaxScope = 3
  MaxReloads = 1
  MaxScreenFaults = 1
  MaxVisits = 2
  MaxFetches = 3
  MaxLoadFaults = 2
  Publications = {u1, u2}
  MaxProfiles = 3
  MaxSessions = 2
  MaxOwnFaults = 2
SYMMETRY Symmetry
INVARIANTS
  TypeOK
  NetworkHoldsOnlyLatest
  SentNamesItsCell
  ScreensTellTheTruth
PROPERTIES
  LandsOnce
