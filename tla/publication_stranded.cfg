SPECIFICATION Spec
CONSTANTS
  MaxTx = 1
  Coins = {k1, k2}
  LateRequests = FALSE
  Texts = {text}
  Responses = {}
  Screens = {screen}
  Sweeps = {}
  Workers = {worker}
  MaxCrashes = 0
PROPERTIES
  QueuedTextIsTaken
