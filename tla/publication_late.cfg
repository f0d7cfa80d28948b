SPECIFICATION ConversationSpec
CONSTANTS
  MaxTx = 2
  Coins = {k1, k2}
  LateRequests = TRUE
  Texts = {text}
  Responses = {}
  Screens = {screen}
  Sweeps = {}
  Workers = {w1}
  MaxCrashes = 1
  Msgs = {m1}
  Relayed = {m1}
  InboxSweeps = {s1, s2}
  MaxInboxCrash = 1
INVARIANTS
  SentIsOnChain
  JournalTruthful
  ReservedIsOnChain
  GoneWasSafe
  WatchedRowCanEnd
  ReceivedHasManifest
PROPERTIES
  CommitIsSurfaced
  StrandedIsHealed
