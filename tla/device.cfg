SPECIFICATION Spec
CONSTANTS
 MaxWallets = 2
 MaxSessionCrash = 1
 MaxSessions = 2
 MaxFaults = 1
 Cells = {1, 2}
 LiveTag = 2
 MaxEpoch = 2
 MaxDisturbed = 1
 Units = {u1, u2, u3}
 Closers = {k1, k2}
 MaxUploads = 2
 Collectors = {g1, g2}
 MaxImageFaults = 2
 MaxProfiles = 3
 MaxContacts = 2
 Ingests = {i1}
 Taps = {t1}
 MaxBookFaults = 1
 MaxRunFaults = 2
 MaxWireEpoch = 3
 MaxCalls = 3
 EdgeSteps = 5
 MaxBadRelease = 1
 MaxUnlocks = 4
 MaxCallFaults = 2
 MaxTicks = 3
INVARIANTS TypeOK WalletIsWhole SweepsFollowOn AnnouncedOnce UnitsAreExclusive ImagesAreSafe TrustFollowsSpends OneConversation ReconcileIsSound StoredIsWhatWasSent PlatformKeepsItsWord
PROPERTIES StoredWalletSurvives LockedIsTornDown SessionIsSwept WaitingIsTold WaitersAreServed
CHECK_DEADLOCK FALSE
