SPECIFICATION FairSpec
CONSTANTS
  g1 = g1
  m1 = m1
  m2 = m2
  m3 = m3
  h1 = h1
  h2 = h2
  Groups <- OneGroup
  Policy <- LinkPolicy
  Messages = {m1}
  Handlers = {h1, h2}
  GroupOf <- SentToG1
  SenderOf <- OneSender
  SentAt <- SentAtOnce
  Breaks <- LinkInM1
  Limit <- LimitOfOne
  Window <- WindowOfOne
  FailureThreshold = 1
  Cooldown = 1
  MaxTime = 2
  MaxArrivals = 2
  MaxRestarts = 2
CHECK_DEADLOCK FALSE
INVARIANTS TypeOK AtMostOneAttempt LedgerTellsTheTruth
PROPERTIES NothingStartsAfterTeardown DeleteNeedsEveryLock ImplementsProtocol EveryClaimSettles
