SPECIFICATION Spec
CONSTANTS
  g1 = g1
  m1 = m1
  m2 = m2
  m3 = m3
  h1 = h1
  h2 = h2
  Groups <- OneGroup
  Policy <- SlowModePolicy
  Messages = {m1, m2, m3}
  Handlers = {h1, h2}
  GroupOf <- SentToG1
  SenderOf <- OneSender
  SentAt <- SentApart
  Breaks <- LinkInM1
  Limit <- LimitOfOne
  Window <- WindowOfTwo
  FailureThreshold = 1
  Cooldown = 2
  MaxTime = 3
  MaxArrivals = 1
  MaxRestarts = 1
SYMMETRY HandlerSymmetry
CHECK_DEADLOCK FALSE
INVARIANTS SlowModeHolds BudgetHolds
PROPERTIES OpenCircuitBlocks
