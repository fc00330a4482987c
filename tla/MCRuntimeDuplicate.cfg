SPECIFICATION Spec
CONSTANTS
  g1 = g1
  m1 = m1
  m2 = m2
  m3 = m3
  h1 = h1
  h2 = h2
  Groups <- OneGroup
  Policy <- SlowModePolicy
  Messages = {m1}
  Handlers = {h1, h2}
  GroupOf <- SentToG1
  SenderOf <- OneSender
  SentAt <- SentAtOnce
  Breaks = {}
  Limit <- LimitOfOne
  Window <- WindowOfTwo
  FailureThreshold = 2
  Cooldown = 1
  MaxTime = 1
  MaxArrivals = 2
  MaxRestarts = 0
CHECK_DEADLOCK FALSE
PROPERTIES DuplicateDeliveryIgnored
