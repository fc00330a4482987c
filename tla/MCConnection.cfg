SPECIFICATION FairSpec
CONSTANTS
  Messages = {w1, w2, w3}
  MaxAttempts = 2
  MaxOpens = 3
CHECK_DEADLOCK FALSE
INVARIANTS TypeOK OneConnection ReconnectsBounded
PROPERTIES KeepsReconnecting ImplementsSendQueue
