SPECIFICATION FairSpec
CONSTANTS
  s1 = s1
  s2 = s2
  s3 = s3
  None = None
  Messages = {1, 2, 3, 4}
  Sessions = {s1, s2, s3}
  SessionOf <- ThreeQueues
  Unroutable = {}
  Hidden = {1}
  Hanging = {s1, s2}
  Backlog = {1, 3}
  Running = {s3}
  MaxAttempts = 2
  MaxFaults = 1
  MaxRestarts = 1
CHECK_DEADLOCK FALSE
INVARIANTS TypeOK OneFirstDelivery
PROPERTIES ImplementsOutbox DuplicatesNeedALostAnswer RetriesEnd EveryDueMessageSettles
