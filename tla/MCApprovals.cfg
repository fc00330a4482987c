SPECIFICATION FairSpec
CONSTANTS
  None = None
  Requests = {r1, r2}
  Handlers = {h1, h2}
  DmOf <- OneApprover
  MaxClicks = 2
  MaxFaults = 1
  MaxRestarts = 2
CHECK_DEADLOCK FALSE
INVARIANTS TypeOK
PROPERTIES ImplementsVerdicts HeldRejectionsEnd RejectionsAreTold
