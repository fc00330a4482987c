SPECIFICATION Spec
CONSTANTS
  m1 = m1
  m2 = m2
  c1 = c1
  c2 = c2
  None = None
  Messages = {m1, m2}
  Containers = {c1, c2}
  MaxTries = 1
  MaxCrashes = 1
  MaxRestarts = 1
  MaxRefusals = 1
SYMMETRY SessionSymmetry
INVARIANTS TypeOK OneRunner HalvesAgree
PROPERTIES ImplementsInbox
