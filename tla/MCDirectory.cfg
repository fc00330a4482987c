SPECIFICATION FairSpec
CONSTANTS
  v1 = v1
  v2 = v2
  v3 = v3
  x1 = x1
  x2 = x2
  Versions = {v1, v2, v3}
  Taxonomies = {x1, x2}
  Fits <- FitsBoth
  None = None
  Torn = Torn
  Broken = Broken
  MaxPublishes = 2
  MaxFailures = 2
  MaxRestarts = 2
CHECK_DEADLOCK FALSE
INVARIANTS TypeOK
PROPERTIES LastValidStays ColdStartServes GoodSourceIsLoaded
