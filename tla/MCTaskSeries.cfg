SPECIFICATION FairSpec
CONSTANTS
  MaxRows = 3
  Cap = 1
  MaxTries = 1
  MaxCommands = 3
  MaxFaults = 1
  MaxRestarts = 1
CHECK_DEADLOCK FALSE
INVARIANTS TypeOK ClosedSessionsAreSpent BrokenScriptIsPaused
PROPERTIES OnlyCommandsStartOrEndASeries FinishedOccurrencesAreRearmed
