SPECIFICATION FairSpec
CONSTANTS
  Jobs = {j1, j2}
  MaxFaults = 2
CHECK_DEADLOCK FALSE
INVARIANTS ToldIsStored CompletedIsSaved
PROPERTIES VerdictIsFinal WaitIsOver
