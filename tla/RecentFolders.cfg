SPECIFICATION FoldersSpec
CONSTANTS
  Folders = {f1, f2, f3, f4, f5}
  Limit = 3
  MaxUses = 6
  MaxClock = 4
  MaxRestarts = 1
CHECK_DEADLOCK FALSE
INVARIANTS ListIsBounded
PROPERTIES StackUntilRestart
