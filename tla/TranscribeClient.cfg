SPECIFICATION Spec
CONSTANTS
  Folders = {"calls", "other"}
  Files = {a1, a2}
  FilesOf <- TwoFolders
  Slots = {s1, s2, s3}
  MaxOps = 5
  MaxTokens = 2
  None = None
SYMMETRY Interchangeable
CHECK_DEADLOCK FALSE
INVARIANTS FlagsAreOwed ShownIsPromised SelectionIsListed
