SPECIFICATION ExecutorFairSpec
CONSTANTS
  j1 = j1
  j2 = j2
  Jobs = {j1, j2}
  Commands <- MCCommands
  Lines <- MCLines
  TxCap = 1
  LineCap = 1
  MaxLines = 2
  MaxCycles = 2
  Nothing = Nothing
CHECK_DEADLOCK FALSE
PROPERTIES AnswerSpec CommandsEnd
