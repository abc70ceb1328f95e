SPECIFICATION FairSpec
CONSTANTS
  KillOnEnd = FALSE
  MaxRestarts = 1
  StepsPerSecond = 2
  Timeout = 1
  TestPeriod = 2
  Printed <- MCPrinted
  MaxLines = 2
  MayInterrupt = TRUE
INVARIANTS WholeOutput KilledDies LateIsEarned
PROPERTY TestEnds
CHECK_DEADLOCK FALSE
