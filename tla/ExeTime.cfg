SPECIFICATION Spec
CONSTANTS
  KillOnEnd = FALSE
  MaxRestarts = 1
  StepsPerSecond = 2
  Timeout = 1
  TestPeriod = 2
  Printed <- MCPrinted
  MaxLines = 0
  MayInterrupt = FALSE
INVARIANT TimesOutInTime
CHECK_DEADLOCK FALSE
