SPECIFICATION FairSpec
CONSTANTS
  KillOnEnd = TRUE
  MaxRestarts = 1
  Printed <- MCPrinted
  MaxLines = 2
  Lates = {"TIMEOUT"}
  MayRaise = TRUE
INVARIANTS LateIsWhole EndIsEarned
PROPERTY EndsOrHangs
CHECK_DEADLOCK FALSE
