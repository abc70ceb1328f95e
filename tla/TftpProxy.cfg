SPECIFICATION FairSpec
CONSTANTS
  Blocks = 2
  Handlers <- MCHandlers
  Repeats = 1
  Strangers = 1
INVARIANTS EndIsEarned
PROPERTIES IsTransfer Ends
CHECK_DEADLOCK FALSE
