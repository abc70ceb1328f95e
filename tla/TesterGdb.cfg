SPECIFICATION FairSpec
CONSTANTS
  KillOnEnd = TRUE
  MaxRestarts = 1
  ScriptLines = 2
  Timeout = 2
  TestPeriod = 2
  Grace = 2
  Streamed <- MCStreamed
  States <- MCStates
  MaxRecords = 4
  MaxPipe = 1
INVARIANTS ScriptInOrder WholeOutput KilledDies
PROPERTY TestEnds
CHECK_DEADLOCK FALSE
