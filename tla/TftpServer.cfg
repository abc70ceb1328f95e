SPECIFICATION ServerFairSpec
CONSTANTS
  Sessions = 2
  SessionTimeout = 2
  Handlers = {h1, h2, h3}
  MayStop = TRUE
INVARIANTS ReturnedStopped CountIsServed
PROPERTIES RunReturns
CHECK_DEADLOCK FALSE
