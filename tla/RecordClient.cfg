SPECIFICATION Spec
CONSTANTS
  MaxCpu = 2
  TimeMod = 4
  LowMod = 4
  BtMod = 32
  SpanMod = 4
  CountMod = 8
  HoldLimit = 4
  TheVersion = 10
  UserEvents = {"USER"}
  InfoEvents = {}
  StreamItems <- MCStreamItems
  MaxItems = 6
INVARIANT HeldWithinCapacity
INVARIANT NothingLost
PROPERTY HandledInOrder
PROPERTY MonotoneTime
CHECK_DEADLOCK FALSE
