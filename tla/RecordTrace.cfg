SPECIFICATION TraceSpec
CONSTANTS
  MaxCpu = 2
  TimeMod = 4
  LowMod = 8
  BtMod = 64
  SpanMod = 12
  CountMod = 64
  HoldLimit = 16
  TheVersion = 10
  UserEvents <- MCUserEvents
  InfoEvents <- MCInfoEvents
  StreamItems = {}
  MaxItems = 11
  IdleThreads = {1}
  NamedThreads = {1, 2}
  NameChunks = 2
  BtPerNs = 2
  Scale = 2
  Threads = {1, 2}
  Created = {2}
  Ticks = {0, 3}
  Gaps = {4}
  MaxClock = 8
  MaxOverflows = 1
  MaxTurns = 1
PROPERTIES TrueTimes SwitchesAreTrue PacketsHold
CHECK_DEADLOCK FALSE
