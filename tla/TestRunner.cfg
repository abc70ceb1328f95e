SPECIFICATION Spec
CONSTANTS
  Names <- MCNames
  MinimumNames = {"c"}
  Values = {"v1", "v2"}
  LogMode = "all"
  Total = 3
  Jobs = 2
  exeName <- MCExeName
  Outputs <- MCOutputs
INVARIANTS JobsBound AllLogged ScoreCard
PROPERTY LogsInOrder
PROPERTY EventuallyOver
CHECK_DEADLOCK FALSE
