SPECIFICATION FairSpec
CONSTANTS
  File <- MCFile
  BlkSize = 2
  DefaultSize = 5
  ResendsLimit = 3
  BlockMod = 4
  MaxRestarts = 1
  Strangers = 1
  MayFail = TRUE
INVARIANTS ServedButLast NothingRaised
PROPERTIES IsTransfer Settles
CHECK_DEADLOCK FALSE
