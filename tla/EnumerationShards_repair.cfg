SPECIFICATION Spec
CONSTANTS
  EnumWorkers = {e1, e2, e3}
  Desired = 3
  Cutoff = 8
  Objects <- LongListing
  Users <- LongUsers
  PageSize = 2
  MinPiece = 1
  MaxFaults = 1
  HasLedger = FALSE
  RepairRanges <- TwoRepairs
SYMMETRY Symmetry
CHECK_DEADLOCK FALSE
INVARIANTS TypeOK PrimaryShardsTile  NothingSkipped OneOwnerPerShard
