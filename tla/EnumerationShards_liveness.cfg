SPECIFICATION FairSpec
CONSTANTS
  EnumWorkers = {e1, e2}
  Desired = 2
  Cutoff = 6
  Objects <- LongListing
  Users <- LongUsers
  PageSize = 2
  MinPiece = 1
  MaxFaults = 1
  HasLedger = TRUE
  RepairRanges <- NoRepair
CHECK_DEADLOCK FALSE
INVARIANTS CompleteMeansDiscovered
PROPERTIES EveryShardCompletes EveryUserDiscovered
