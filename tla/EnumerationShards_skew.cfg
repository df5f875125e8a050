SPECIFICATION FairSpec
CONSTANTS
  EnumWorkers = {e1, e2}
  Desired = 2
  Cutoff = 6
  Objects <- ShortListing
  Users <- ShortUsers
  PageSize = 2
  MinPiece = 1
  MaxFaults = 0
  HasLedger = FALSE
  RepairRanges <- NoRepair
CHECK_DEADLOCK FALSE
PROPERTIES EnumerationEnds
