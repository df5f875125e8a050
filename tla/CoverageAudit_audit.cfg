SPECIFICATION FairSpec
CONSTANTS
  u1 = u1
  u2 = u2
  u3 = u3
  Users = {u1, u2, u3}
  Created <- TwoDays
  DayLen = 2
  Cutoff = 2
  Limit = 2
  SampleEvery = 1
  MaxGenerations = 1
  MaxVanished = 2
  MaxFaults = 2
CHECK_DEADLOCK FALSE
INVARIANTS
  TypeOK
  LedgerIsExact
  PartitionsTile
  RepairsAreTracked
  ReconciledMeansAudited
PROPERTIES
  FinalIsFinal
  EveryAuditEnds
