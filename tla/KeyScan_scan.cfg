SPECIFICATION FairSpec
CONSTANTS
  Keys = {k1, k2, k3}
  k1 = k1
  k2 = k2
  k3 = k3
  InitialListing <- ThreeListed
  Scans = {s1}
  Workers = {w1, w2}
  NoWorker = NoWorker
  NoScan = NoScan
  PageSize = 1
  RESTPageSize = 2
  RESTAfter = 1
  MaxChanges = 2
  MaxFaults = 1
CHECK_DEADLOCK FALSE
INVARIANTS TypeOK PassCoversItsPrefix
PROPERTIES IndexedSetWasListed ScanEndsInStep
