SPECIFICATION FairSpec
CONSTANTS
  Accounts = {a1}
  Known = {}
  MaxRuns = 1
  KeyWorkers = {w1}
  Repairers = {q1}
  Tokens = {t1, t2}
  NoToken = NoToken
  BatchSize = 2
  FallbackAfter = 1
  HighWater = 1
  LowWater = 0
  MaxEnumerated = 2
  MaxRepairs = 0
  MaxFaults = 0
CHECK_DEADLOCK FALSE
PROPERTIES
  EnumerationEnds
