SPECIFICATION FairSpec
CONSTANTS
  Accounts = {a1}
  Known = {}
  MaxRuns = 1
  KeyWorkers = {w1}
  Repairers = {q1}
  Tokens = {t1, t2}
  NoToken = NoToken
  BatchSize = 1
  FallbackAfter = 2
  HighWater = 2
  LowWater = 1
  MaxEnumerated = 2
  MaxRepairs = 1
  MaxFaults = 2
CHECK_DEADLOCK FALSE
PROPERTIES
  EveryJobSettles
  EveryRunCompletes
