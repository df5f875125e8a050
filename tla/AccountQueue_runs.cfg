SPECIFICATION Spec
CONSTANTS
  Accounts = {a1}
  Known = {a1}
  MaxRuns = 2
  KeyWorkers = {w1}
  Repairers = {q1}
  Tokens = {t1, t2}
  NoToken = NoToken
  BatchSize = 2
  FallbackAfter = 2
  HighWater = 9
  LowWater = 8
  MaxEnumerated = 2
  MaxRepairs = 0
  MaxFaults = 1
SYMMETRY Symmetry
CHECK_DEADLOCK FALSE
INVARIANTS
  CompletedRunIsSettled
PROPERTIES
  RefinesLedger
