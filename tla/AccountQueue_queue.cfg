SPECIFICATION Spec
CONSTANTS
  Accounts = {a1, a2}
  Known = {}
  MaxRuns = 1
  KeyWorkers = {w1, w2}
  Repairers = {q1}
  Tokens = {t1, t2, t3}
  NoToken = NoToken
  BatchSize = 2
  FallbackAfter = 2
  HighWater = 2
  LowWater = 1
  MaxEnumerated = 2
  MaxRepairs = 1
  MaxFaults = 1
SYMMETRY Symmetry
CHECK_DEADLOCK FALSE
INVARIANTS
  TypeOK
  ExactAccounting
  AttemptsCountedOnce
  ClaimsAreExclusive
PROPERTIES
  OnlyTheClaimantSettles
  FallbackLaneIsKept
