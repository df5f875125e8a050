SPECIFICATION Spec
CONSTANTS
  w1 = w1
  w2 = w2
  LaneCount = 2
  AppLanes = {2}
  Pinned = {w1}
  Roaming = {w2}
  LaneOf <- FirstLane
  Base = 1
  Minute = 1
  Window = 1
  MaxWait = 2
  MaxStrikes = 2
  Recovery = 1
  Waits = {1}
  Costs = {2}
  MaxTime = 2
  MaxLimits = 2
  MaxTokens = 2
  MaxRevoked = 2
CHECK_DEADLOCK FALSE
INVARIANTS
  TypeOK
  BudgetHolds
  CorrelatedHitsStopAll
  RetryHasAnotherToken
PROPERTIES
  OnlyEarlierSlotsInCooldown
  WorkersGoOn
