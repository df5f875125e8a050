SPECIFICATION FairSpec
CONSTANTS
  MaxId = 3
  Orgs = {2}
  Existing = 1
  Initially <- TwoOwners
  KeySets = {"zero", "key"}
  NoKeys = "zero"
  PageSize = 1
  LiveLimit = 1
  OwnerLimit = 1
  Ages = 2
  MaxEvents = 2
CHECK_DEADLOCK FALSE
INVARIANTS
  TypeOK
  NoAccountIsMissed
  OwnersAreNotRechecked
PROPERTIES
  IndexConverges
