SPECIFICATION FairSpec
CONSTANTS
  web = web
  db = db
  Services <- MCServices
  Latest = 2
  Broken <- MCBroken
  Beside <- MCBeside
  Keep = 1
  MaxLooks = 2
  PsListsExited = FALSE
  None = None
INVARIANTS
  CheckFindsUpdates
PROPERTIES
  SuccessMeansAllRun
  RollbackHoldsForAll
  RequestsAlwaysEnd
