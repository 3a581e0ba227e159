SPECIFICATION FairSpec
CONSTANTS
  Requests = {r1, r2}
  Containers = {c1}
  MaxExecConcurrency = 1
  MaxBytes = 1
  MaxPrinted = 2
  None = None
CHECK_DEADLOCK FALSE
INVARIANTS
  ResultIsWhole
PROPERTIES
  CallsAreAnswered
  ImplementsSlots
