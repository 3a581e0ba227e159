SPECIFICATION Spec
CONSTANTS
  Paths <- MCPaths
  Slots = {t1, t2}
  Device <- MCDevice
  Workers = {w1, w2}
  MaxTrash = 1
  InContainer = TRUE
  MaxStates = 4
  MaxRequests = 3
  MaxLeft = 1
  None = None
SYMMETRY Symmetry
INVARIANTS
  TypeOK
  NothingIsLost
PROPERTIES
  NothingReplacedUnasked
  ArrivesWhole
