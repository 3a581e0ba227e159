SPECIFICATION Spec
CONSTANTS
  Paths <- MCFewPaths
  Targets <- MCFewTargets
  New <- MCFewNew
  Default = "/swapfile"
  Controlled <- MCFewControlled
  Devices <- MCDevices
  UserFiles = {"/srv/swap"}
  Sizes = {2}
  Slots = 3
  None = None
INVARIANTS
  TypeOK
  CreatedSwapPersists
  DeleteLeavesNoDanglingEntry
PROPERTY
  SwapStaysOn
