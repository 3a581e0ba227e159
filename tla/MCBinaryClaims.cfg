SPECIFICATION Spec
CONSTANTS
  Versions = {v1, v2, v3}
  Serving = {v1, v2}
  Mute = {v3}
  First = v1
  v1 = v1
  v2 = v2
  v3 = v3
  Junk = Junk
  Damaged = Damaged
  None = None
  Gone = Gone
  Deployments = {"binary"}
  MayReboot = FALSE
  Depth = 1
  MaxChecks = 1
INVARIANTS
  InstallHasPackage
  RollbackRestores
  ReplacedAtomically
  RolledBackIsReported
  RefusedOnlyWhileUpdating
  RunningDiesWithProcess
CHECK_DEADLOCK FALSE
