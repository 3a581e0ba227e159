SPECIFICATION Spec
CONSTANTS
  Versions = {v1, v2, v3}
  Serving = {v1, v2}
  Mute = {v3}
  First = v1
  v1 = v1
  v2 = v2
  v3 = v3
  Junk = Junk
  Damaged = Damaged
  None = None
  Gone = Gone
  Deployments = {"binary", "compose"}
  MayReboot = TRUE
  Depth = 2
  MaxChecks = 2
INVARIANTS
  TypeOK
  ServingProgramKept
  FailedInstallKeepsProgram
  NothingDamagedInstalled
