SPECIFICATION Spec
CONSTANTS
  Versions = {v1, v2, v3}
  Serving = {v1, v2}
  Mute = {v3}
  First = v1
  v1 = v1
  v2 = v2
  v3 = v3
  Junk = Junk
  Damaged = Damaged
  None = None
  Gone = Gone
  Deployments = {"binary"}
  MayReboot = FALSE
  Depth = 2
  MaxChecks = 2
PROPERTY HealthyUpdateStays
CHECK_DEADLOCK FALSE
