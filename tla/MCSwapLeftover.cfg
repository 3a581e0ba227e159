SPECIFICATION Spec
CONSTANTS
  Paths <- MCFewPaths
  Targets <- MCFewTargets
  New <- MCFewNew
  Default = "/swapfile"
  Controlled <- MCFewControlled
  Devices <- MCDevices
  UserFiles = {"/srv/swap"}
  Sizes = {1, 2}
  Slots = 3
  None = None
INVARIANT ResizeIsNotSentToResize
