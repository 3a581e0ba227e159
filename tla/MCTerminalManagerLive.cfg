SPECIFICATION FairSpec
CONSTANTS
  Callers = {c1}
  Owners = {a}
  MaxSessions = 1
  MaxOwnerSessions = 1
  MaxOpens = 1
  MaxUses = 1
  Free = Free
  None = None
PROPERTY
  ShellsEnd
