SPECIFICATION Spec
CONSTANTS
  Callers = {c1, c2}
  Owners = {a, b}
  MaxSessions = 2
  MaxOwnerSessions = 1
  MaxOpens = 2
  MaxUses = 1
  Free = Free
  None = None
SYMMETRY Same
INVARIANTS
  TypeOK
  SessionLimitsKept
  NoShellIsLost
