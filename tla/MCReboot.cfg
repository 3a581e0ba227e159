SPECIFICATION Spec
CONSTANTS
  Requests = {r1, r2}
  Free = Free
  Projects = {"web"}
  Ops <- MCOps
  Locks <- MCLockNames
  LockSeq <- MCLockSeq
INVARIANT RebootWaitsForAll
