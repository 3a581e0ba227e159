SPECIFICATION FairSpec
CONSTANTS
  Requests = {r1, r2, r3}
  Free = Free
  Projects = {"web"}
  Ops <- MCOps
  Locks <- MCLockNames
  LockSeq <- MCLockSeq
INVARIANTS
  LockInv
  MutualExclusion
  DeclaredExclusive
  SomebodyWins
PROPERTIES
  OnlyHolderReleases
  NobodyHangsAlong
  ImplementsExclusion
