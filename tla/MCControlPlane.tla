--------------------------- MODULE MCControlPlane ---------------------------
(***************************************************************************)
(* ControlPlane with one handler per shape of lock list: no lock, a lock of *)
(* its own, a lock the two longer lists share, and those two lists, so that *)
(* every way two lists can meet occurs among three requests.                *)
(***************************************************************************)
EXTENDS ControlPlane

MCOps ==
  {"binary.install", "compose.update", "compose.rollback", "docker.cleanup",
   "host.reboot", "system.set_timezone", ManagedOp("up", "web")}

MCLockSeq == [o \in MCOps |-> HandlerLocks[o]]

MCLockNames == HandlerLockNames
=============================================================================
