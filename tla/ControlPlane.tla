---------------------------- MODULE ControlPlane ----------------------------
(***************************************************************************)
(* Which locks the handlers of internal/apiserver take: the table behind    *)
(* OpLock's LockSeq, one definition per handler file.  A managed compose    *)
(* stack has a lock of its own, "compose-" followed by the project name,    *)
(* so Projects are strings here.                                            *)
(***************************************************************************)
EXTENDS OpLock

CONSTANT Projects   \* names of the compose stacks the panel manages

LockSwap    == "swap"
LockUpdate  == "update"
LockCompose == "compose"
LockSystem  == "system"
LockDocker  == "docker"
LockReboot  == "reboot"

BaseLocks == {LockSwap, LockUpdate, LockCompose, LockSystem, LockDocker, LockReboot}

ManagedLock(p) == "compose-" \o p
ManagedOp(verb, p) == "compose." \o verb \o " " \o p

HandlerLockNames == BaseLocks \cup {ManagedLock(p) : p \in Projects}

\* The entries of f, and those of g for what f has no entry for.
f ++ g == [o \in DOMAIN f \cup DOMAIN g |-> IF o \in DOMAIN f THEN f[o] ELSE g[o]]

SwapHandlers ==
  [o \in {"swap.create", "swap.resize", "swap.delete"} |-> <<LockSwap>>]

BinaryHandlers ==
  [o \in {"binary.check_update", "binary.download", "binary.install",
          "binary.rollback"} |-> <<LockUpdate>>]

SystemUpdateHandlers ==
  [o \in {"system.update_check", "system.update"} |-> <<LockUpdate>>]

\* Only these two take the system lock; querying a service skips it.
SystemHandlers ==
  [o \in {"system.time_sync", "system.service"} |-> <<LockSystem>>]

\* Mutant: compose.update takes the compose lock only, as compose.rollback does.
ComposeUpdateUnshared == [o \in {"compose.update"} |-> <<LockCompose>>]

ComposeUpdateHandler == [o \in {"compose.update"} |-> <<LockUpdate, LockCompose>>]

ComposeHandlers ==
  [o \in {"compose.check_update", "compose.pull", "compose.rollback"}
     |-> <<LockCompose>>]

DockerHandlers ==
  [o \in {"docker.service", "docker.cleanup"} |-> <<LockDocker>>]

ContainerHandlers == [o \in {"container.remove"} |-> <<LockDocker>>]

ImageHandlers == [o \in {"image.remove"} |-> <<LockDocker>>]

\* Mutant: the reboot handler lists the compose lock before the update lock.
RebootComposeFirst ==
  [o \in {"host.reboot"} |->
     <<LockSwap, LockCompose, LockUpdate, LockSystem, LockDocker, LockReboot>>]

RebootHandler ==
  [o \in {"host.reboot"} |->
     <<LockSwap, LockUpdate, LockCompose, LockSystem, LockDocker, LockReboot>>]

ManagedVerbs == {"up", "pull", "run", "start", "stop", "restart", "down", "build"}

ManagedOps == {ManagedOp(v, p) : v \in ManagedVerbs, p \in Projects}

ManagedHandlers ==
  [o \in ManagedOps |->
     LET p == CHOOSE p \in Projects : \E v \in ManagedVerbs : o = ManagedOp(v, p)
     IN  <<ManagedLock(p)>>]

\* Mutating handlers that take no lock at all.
UnlockedHandlers ==
  [o \in {"host.set_hostname", "system.set_timezone", "sysctl.set", "image.pull",
          "image.prune", "docker.registry_mirrors", "files.action", "host.terminal"}
     |-> <<>>]

HandlerLocks ==
  SwapHandlers ++ BinaryHandlers ++ SystemUpdateHandlers ++ SystemHandlers
    ++ ComposeUpdateHandler ++ ComposeHandlers ++ DockerHandlers ++ ContainerHandlers
    ++ ImageHandlers ++ RebootHandler ++ ManagedHandlers ++ UnlockedHandlers

ASSUME TableAssumption ==
  /\ Ops \subseteq DOMAIN HandlerLocks
  /\ \A o \in Ops : LockSeq[o] = HandlerLocks[o]

UpdateOps == DOMAIN BinaryHandlers \cup DOMAIN SystemUpdateHandlers \cup {"compose.update"}

-----------------------------------------------------------------------------
Running(r, ops) == pc[r] = "running" /\ op[r] \in ops

Together(ops1, ops2) ==
  \E r, q \in Requests : r # q /\ Running(r, ops1) /\ Running(q, ops2)

\* Binary update, compose update and system update exclude one another
\* (the comment on LockUpdate, oplock.go:15, and the comments "section 57" at
\* the handlers), although only one of them takes two locks; and while the
\* reboot command runs, no operation that takes a base lock runs.
DeclaredExclusive ==
  /\ ~Together(UpdateOps, UpdateOps)
  /\ ~Together({"host.reboot"}, {o \in Ops : Range(LockSeq[o]) \cap BaseLocks # {}})

\* handlers_host.go:59: "mutually exclusive with every operation lock (no other
\* operation may run during the restart)".
RebootWaitsForAll == ~Together({"host.reboot"}, {o \in Ops : LockSeq[o] # <<>>})

\* Requests that collide cannot all turn each other away: when every request
\* has been answered and somebody was told "busy", somebody was served.  It
\* rests on the two lists with several names (compose.update and host.reboot)
\* taking their common names in the same order.
SomebodyWins ==
  (\A r \in Requests : pc[r] = "done") /\ (\E r \in Requests : answer[r] = "busy")
    => \E r \in Requests : answer[r] = "handled"

\* The order in which every list names its locks; a lock of a stack is taken alone.
Rank(n) ==
  IF n = LockSwap THEN 1 ELSE IF n = LockUpdate THEN 2 ELSE IF n = LockCompose THEN 3
  ELSE IF n = LockSystem THEN 4 ELSE IF n = LockDocker THEN 5 ELSE IF n = LockReboot THEN 6 ELSE 0

\* What a handler answered fits where it stands.
AnswersFit ==
  \A r \in Requests :
    /\ answer[r] = "busy" => pc[r] \in {"undoing", "done"} /\ hi[r] < Len(Wanted(r))
    /\ answer[r] = "handled" => pc[r] \in {"releasing", "done"}
    /\ pc[r] = "undoing" => answer[r] = "busy"
    /\ pc[r] = "releasing" => answer[r] = "handled"

Served(q) == pc[q] = "running" \/ answer[q] = "handled"

\* Still tries, and has a name of that rank or a higher one.
Ahead(q, rank) == pc[q] = "acquiring" /\ \E n \in Owned(q) : rank <= Rank(n)

\* Behind a request that was turned away stands one that is served, or one that is
\* past the name on which the first one failed.
SomebodyGoesOn ==
  \A r \in Requests : answer[r] = "busy" =>
    \E q \in Requests : Served(q) \/ Ahead(q, Rank(Wanted(r)[hi[r] + 1]))

\* The inductive invariant behind SomebodyWins.
CollisionInv == LockInv /\ AnswersFit /\ SomebodyGoesOn
=============================================================================
