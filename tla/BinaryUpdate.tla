---------------------------- MODULE BinaryUpdate ----------------------------
(***************************************************************************)
(* internal/binary: how the agent replaces its own program.  The requests   *)
(* download, install and rollback hold the "update" lock and so run one at  *)
(* a time; what they meet are the restart an earlier install has scheduled, *)
(* the health check that systemd runs 18 s later outside the lock, crashes  *)
(* of the agent and of the host, and what earlier requests left behind: the *)
(* status, the pending package, and the files exe, exe.old, exe.old.old...  *)
(***************************************************************************)
EXTENDS Naturals, FiniteSets

CONSTANTS
  Versions,    \* the released versions
  Serving,     \* those whose program comes up and serves
  Mute,        \* those whose program does not even print its version
  First,       \* the one installed at first
  Junk,        \* a package that cannot be extracted
  Damaged,     \* a program that differs from the one its checksum names
  None,
  Gone,        \* the running program's file has been replaced
  Deployments, \* the ways to deploy it, deployMode: "binary", "compose" or both
  MayReboot,   \* the host may go down
  Depth,       \* bound: exe and Depth times ".old" after it
  MaxChecks    \* bound: health checks that wait at a time

ASSUME VersionsAssumption ==
  /\ Serving \subseteq Versions /\ Mute \subseteq Versions \ Serving
  /\ First \in Serving
  /\ {Junk, Damaged, None} \cap Versions = {} /\ Damaged \notin {Junk, None}
  /\ Deployments \subseteq {"binary", "compose"} /\ MayReboot \in BOOLEAN

ASSUME BoundsAssumption ==
  Depth \in Nat \ {0} /\ MaxChecks \in Nat /\ {None, Gone} \cap 0..Depth+1 = {}

VARIABLES
  exe,      \* the programs on disk: exe[0], exe[1] = exe.old, exe[2] = exe.old.old
  self,     \* where the program that runs is now (/proc/self/exe)
  proc,     \* the version that runs, None while the service is down
  yml,      \* its version in docker-compose.yml, None if compose does not run it
  mem,      \* State.status
  saved,    \* update-state.json
  pending,  \* State.pendingPkg and pendingSum
  req,      \* the request that holds the lock
  restart,  \* a restart is due 1.5 s after an install
  checks,   \* the systemd units of the health checks
  health,   \* health-result
  last      \* the last answer, or that the agent has just come up

status == <<mem, saved>>
files  == <<exe, self, yml>>
units  == <<restart, checks, health>>
vars   == <<files, proc, status, pending, req, units, last>>

Programs == Versions \cup {Damaged}

InContainer == yml # None

\* What "exe -version" prints.
Prints(program) == IF program \in Versions \ Mute THEN program ELSE None

OldOf(k) == IF k \in 0..Depth-1 THEN exe[k+1] ELSE None

\* A download of the package of version v and of its checksum, if that is there:
\* a program that does not fit the checksum is Damaged.
Packages(v) ==
  [content : Versions \cup {Junk}, sum : {"absent"}]
    \cup [content : Versions, sum : {"match"}]
    \cup [content : {Junk, Damaged}, sum : {"mismatch"}]

-----------------------------------------------------------------------------
SetPhase(p, st) ==
  [st EXCEPT !.phase = p, !.running = p \notin {"idle", "success", "failed"}]

Save(st) == mem' = st /\ saved' = st

\* setError
Failed(st) == [st EXCEPT !.phase = "failed", !.running = FALSE]

Interrupted == {"downloading", "verifying", "installing", "restarting", "health_check"}

\* load: an interrupted update does not outlive the process.
Load(st) ==
  IF st.phase \in Interrupted THEN [st EXCEPT !.phase = "idle", !.running = FALSE] ELSE st

Init ==
  /\ exe = [k \in 0..Depth |-> IF k = 0 THEN First ELSE None]
  /\ self = 0 /\ proc = First
  /\ \/ "binary" \in Deployments /\ yml = None
     \/ "compose" \in Deployments /\ yml = First
  /\ mem = [phase |-> "idle", running |-> FALSE, version |-> None]
  /\ saved = mem
  /\ pending = None /\ req = None
  /\ restart = FALSE /\ checks = {} /\ health = "none"
  /\ last = [op |-> "start"]

Serve(r) == req' = r /\ last' = [op |-> "none"]

Answer(op, why) ==
  /\ req' = None
  /\ last' = [op |-> op, why |-> why, backup |-> OldOf(self) # None]

Free == req = None /\ proc # None

\* Mutant: an install that finds a package pending does not look at it again.
VerifyAtDownloadOnly == IF req.op = "install" THEN TRUE ELSE pending.sum # "mismatch"

\* verifySHA256: without a checksum file anything will do, even no package.
Checksum == pending.sum # "mismatch"

-----------------------------------------------------------------------------
\* State.Download up to the transfer, for op "download" or for an install that
\* finds no package.
DownloadFor(op, v) ==
  IF mem.running
  THEN Answer(op, "busy") /\ UNCHANGED status
  ELSE Serve([op |-> op, tag |-> v, stage |-> "fetch"]) /\ Save(SetPhase("downloading", mem))

Download(v) ==
  /\ Free
  /\ DownloadFor("download", v)
  /\ UNCHANGED <<files, proc, pending, units>>

\* handleBinaryInstall: what is pending is installed, whatever version is asked.
Install(v) ==
  /\ Free
  /\ self # Depth /\ Cardinality(checks) < MaxChecks
  /\ IF pending = None
     THEN DownloadFor("install", v)
     ELSE /\ Serve([op |-> "install", stage |-> "verify",
                    tag |-> IF mem.version = None THEN v ELSE mem.version])
          /\ UNCHANGED status
  /\ UNCHANGED <<files, proc, pending, units>>

Rollback ==
  /\ Free
  /\ Serve([op |-> "rollback", stage |-> "rollback", at |-> None])
  /\ UNCHANGED <<files, proc, status, pending, units>>

At(stage) == req # None /\ req.stage = stage

\* The transfer; when it fails the status stays as it is.
Fetch ==
  /\ At("fetch")
  /\ \/ Answer(req.op, "fetch") /\ UNCHANGED <<status, pending>>
     \/ /\ pending' \in Packages(req.tag)
        /\ mem' = [mem EXCEPT !.version = req.tag]
        /\ req' = [req EXCEPT !.stage = "verify"]
        /\ UNCHANGED <<saved, last>>
  /\ UNCHANGED <<files, proc, units>>

\* State.Verify: a package that does not fit is removed, and stays pending.
Verify ==
  /\ At("verify")
  /\ Save(SetPhase("verifying", mem))
  /\ IF ~Checksum
     THEN pending' = [content |-> None, sum |-> "absent"] /\ Answer(req.op, "checksum")
     ELSE /\ UNCHANGED pending
          /\ \/ req.op = "download" /\ Answer("download", "ok")
             \/ /\ req.op = "install"
                /\ req' = [req EXCEPT !.stage = "install"]
                /\ UNCHANGED last
  /\ UNCHANGED <<files, proc, units>>

\* The handler answers a failed install with an attempt to roll back.
GiveUp(at) ==
  /\ req' = [op |-> "install", stage |-> "rollback", at |-> at]
  /\ Save(Failed(mem))

\* extractBinary finds a program in the package.
Extracts(package) == package.content \in Programs

\* installBinary up to the staged program, exe + ".new".
Stage ==
  /\ At("install") /\ ~InContainer
  /\ LET st == [SetPhase("installing", mem) EXCEPT !.version = req.tag] IN
       \/ req' = [op |-> "install", stage |-> "rollback", at |-> None] /\ Save(Failed(st))
       \/ /\ Extracts(pending)
          /\ req' = [op |-> "install", stage |-> "unlink", tag |-> req.tag,
                     at |-> self, new |-> pending.content]
          /\ mem' = st
          /\ saved' = SetPhase("installing", mem)
  /\ UNCHANGED <<files, proc, pending, units, last>>

\* os.Remove(exe + ".old")
Unlink ==
  /\ At("unlink")
  /\ req' = [req EXCEPT !.stage = "backup"]
  /\ exe' = IF req.at = Gone THEN exe ELSE [exe EXCEPT ![req.at + 1] = None]
  /\ UNCHANGED <<self, yml, proc, status, pending, units, last>>

\* Mutant: the new program goes over the old one.
MoveNothing(from, to) == UNCHANGED <<exe, self>>

\* os.Rename: the program that runs may be the one that moves.
Move(from, to) ==
  /\ exe' = [exe EXCEPT ![to] = exe[from], ![from] = None]
  /\ self' = IF self = from THEN to ELSE self

\* os.Rename(exe, exe + ".old")
Backup ==
  /\ At("backup")
  /\ \/ GiveUp(req.at) /\ UNCHANGED <<exe, self>>
     \/ /\ req.at # Gone /\ exe[req.at] # None
        /\ Move(req.at, req.at + 1)
        /\ req' = [req EXCEPT !.stage = "replace"]
        /\ UNCHANGED status
  /\ UNCHANGED <<yml, proc, pending, units, last>>

\* Mutant: the two paths of the rename are swapped.
PutBackSwapped(at) == Move(at, at + 1)

\* os.Rename(exe + ".old", exe)
PutBack(at) == Move(at + 1, at)

\* os.Rename(exe + ".new", exe).  If it fails the old program is put back, and what
\* becomes of that is not looked at.
Replace ==
  /\ At("replace")
  /\ \/ /\ GiveUp(req.at)
        /\ PutBack(req.at) \/ UNCHANGED <<exe, self>>
     \/ /\ exe' = [exe EXCEPT ![req.at] = req.new]
        /\ req' = [req EXCEPT !.stage = "schedule"]
        /\ UNCHANGED <<self, status>>
  /\ UNCHANGED <<yml, proc, pending, units, last>>

\* scheduleHealthCheck, for the path and version of this install; without
\* systemd-run there is none.
Schedule ==
  /\ At("schedule")
  /\ Save(SetPhase("health_check", mem))
  /\ \/ checks' = checks \cup {[at |-> req.at, expect |-> req.tag, stage |-> "due"]}
     \/ UNCHANGED checks
  /\ req' = [req EXCEPT !.stage = "finish"]
  /\ UNCHANGED <<files, proc, pending, restart, health, last>>

\* The restart is left to a goroutine, and the update has succeeded.
Finish ==
  /\ At("finish")
  /\ Save(SetPhase("success", mem))
  /\ restart' = TRUE
  /\ Answer("install", "ok")
  /\ UNCHANGED <<files, proc, pending, checks, health>>

\* A file that is being executed cannot be opened for writing (ETXTBSY).
CanWrite(k) == k # self

\* State.Rollback: exe.old is copied over the program that runs.
RollbackExe ==
  /\ At("rollback")
  /\ Save(SetPhase("rollback", mem))
  /\ IF self # Gone /\ OldOf(self) # None /\ CanWrite(self)
     THEN /\ exe' = [exe EXCEPT ![self] = OldOf(self)]
          /\ restart' = TRUE
          /\ Answer(req.op, IF req.op = "rollback" THEN "ok" ELSE "failed")
     ELSE Answer(req.op, "failed") /\ UNCHANGED <<exe, restart>>
  /\ UNCHANGED <<self, yml, proc, pending, checks, health>>

-----------------------------------------------------------------------------
\* A new process of the program at exe, if it comes up.
StartFrom(program) ==
  /\ proc' = IF program \in Serving THEN program ELSE None
  /\ mem' = Load(saved)
  /\ pending' = None /\ req' = None /\ restart' = FALSE
  /\ last' = [op |-> "start"]
  /\ UNCHANGED saved

\* The helper's script: the new tag goes into the compose file, and the containers
\* are made anew, this one included.
HelperUps ==
  /\ yml' = req.tag
  /\ exe' = [k \in 0..Depth |-> IF k = 0 THEN req.tag ELSE None]
  /\ self' = 0
  /\ proc' = IF req.tag \in Serving THEN req.tag ELSE None

\* runHelperContainer may fail before or after the tag is written.
HelperFails == yml' \in {yml, req.tag} /\ UNCHANGED <<exe, self, proc>>

\* installCompose: nothing is put back when the helper fails.
InstallCompose ==
  /\ At("install") /\ InContainer
  /\ LET st == [SetPhase("installing", mem) EXCEPT !.version = req.tag] IN
       \/ /\ req' = [op |-> "install", stage |-> "rollback", at |-> None]
          /\ Save(Failed(st))
          /\ HelperFails
          /\ UNCHANGED <<pending, restart, last>>
       \/ /\ HelperUps
          /\ saved' = SetPhase("installing", mem)
          /\ mem' = Load(saved')
          /\ pending' = None /\ req' = None /\ restart' = FALSE
          /\ last' = [op |-> "start"]
  /\ UNCHANGED <<checks, health>>

ComesUp == self' = 0 /\ StartFrom(exe[0]) /\ UNCHANGED <<exe, yml>>

\* The goroutine runs systemctl restart, which may fail.
RestartService ==
  /\ restart
  /\ ComesUp
  /\ UNCHANGED <<checks, health>>

RestartFails ==
  /\ restart /\ restart' = FALSE
  /\ UNCHANGED <<files, proc, status, pending, req, checks, health, last>>

\* The agent crashes, and systemd starts it again (Restart=always).
Crash ==
  /\ proc # None
  /\ ComesUp
  /\ UNCHANGED <<checks, health>>

\* A service that does not come up is tried again every 3 s.
Retry ==
  /\ proc = None /\ exe[0] \in Serving
  /\ ComesUp
  /\ UNCHANGED <<checks, health>>

HostReboot ==
  /\ MayReboot
  /\ ComesUp
  /\ checks' = {}
  /\ UNCHANGED health

\* Mutant: the check only reports.
RestoreNothing(k) == UNCHANGED <<exe, self>>

\* cp -f exe.old exe: a file in execution is unlinked and written anew.
Restore(k) ==
  IF OldOf(k) = None
  THEN UNCHANGED <<exe, self>>
  ELSE /\ exe' = [exe EXCEPT ![k] = OldOf(k)]
       /\ self' = IF self = k THEN Gone ELSE self

\* The unit's script: it asks the program for its version, and restores the one
\* before it if that is another.
Check(c) ==
  /\ c \in checks /\ c.stage = "due"
  /\ IF Prints(exe[c.at]) = c.expect
     THEN health' = "healthy" /\ checks' = checks \ {c} /\ UNCHANGED <<exe, self>>
     ELSE /\ health' = "failed"
          /\ checks' = (checks \ {c}) \cup {[c EXCEPT !.stage = "restart"]}
          /\ Restore(c.at)
  /\ UNCHANGED <<yml, proc, status, pending, req, restart, last>>

CheckRestarts(c) ==
  /\ c \in checks /\ c.stage = "restart"
  /\ ComesUp
  /\ checks' = checks \ {c}
  /\ UNCHANGED health

Next ==
  \/ \E v \in Versions : Download(v) \/ Install(v)
  \/ Rollback \/ Fetch \/ Verify \/ Stage \/ Unlink \/ Backup \/ Replace \/ Schedule \/ Finish
  \/ RollbackExe \/ InstallCompose
  \/ RestartService \/ RestartFails \/ Crash \/ Retry \/ HostReboot
  \/ \E c \in checks : Check(c) \/ CheckRestarts(c)

Spec == Init /\ [][Next]_vars

\* systemd runs the units it was given and starts a service that is down.
FairSpec ==
  /\ Spec
  /\ WF_vars(\E c \in checks : Check(c))
  /\ WF_vars(\E c \in checks : CheckRestarts(c))
  /\ WF_vars(Retry)

-----------------------------------------------------------------------------
Phases == Interrupted \cup {"idle", "success", "failed", "rollback"}

Status == [phase : Phases, running : BOOLEAN, version : Versions \cup {None}]

Places == 0..Depth \cup {Gone}

\* A request before it touches the program, while it exchanges it, and when what is
\* left of it is a rollback.
Preparing ==
  [op : {"download", "install"}, tag : Versions, stage : {"fetch", "verify"}]
    \cup [op : {"install"}, tag : Versions, stage : {"install"}]
Exchanging ==
  [op : {"install"}, tag : Versions, at : Places, new : Programs,
   stage : {"unlink", "backup", "replace", "schedule", "finish"}]
RollingBack == [op : {"install", "rollback"}, stage : {"rollback"}, at : Places \cup {None}]

Pending == [content : Programs \cup {Junk, None}, sum : {"match", "mismatch", "absent"}]

\* The types, with what goes with each stage of a request and where the program
\* that runs can be.
TypeOK ==
  /\ exe \in [0..Depth -> Programs \cup {None}] /\ self \in Places
  /\ proc \in Serving \cup {None} /\ yml \in Versions \cup {None}
  /\ mem \in Status /\ saved \in Status
  /\ pending \in Pending \cup {None}
  /\ req \in Preparing \cup Exchanging \cup RollingBack \cup {None}
  /\ restart \in BOOLEAN /\ health \in {"none", "healthy", "failed"}
  /\ checks \subseteq [at : 0..Depth, expect : Versions, stage : {"due", "restart"}]
  /\ proc # None /\ self # Gone => exe[self] = proc

\* No program that differs from the checksum published with it is on disk where the
\* service or a restore may start it, whatever failed, was left pending or was asked
\* again before (binary.go:294-303, handlers_binary.go:84-104: verify, then install).
\* What compose is pointed at is another matter: RefusedIsNotInstalled.
NothingDamagedInstalled == \A k \in 0..Depth : exe[k] # Damaged

\* On the host a program that serves is on disk at every moment, in place or as a
\* backup, whatever was installed over it and wherever the agent or the host goes down
\* (binary.go:328-361: back up, then replace, then check).
ServingProgramKept == ~InContainer => \E k \in 0..Depth : exe[k] \in Serving

\* An install that fails keeps the program that runs: where it was, or, when putting it
\* back has failed as well, one ".old" further, with nothing of the new one in its place,
\* whatever a check of an earlier install did meanwhile (binary.go:345-357).
FailedInstallKeepsProgram ==
  At("rollback") /\ req.op = "install" /\ req.at \in 0..Depth /\ self # Gone =>
    self \in {req.at, req.at + 1} /\ exe[self] = proc /\ exe[req.at] \in {None, proc}

\* A request is served by a program that runs.  Until the exchange that program is
\* where it was found, after it one ".old" further, unless a check put another there.
ExchangeFollowsProgram ==
  req # None =>
    /\ proc # None
    /\ req \in Preparing /\ req.op = "install" => self # Depth
    /\ req \in Exchanging => req.at # Depth
    /\ req.stage \in {"unlink", "backup"} => self \in {req.at, Gone}
    /\ req.stage \in {"replace", "schedule", "finish"} =>
         req.at # Gone /\ self \in {req.at + 1, Gone}
    /\ req.stage = "replace" /\ self # Gone => exe[req.at] \in {None, proc}

\* What is damaged does not fit its checksum.
PackageIsKnown ==
  pending \in Pending /\ (pending.content = Damaged => pending.sum = "mismatch")

\* Nothing damaged gets past the verification.
VerifiedBeforeInstall ==
  /\ NothingDamagedInstalled
  /\ pending # None => PackageIsKnown
  /\ req # None =>
       /\ req.stage \in {"verify", "install"} => PackageIsKnown
       /\ req.stage = "install" => pending.sum # "mismatch"
       /\ req \in Exchanging => req.new # Damaged

\* The oldest program there is serves.
OldestServes(programs) ==
  \E k \in 0..Depth :
    programs[k] \in Serving /\ \A j \in 0..Depth : j > k => programs[j] = None

\* It still does after the file a request is about to remove, and what a request is
\* about to write over is not the oldest.
OldestIsKept ==
  ~InContainer =>
    /\ OldestServes(exe)
    /\ At("unlink") /\ req.at # Gone => OldestServes([exe EXCEPT ![req.at + 1] = None])
    /\ At("backup") /\ req.at # Gone /\ exe[req.at + 1] # None =>
         \E j \in 0..Depth : j > req.at + 1 /\ exe[j] # None
    /\ At("replace") => exe[req.at + 1] # None

\* The inductive invariant behind the safety properties.
UpdateInv ==
  /\ TypeOK /\ ExchangeFollowsProgram /\ FailedInstallKeepsProgram
  /\ VerifiedBeforeInstall /\ OldestIsKept

\* README.md:101, health check, automatic rollback on failure: a program that
\* does not come up and is not what its check expects is replaced by one that
\* does.
BrokenIsRolledBack ==
  proc = None /\ (\E c \in checks : c.stage = "due" /\ c.at = 0 /\ Prints(exe[0]) # c.expect)
    ~> proc # None

-----------------------------------------------------------------------------
\* binary.go:240: a download is refused when one is under way.
RefusedOnlyWhileUpdating ==
  last.op \in {"download", "install"} /\ last.why = "busy" => restart \/ checks # {}

\* handlers_binary.go:84: what was not downloaded is downloaded first: an install
\* has a package when it begins, also after a checksum that failed.
InstallHasPackage == At("install") => pending.content # None

\* binary.go:494: running cannot outlive the process.
RunningDiesWithProcess == last.op = "start" => ~mem.running

\* binary.go:410: a manual rollback restores exe.old.
RollbackRestores == last.op = "rollback" /\ last.backup => last.why = "ok"

\* README.md:101: the program is replaced atomically.
ReplacedAtomically == exe[0] # None

\* README.md:101: the rollback follows a failure: an update that would have
\* passed its own check is not undone by the check of another.
HealthyUpdateStays ==
  [][\A c \in checks : c.stage = "due" /\ Check(c) /\ exe'[0] # exe[0]
       => ~\E d \in checks : d.at = 0 /\ d.stage = "due" /\ Prints(exe[0]) = d.expect]_vars

\* binary.go:436: the result of the health check is shown by the status after the
\* restart.
RolledBackIsReported ==
  health = "failed" /\ checks = {} /\ proc # None => mem.phase # "success"

\* binary.go:289-303: what does not fit its checksum is removed, so that it is not
\* installed.  Compose is pointed at its version all the same when install is asked again.
RefusedIsNotInstalled == [][yml' # yml => pending.content # None]_yml

\* handlers_binary.go:106: a failed install is rolled back.
FailedInstallRestores ==
  last.op = "install" /\ last.why = "failed" /\ InContainer => yml = exe[0]
=============================================================================
