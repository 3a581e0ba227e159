------------------------- MODULE BinaryUpdateProofs -------------------------
(***************************************************************************)
(* For every set of versions, any number of health checks and any depth of  *)
(* exe.old.old...: a program that serves is on disk at every moment, an      *)
(* install that fails keeps the running program on disk and nothing of the   *)
(* new one in its place, and no program differs from its checksum.           *)
(***************************************************************************)
EXTENDS BinaryUpdate, TLAPS

LEMMA BoundFacts ==
  /\ Depth \in Nat /\ Depth >= 1 /\ 0 \in 0..Depth
  /\ None \notin 0..Depth /\ Gone \notin 0..Depth /\ Gone # Depth
  /\ \A k \in 0..Depth : k \in Nat /\ k # None /\ k # Gone /\ k + 1 # Gone /\ k # k + 1
  /\ \A k \in 0..Depth : k # Depth => k + 1 \in 0..Depth
  /\ \A j, k \in 0..Depth : j < k \/ j = k \/ j > k
<1>1. Depth \in Nat \ {0} /\ {None, Gone} \cap 0..Depth+1 = {}
  BY BoundsAssumption
<1>2. /\ Depth \in Nat /\ Depth >= 1 /\ 0 \in 0..Depth
      /\ \A k \in 0..Depth : k \in Nat /\ k \in 0..Depth+1 /\ k + 1 \in 0..Depth+1 /\ k # k + 1
      /\ \A k \in 0..Depth : k # Depth => k + 1 \in 0..Depth
      /\ \A j, k \in 0..Depth : j < k \/ j = k \/ j > k
      /\ Depth \in 0..Depth
  BY <1>1
<1>3. QED
  BY <1>1, <1>2

LEMMA ProgramFacts ==
  /\ Serving \subseteq Versions /\ Versions \subseteq Programs /\ First \in Serving
  /\ None \notin Versions /\ None \notin Programs /\ Damaged \notin Versions /\ Damaged # None
BY VersionsAssumption DEF Programs

-----------------------------------------------------------------------------
(* The parts of the invariant.                                              *)

FilesOK ==
  /\ exe \in [0..Depth -> Programs \cup {None}] /\ self \in Places
  /\ proc \in Serving \cup {None} /\ yml \in Versions \cup {None}
  /\ proc # None /\ self # Gone => exe[self] = proc
  /\ \A k \in 0..Depth : exe[k] # Damaged
  /\ ~InContainer => OldestServes(exe)

PlainOK ==
  /\ mem \in Status /\ saved \in Status
  /\ restart \in BOOLEAN /\ health \in {"none", "healthy", "failed"}
  /\ checks \subseteq [at : 0..Depth, expect : Versions, stage : {"due", "restart"}]

PendingOK ==
  /\ pending \in Pending \cup {None}
  /\ pending # None => PackageIsKnown

VerifiedRequest ==
  req # None =>
    /\ req.stage \in {"verify", "install"} => PackageIsKnown
    /\ req.stage = "install" => pending.sum # "mismatch"
    /\ req \in Exchanging => req.new # Damaged

SafeExchange ==
  ~InContainer =>
    /\ At("unlink") /\ req.at # Gone => OldestServes([exe EXCEPT ![req.at + 1] = None])
    /\ At("backup") /\ req.at # Gone /\ exe[req.at + 1] # None =>
         \E j \in 0..Depth : j > req.at + 1 /\ exe[j] # None
    /\ At("replace") => exe[req.at + 1] # None

RequestOK ==
  /\ req \in Preparing \cup Exchanging \cup RollingBack \cup {None}
  /\ ExchangeFollowsProgram /\ FailedInstallKeepsProgram
  /\ VerifiedRequest /\ SafeExchange

LEMMA InvParts == UpdateInv <=> FilesOK /\ PlainOK /\ PendingOK /\ RequestOK
BY DEF UpdateInv, TypeOK, NothingDamagedInstalled, VerifiedBeforeInstall, OldestIsKept, FilesOK, PlainOK, PendingOK,
       VerifiedRequest, SafeExchange, RequestOK

-----------------------------------------------------------------------------
(* Requests.                                                                *)

\* The stage of a request says what it is.
LEMMA RequestKinds ==
  ASSUME NEW r
  PROVE  /\ r \in Preparing => /\ r.op \in {"download", "install"} /\ r.tag \in Versions
                               /\ r.stage \in {"fetch", "verify", "install"}
                               /\ r.stage = "install" => r.op = "install"
         /\ r \in Exchanging => /\ r.op = "install" /\ r.tag \in Versions /\ r.at \in Places
                                /\ r.new \in Programs
                                /\ r.stage \in {"unlink", "backup", "replace", "schedule", "finish"}
         /\ r \in RollingBack => /\ r.op \in {"install", "rollback"} /\ r.stage = "rollback"
                                 /\ r.at \in Places \cup {None}
BY DEF Preparing, Exchanging, RollingBack

LEMMA StageIsKind ==
  ASSUME RequestOK, req # None
  PROVE  /\ req \in Preparing <=> req.stage \in {"fetch", "verify", "install"}
         /\ req \in Exchanging <=>
              req.stage \in {"unlink", "backup", "replace", "schedule", "finish"}
         /\ req \in RollingBack <=> req.stage = "rollback"
<1>1. req \in Preparing \/ req \in Exchanging \/ req \in RollingBack
  BY DEF RequestOK
<1>2. QED
  BY <1>1, RequestKinds

\* The next stage of a request is the same request.
LEMMA NextStage ==
  /\ \A r \in Preparing, s \in {"verify", "install"} : (s = "install" => r.op = "install") =>
       LET n == [r EXCEPT !.stage = s] IN n \in Preparing /\ n.op = r.op /\ n.tag = r.tag /\ n.stage = s
  /\ \A r \in Exchanging, s \in {"unlink", "backup", "replace", "schedule", "finish"} :
       LET n == [r EXCEPT !.stage = s]
       IN  n \in Exchanging /\ n.at = r.at /\ n.new = r.new /\ n.stage = s
BY DEF Preparing, Exchanging

LEMMA NoRequest ==
  ASSUME req' = None
  PROVE  RequestOK'
BY DEF RequestOK, ExchangeFollowsProgram, FailedInstallKeepsProgram, VerifiedRequest, SafeExchange, At

LEMMA PreparingRequest ==
  ASSUME req' \in Preparing, proc' # None, req'.op = "install" => self' # Depth,
         req'.stage \in {"verify", "install"} => PackageIsKnown',
         req'.stage = "install" => pending'.sum # "mismatch"
  PROVE  RequestOK'
<1>1. /\ req'.stage \in {"fetch", "verify", "install"} /\ req' \notin Exchanging
  BY RequestKinds
<1>2. QED
  BY <1>1 DEF RequestOK, ExchangeFollowsProgram, FailedInstallKeepsProgram, VerifiedRequest,
              SafeExchange, At

LEMMA RollingBackRequest ==
  ASSUME req' \in RollingBack, proc' # None,
         req'.op = "install" /\ req'.at \in 0..Depth /\ self' # Gone =>
           self' \in {req'.at, req'.at + 1} /\ exe'[self'] = proc' /\ exe'[req'.at] \in {None, proc'}
  PROVE  RequestOK'
<1>1. /\ req'.stage = "rollback" /\ req' \notin Exchanging /\ req' \notin Preparing
  BY RequestKinds
<1>2. QED
  BY <1>1 DEF RequestOK, ExchangeFollowsProgram, FailedInstallKeepsProgram, VerifiedRequest,
              SafeExchange, At

LEMMA ExchangingRequest ==
  ASSUME req' \in Exchanging, proc' # None, req'.at # Depth, req'.new # Damaged,
         req'.stage \in {"unlink", "backup"} => self' \in {req'.at, Gone},
         req'.stage \in {"replace", "schedule", "finish"} =>
           req'.at # Gone /\ self' \in {req'.at + 1, Gone},
         req'.stage = "replace" /\ self' # Gone => exe'[req'.at] \in {None, proc'},
         SafeExchange'
  PROVE  RequestOK'
<1>1. /\ req'.stage \in {"unlink", "backup", "replace", "schedule", "finish"}
      /\ req' \notin Preparing
  BY RequestKinds
<1>2. QED
  BY <1>1 DEF RequestOK, ExchangeFollowsProgram, FailedInstallKeepsProgram, VerifiedRequest, At

-----------------------------------------------------------------------------
(* The status, the units and the package.                                   *)

LEMMA StatusFacts ==
  ASSUME NEW st \in Status
  PROVE  /\ \A p \in Phases : SetPhase(p, st) \in Status
         /\ Failed(st) \in Status /\ Load(st) \in Status
         /\ \A v \in Versions : [st EXCEPT !.version = v] \in Status
<1>1. \A p \in Phases : SetPhase(p, st) \in Status
  BY DEF SetPhase, Status
<1>2. \A p \in Phases : [st EXCEPT !.phase = p, !.running = FALSE] \in Status
  BY DEF Status
<1>3. Failed(st) \in Status /\ Load(st) \in Status
  BY <1>2 DEF Failed, Load, Phases
<1>4. \A v \in Versions : [st EXCEPT !.version = v] \in Status
  BY DEF Status
<1>5. QED
  BY <1>1, <1>3, <1>4

LEMMA PhaseFacts ==
  {"downloading", "verifying", "installing", "health_check", "success", "rollback"} \subseteq Phases
BY DEF Phases, Interrupted

LEMMA PlainFrame ==
  ASSUME PlainOK, mem' \in Status, saved' \in Status,
         restart' \in BOOLEAN, checks' = checks, health' = health
  PROVE  PlainOK'
BY DEF PlainOK

LEMMA PlainComesUp ==
  ASSUME PlainOK, ComesUp, checks' \subseteq checks, health' = health
  PROVE  PlainOK'
<1>1. /\ mem' = Load(saved) /\ saved' = saved /\ restart' = FALSE
  BY DEF ComesUp, StartFrom
<1>2. QED
  BY <1>1, StatusFacts DEF PlainOK

\* The status, the checks and the rest of the units keep their types.
LEMMA PlainStep ==
  ASSUME UpdateInv, Next
  PROVE  PlainOK'
<1>0. /\ PlainOK /\ RequestOK /\ PendingOK
      /\ mem \in Status /\ saved \in Status /\ restart \in BOOLEAN
  BY InvParts DEF PlainOK
<1>a. \A p \in Phases : SetPhase(p, mem) \in Status
  BY <1>0, StatusFacts
<1>b. ASSUME NEW p \in Phases, Save(SetPhase(p, mem)) PROVE mem' \in Status /\ saved' \in Status
  BY <1>a, <1>b DEF Save
<1>c. Failed(mem) \in Status
  BY <1>0, StatusFacts
<1>u. restart' = restart => restart' \in BOOLEAN
  BY <1>0
<1>1. ASSUME NEW v \in Versions, Download(v) \/ Install(v) PROVE PlainOK'
  <2>1. /\ restart' = restart /\ checks' = checks /\ health' = health
        /\ Save(SetPhase("downloading", mem)) \/ (mem' = mem /\ saved' = saved)
    BY <1>1 DEF Download, Install, DownloadFor, units, status
  <2>2. QED
    BY <1>0, <1>b, <2>1, PhaseFacts, PlainFrame
<1>2. CASE Rollback \/ RestartFails
  <2>1. restart' \in BOOLEAN /\ checks' = checks /\ health' = health /\ mem' = mem /\ saved' = saved
    BY <1>0, <1>2 DEF Rollback, RestartFails, units, status
  <2>2. QED
    BY <1>0, <2>1, PlainFrame
<1>3. CASE Fetch
  <2>1. /\ restart' = restart /\ checks' = checks /\ health' = health /\ saved' = saved
        /\ mem' = mem \/ mem' = [mem EXCEPT !.version = req.tag]
        /\ req # None /\ req.stage = "fetch"
    BY <1>3 DEF Fetch, At, units, status
  <2>2. req.tag \in Versions
    BY <1>0, <2>1, StageIsKind, RequestKinds
  <2>3. QED
    BY <1>0, <2>1, <2>2, StatusFacts, PlainFrame
<1>4. CASE Verify
  <2>1. /\ restart' = restart /\ checks' = checks /\ health' = health
        /\ Save(SetPhase("verifying", mem))
    BY <1>4 DEF Verify, units
  <2>2. QED
    BY <1>0, <1>b, <2>1, PhaseFacts, PlainFrame
<1>i. ASSUME At("install")
      PROVE  /\ [SetPhase("installing", mem) EXCEPT !.version = req.tag] \in Status
             /\ SetPhase("installing", mem) \in Status
             /\ Failed([SetPhase("installing", mem) EXCEPT !.version = req.tag]) \in Status
  <2>1. req.tag \in Versions
    BY <1>0, <1>i, StageIsKind, RequestKinds DEF At
  <2>2. SetPhase("installing", mem) \in Status
    BY <1>a, PhaseFacts
  <2>3. [SetPhase("installing", mem) EXCEPT !.version = req.tag] \in Status
    BY <2>1, <2>2, StatusFacts
  <2>4. QED
    BY <2>2, <2>3, StatusFacts
<1>5. CASE Stage
  <2>1. /\ restart' = restart /\ checks' = checks /\ health' = health /\ At("install")
        /\ \/ Save(Failed([SetPhase("installing", mem) EXCEPT !.version = req.tag]))
           \/ /\ mem' = [SetPhase("installing", mem) EXCEPT !.version = req.tag]
              /\ saved' = SetPhase("installing", mem)
    BY <1>5 DEF Stage, units
  <2>2. mem' \in Status /\ saved' \in Status
    BY <1>i, <2>1 DEF Save
  <2>3. QED
    BY <1>0, <2>1, <2>2, PlainFrame
<1>6. CASE Unlink \/ Backup \/ Replace
  <2>1. /\ restart' = restart /\ checks' = checks /\ health' = health
        /\ Save(Failed(mem)) \/ (mem' = mem /\ saved' = saved)
    BY <1>6 DEF Unlink, Backup, Replace, GiveUp, units, status
  <2>2. QED
    BY <1>0, <1>c, <2>1, PlainFrame DEF Save
<1>7. CASE Schedule
  <2>1. /\ restart' = restart /\ health' = health /\ Save(SetPhase("health_check", mem))
        /\ req # None /\ req.stage = "schedule"
        /\ \/ checks' = checks \cup {[at |-> req.at, expect |-> req.tag, stage |-> "due"]}
           \/ checks' = checks
    BY <1>7 DEF Schedule, At
  <2>2. req.tag \in Versions /\ req.at \in Places /\ req.at # Gone
    BY <1>0, <2>1, StageIsKind, RequestKinds DEF RequestOK, ExchangeFollowsProgram
  <2>3. [at |-> req.at, expect |-> req.tag, stage |-> "due"]
          \in [at : 0..Depth, expect : Versions, stage : {"due", "restart"}]
    BY <2>2 DEF Places
  <2>4. checks' \subseteq [at : 0..Depth, expect : Versions, stage : {"due", "restart"}]
    BY <1>0, <2>1, <2>3 DEF PlainOK
  <2>5. mem' \in Status /\ saved' \in Status
    BY <1>b, <2>1, PhaseFacts
  <2>6. QED
    BY <1>0, <2>1, <2>4, <2>5 DEF PlainOK
<1>8. CASE Finish
  <2>1. restart' = TRUE /\ checks' = checks /\ health' = health /\ Save(SetPhase("success", mem))
    BY <1>8 DEF Finish
  <2>2. QED
    BY <1>0, <1>b, <2>1, PhaseFacts, PlainFrame
<1>9. CASE RollbackExe
  <2>1. /\ restart' \in {restart, TRUE} /\ checks' = checks /\ health' = health
        /\ Save(SetPhase("rollback", mem))
    BY <1>9 DEF RollbackExe
  <2>2. QED
    BY <1>0, <1>b, <2>1, PhaseFacts, PlainFrame
<1>10. CASE InstallCompose
  <2>1. /\ At("install") /\ checks' = checks /\ health' = health
        /\ \/ /\ Save(Failed([SetPhase("installing", mem) EXCEPT !.version = req.tag]))
              /\ restart' = restart
           \/ /\ saved' = SetPhase("installing", mem)
              /\ mem' = Load(SetPhase("installing", mem)) /\ restart' = FALSE
    BY <1>10 DEF InstallCompose
  <2>2. mem' \in Status /\ saved' \in Status
    BY <1>i, <2>1, StatusFacts DEF Save
  <2>3. QED
    BY <1>0, <2>1, <2>2, PlainFrame
<1>11. CASE RestartService \/ Crash \/ Retry \/ HostReboot
  <2>1. ComesUp /\ checks' \subseteq checks /\ health' = health
    BY <1>11 DEF RestartService, Crash, Retry, HostReboot
  <2>2. QED
    BY <1>0, <2>1, PlainComesUp
<1>12. ASSUME NEW c \in checks, Check(c) PROVE PlainOK'
  <2>1. /\ mem' = mem /\ saved' = saved /\ restart' = restart
        /\ health' \in {"healthy", "failed"}
        /\ checks' \subseteq checks \cup {[c EXCEPT !.stage = "restart"]}
    BY <1>12 DEF Check, status
  <2>2. [c EXCEPT !.stage = "restart"]
          \in [at : 0..Depth, expect : Versions, stage : {"due", "restart"}]
    BY <1>0 DEF PlainOK
  <2>3. QED
    BY <1>0, <2>1, <2>2 DEF PlainOK
<1>13. ASSUME NEW c \in checks, CheckRestarts(c) PROVE PlainOK'
  <2>1. ComesUp /\ checks' \subseteq checks /\ health' = health
    BY <1>13 DEF CheckRestarts
  <2>2. QED
    BY <1>0, <2>1, PlainComesUp
<1>14. QED
  BY <1>1, <1>2, <1>3, <1>4, <1>5, <1>6, <1>7, <1>8, <1>9, <1>10, <1>11, <1>12, <1>13 DEF Next

LEMMA PackageFacts ==
  ASSUME NEW v \in Versions, NEW q \in Packages(v)
  PROVE  q \in Pending /\ (q.content = Damaged => q.sum = "mismatch")
<1>1. Versions \subseteq Programs /\ Damaged \in Programs
  BY ProgramFacts DEF Programs
<1>2. Damaged \notin Versions /\ Damaged # Junk
  BY VersionsAssumption
<1>3. QED
  BY <1>1, <1>2 DEF Packages, Pending

\* What is damaged does not fit its checksum, whatever becomes of the package.
LEMMA PendingStep ==
  ASSUME UpdateInv, Next
  PROVE  PendingOK'
<1>0. PendingOK /\ RequestOK
  BY InvParts
<1>f. pending' = pending => PendingOK'
  BY <1>0 DEF PendingOK, PackageIsKnown
<1>n. pending' = None => PendingOK'
  BY DEF PendingOK
<1>1. ASSUME NEW v \in Versions, Download(v) \/ Install(v) PROVE PendingOK'
  BY <1>1, <1>f DEF Download, Install
<1>2. CASE \/ Rollback \/ Stage \/ Unlink \/ Backup \/ Replace \/ Schedule \/ Finish
           \/ RollbackExe \/ RestartFails
  BY <1>2, <1>f DEF Rollback, Stage, Unlink, Backup, Replace, Schedule, Finish, RollbackExe,
                    RestartFails
<1>3. CASE Fetch
  <2>1. /\ req # None /\ req.stage = "fetch"
        /\ pending' = pending \/ pending' \in Packages(req.tag)
    BY <1>3 DEF Fetch, At
  <2>2. req.tag \in Versions
    BY <1>0, <2>1, StageIsKind, RequestKinds
  <2>3. ASSUME pending' \in Packages(req.tag) PROVE PendingOK'
    BY <2>2, <2>3, PackageFacts DEF PendingOK, PackageIsKnown
  <2>4. QED
    BY <1>f, <2>1, <2>3
<1>4. CASE Verify
  <2>1. pending' = pending \/ pending' = [content |-> None, sum |-> "absent"]
    BY <1>4 DEF Verify
  <2>2. ASSUME pending' = [content |-> None, sum |-> "absent"] PROVE PendingOK'
    BY <2>2, ProgramFacts DEF PendingOK, PackageIsKnown, Pending
  <2>3. QED
    BY <1>f, <2>1, <2>2
<1>5. CASE InstallCompose
  BY <1>5, <1>f, <1>n DEF InstallCompose
<1>6. CASE RestartService \/ Crash \/ Retry \/ HostReboot
  BY <1>6, <1>n DEF RestartService, Crash, Retry, HostReboot, ComesUp, StartFrom
<1>7. ASSUME NEW c \in checks, Check(c) \/ CheckRestarts(c) PROVE PendingOK'
  BY <1>7, <1>f, <1>n DEF Check, CheckRestarts, ComesUp, StartFrom
<1>8. QED
  BY <1>1, <1>2, <1>3, <1>4, <1>5, <1>6, <1>7 DEF Next

-----------------------------------------------------------------------------
(* The programs on disk.                                                    *)

LEMMA FilesFrame ==
  ASSUME FilesOK, exe' = exe, self' = self, proc' = proc, yml' = yml
  PROVE  FilesOK'
BY DEF FilesOK, InContainer, OldestServes

LEMMA MoveFacts ==
  ASSUME FilesOK, NEW from \in 0..Depth, NEW to \in 0..Depth, from # to, Move(from, to)
  PROVE  /\ exe' \in [0..Depth -> Programs \cup {None}]
         /\ exe'[to] = exe[from] /\ exe'[from] = None
         /\ \A k \in 0..Depth : k # from /\ k # to => exe'[k] = exe[k]
         /\ self' = IF self = from THEN to ELSE self
<1>1. exe' = [exe EXCEPT ![to] = exe[from], ![from] = None] /\ exe[from] \in Programs \cup {None}
  BY DEF Move, FilesOK
<1>2. [exe EXCEPT ![to] = exe[from], ![from] = None]
        = [[exe EXCEPT ![to] = exe[from]] EXCEPT ![from] = None]
  OBVIOUS
<1>3. [exe EXCEPT ![to] = exe[from]] \in [0..Depth -> Programs \cup {None}]
  BY <1>1 DEF FilesOK
<1>4. exe' \in [0..Depth -> Programs \cup {None}]
  BY <1>1, <1>2, <1>3
<1>5. exe'[to] = exe[from] /\ exe'[from] = None
  BY <1>1, <1>2, <1>3 DEF FilesOK
<1>6. \A k \in 0..Depth : k # from /\ k # to => exe'[k] = exe[k]
  BY <1>1, <1>2, <1>3 DEF FilesOK
<1>7. QED
  BY <1>4, <1>5, <1>6 DEF Move

\* A program that moves is the running one, or the running one stays where it is.
LEMMA MovedFiles ==
  ASSUME FilesOK, NEW from \in 0..Depth, NEW to \in 0..Depth, from # to, Move(from, to),
         self # to, proc' = proc, yml' = yml, ~InContainer => OldestServes(exe')
  PROVE  FilesOK'
<1>1. /\ exe' \in [0..Depth -> Programs \cup {None}]
      /\ exe'[to] = exe[from] /\ exe'[from] = None
      /\ \A k \in 0..Depth : k # from /\ k # to => exe'[k] = exe[k]
      /\ self' = IF self = from THEN to ELSE self
  BY MoveFacts
<1>2. self' \in Places
  BY <1>1 DEF FilesOK, Places
<1>3. \A k \in 0..Depth : exe'[k] # Damaged
  BY <1>1, ProgramFacts DEF FilesOK
<1>4. proc' # None /\ self' # Gone => exe'[self'] = proc'
  <2>1. CASE self = from
    BY <1>1, <2>1, BoundFacts DEF FilesOK
  <2>2. CASE self # from
    BY <1>1, <2>2 DEF FilesOK, Places
  <2>3. QED
    BY <2>1, <2>2
<1>5. ~InContainer' => OldestServes(exe)'
  BY DEF InContainer, OldestServes
<1>6. QED
  BY <1>1, <1>2, <1>3, <1>4, <1>5 DEF FilesOK

\* Only a program that serves comes up.
LEMMA ComesUpFiles ==
  ASSUME FilesOK, ComesUp
  PROVE  FilesOK'
<1>1. /\ exe' = exe /\ yml' = yml /\ self' = 0
      /\ proc' = IF exe[0] \in Serving THEN exe[0] ELSE None
  BY DEF ComesUp, StartFrom
<1>2. self' \in Places /\ self' # Gone
  BY <1>1, BoundFacts DEF Places
<1>3. QED
  BY <1>1, <1>2 DEF FilesOK, InContainer, OldestServes

\* A program in place of another, with an older one behind it.
LEMMA ReplacedServes ==
  ASSUME FilesOK, OldestServes(exe), NEW k \in 0..Depth, NEW j \in 0..Depth, j > k,
         exe[j] # None, NEW x
  PROVE  OldestServes([exe EXCEPT ![k] = x])
<1>1. PICK i \in 0..Depth : exe[i] \in Serving /\ \A l \in 0..Depth : l > i => exe[l] = None
  BY DEF OldestServes
<1>2. ~(j > i)
  BY <1>1
<1>3. i > k
  BY <1>2, BoundFacts
<1>4. \A l \in 0..Depth : l > i => l # k
  BY <1>3, BoundFacts
<1>5. i # k
  BY <1>3, BoundFacts
<1>6. [exe EXCEPT ![k] = x][i] = exe[i]
  BY <1>5 DEF FilesOK
<1>7. \A l \in 0..Depth : l > i => [exe EXCEPT ![k] = x][l] = None
  BY <1>1, <1>4 DEF FilesOK
<1>8. QED
  BY <1>1, <1>6, <1>7 DEF OldestServes

LEMMA RestoreFacts ==
  ASSUME FilesOK, NEW k \in 0..Depth, Restore(k)
  PROVE  \/ exe' = exe /\ self' = self
         \/ /\ k # Depth /\ k + 1 \in 0..Depth /\ exe[k+1] # None
            /\ exe' = [exe EXCEPT ![k] = exe[k+1]]
            /\ self' = IF self = k THEN Gone ELSE self
<1>1. CASE OldOf(k) = None
  BY <1>1 DEF Restore
<1>2. CASE OldOf(k) # None
  <2>1. k \in 0..Depth-1 /\ OldOf(k) = exe[k+1]
    BY <1>2 DEF OldOf
  <2>2. k # Depth /\ k + 1 \in 0..Depth
    BY <2>1, BoundFacts
  <2>3. QED
    BY <1>2, <2>1, <2>2 DEF Restore
<1>3. QED
  BY <1>1, <1>2

\* The health check puts back the older program, which leaves the oldest alone.
LEMMA RestoredFiles ==
  ASSUME FilesOK, NEW k \in 0..Depth, Restore(k), proc' = proc, yml' = yml
  PROVE  FilesOK'
<1>1. CASE exe' = exe /\ self' = self
  BY <1>1, FilesFrame
<1>2. CASE /\ k # Depth /\ k + 1 \in 0..Depth /\ exe[k+1] # None
           /\ exe' = [exe EXCEPT ![k] = exe[k+1]]
           /\ self' = IF self = k THEN Gone ELSE self
  <2>1. exe' \in [0..Depth -> Programs \cup {None}] /\ \A l \in 0..Depth : exe'[l] # Damaged
    BY <1>2 DEF FilesOK
  <2>2. self' \in Places
    BY <1>2 DEF FilesOK, Places
  <2>3. proc' # None /\ self' # Gone => exe'[self'] = proc'
    BY <1>2 DEF FilesOK, Places
  <2>4. ~InContainer => OldestServes(exe')
    <3>1. k + 1 > k
      BY BoundFacts
    <3>2. ~InContainer => OldestServes([exe EXCEPT ![k] = exe[k+1]])
      BY <1>2, <3>1, ReplacedServes DEF FilesOK
    <3>3. QED
      BY <1>2, <3>2
  <2>5. ~InContainer' => OldestServes(exe)'
    BY <2>4 DEF InContainer, OldestServes
  <2>6. QED
    BY <2>1, <2>2, <2>3, <2>5 DEF FilesOK
<1>3. QED
  BY <1>1, <1>2, RestoreFacts

LEMMA ExchangePlace ==
  ASSUME RequestOK, req # None, req.stage \in {"unlink", "backup", "replace", "schedule", "finish"}
  PROVE  /\ req \in Exchanging /\ req.tag \in Versions /\ req.new \in Programs /\ req.new # Damaged
         /\ proc # None
         /\ req.at # Gone => /\ req.at \in 0..Depth /\ req.at # Depth /\ req.at + 1 \in 0..Depth
                             /\ req.at # req.at + 1 /\ req.at + 1 # Gone /\ req.at + 1 > req.at
         /\ req.stage \in {"unlink", "backup"} => self \in {req.at, Gone}
         /\ req.stage \in {"replace", "schedule", "finish"} =>
              req.at # Gone /\ self \in {req.at + 1, Gone}
<1>1. /\ req \in Exchanging /\ req.tag \in Versions /\ req.new \in Programs /\ req.at \in Places
      /\ req.new # Damaged
  BY StageIsKind, RequestKinds DEF RequestOK, VerifiedRequest
<1>2. proc # None /\ req.at # Depth
  BY <1>1 DEF RequestOK, ExchangeFollowsProgram
<1>3. req.at # Gone => req.at \in 0..Depth
  BY <1>1 DEF Places
<1>4. req.at # Gone => /\ req.at + 1 \in 0..Depth
                       /\ req.at # req.at + 1 /\ req.at + 1 # Gone /\ req.at + 1 > req.at
  BY <1>2, <1>3, BoundFacts
<1>5. /\ req.stage \in {"unlink", "backup"} => self \in {req.at, Gone}
      /\ req.stage \in {"replace", "schedule", "finish"} =>
           req.at # Gone /\ self \in {req.at + 1, Gone}
  BY DEF RequestOK, ExchangeFollowsProgram
<1>6. QED
  BY <1>1, <1>2, <1>3, <1>4, <1>5

LEMMA UnlinkFiles ==
  ASSUME UpdateInv, Unlink
  PROVE  FilesOK'
<1>0. FilesOK /\ RequestOK
  BY InvParts
<1>1. /\ req # None /\ req.stage = "unlink" /\ self' = self /\ yml' = yml /\ proc' = proc
      /\ exe' = IF req.at = Gone THEN exe ELSE [exe EXCEPT ![req.at + 1] = None]
  BY DEF Unlink, At
<1>2. CASE req.at = Gone
  BY <1>0, <1>1, <1>2, FilesFrame
<1>3. CASE req.at # Gone
  <2>1. /\ req.at + 1 \in 0..Depth /\ self \in {req.at, Gone} /\ req.at # req.at + 1
        /\ req.at \in 0..Depth
    BY <1>0, <1>1, <1>3, ExchangePlace
  <2>2. exe' = [exe EXCEPT ![req.at + 1] = None]
    BY <1>1, <1>3
  <2>3. /\ exe' \in [0..Depth -> Programs \cup {None}] /\ \A k \in 0..Depth : exe'[k] # Damaged
        /\ exe'[req.at] = exe[req.at]
    BY <1>0, <2>1, <2>2, ProgramFacts DEF FilesOK
  <2>4. proc' # None /\ self' # Gone => exe'[self'] = proc'
    BY <1>0, <1>1, <2>1, <2>3 DEF FilesOK
  <2>5. ~InContainer' => OldestServes(exe)'
    BY <1>0, <1>1, <1>3, <2>2 DEF RequestOK, SafeExchange, At, InContainer, OldestServes
  <2>6. QED
    BY <1>0, <1>1, <2>3, <2>4, <2>5 DEF FilesOK
<1>4. QED
  BY <1>2, <1>3

\* The backup takes the oldest program with it, if it was that.
LEMMA BackupFiles ==
  ASSUME UpdateInv, Backup
  PROVE  FilesOK'
<1>0. FilesOK /\ RequestOK
  BY InvParts
<1>1. req # None /\ req.stage = "backup" /\ yml' = yml /\ proc' = proc
  BY DEF Backup, At
<1>2. CASE exe' = exe /\ self' = self
  BY <1>0, <1>1, <1>2, FilesFrame
<1>3. CASE req.at # Gone /\ exe[req.at] # None /\ Move(req.at, req.at + 1)
  <2> DEFINE a == req.at
             b == req.at + 1
  <2>1. /\ a \in 0..Depth /\ b \in 0..Depth /\ a # b /\ self \in {a, Gone} /\ b # Gone /\ b > a
    BY <1>0, <1>1, <1>3, ExchangePlace
  <2>2. /\ exe'[b] = exe[a] /\ exe'[a] = None
        /\ \A k \in 0..Depth : k # a /\ k # b => exe'[k] = exe[k]
    BY <1>0, <1>3, <2>1, MoveFacts
  <2>3. ASSUME ~InContainer PROVE OldestServes(exe')
    <3>1. PICK i \in 0..Depth : exe[i] \in Serving /\ \A l \in 0..Depth : l > i => exe[l] = None
      BY <1>0, <2>3 DEF FilesOK, OldestServes
    <3>2. exe[b] # None => \E j \in 0..Depth : j > b /\ exe[j] # None
      BY <1>0, <1>1, <1>3, <2>3 DEF RequestOK, SafeExchange, At
    <3>3. i # b
      BY <3>1, <3>2, ProgramFacts
    <3>4. ~(a > i)
      BY <1>3, <2>1, <3>1
    <3>5. CASE i = a
      <4>1. \A l \in 0..Depth : l > b => l > a /\ l # a /\ l # b
        BY <2>1, BoundFacts
      <4>2. QED
        BY <2>1, <2>2, <3>1, <3>5, <4>1 DEF OldestServes
    <3>6. CASE i # a
      <4>1. i > b
        BY <2>1, <3>3, <3>4, <3>6, BoundFacts
      <4>2. \A l \in 0..Depth : l > i => l # a /\ l # b
        BY <2>1, <4>1, BoundFacts
      <4>3. QED
        BY <2>1, <2>2, <3>1, <3>3, <3>6, <4>2 DEF OldestServes
    <3>7. QED
      BY <3>5, <3>6
  <2>4. self # b
    BY <2>1
  <2>5. QED
    BY <1>0, <1>1, <1>3, <2>1, <2>3, <2>4, MovedFiles
<1>4. QED
  BY <1>2, <1>3 DEF Backup

\* The new program goes where nothing is, or the old one goes back there.
LEMMA ReplaceFiles ==
  ASSUME UpdateInv, Replace
  PROVE  FilesOK'
<1>0. FilesOK /\ RequestOK
  BY InvParts
<1>1. req # None /\ req.stage = "replace" /\ yml' = yml /\ proc' = proc
  BY DEF Replace, At
<1> DEFINE a == req.at
           b == req.at + 1
<1>2. /\ a \in 0..Depth /\ b \in 0..Depth /\ a # b /\ self \in {b, Gone} /\ a # Gone /\ b # Gone
      /\ b > a /\ req.new \in Programs /\ req.new # Damaged
  BY <1>0, <1>1, ExchangePlace
<1>3. self # a
  BY <1>2, BoundFacts
<1>4. ~InContainer => exe[b] # None
  BY <1>0, <1>1 DEF RequestOK, SafeExchange, At
<1>5. CASE Move(b, a)
  <2>1. /\ exe'[a] = exe[b] /\ exe'[b] = None
        /\ \A k \in 0..Depth : k # a /\ k # b => exe'[k] = exe[k]
    BY <1>0, <1>2, <1>5, MoveFacts
  <2>2. ASSUME ~InContainer PROVE OldestServes(exe')
    <3>1. PICK i \in 0..Depth : exe[i] \in Serving /\ \A l \in 0..Depth : l > i => exe[l] = None
      BY <1>0, <2>2 DEF FilesOK, OldestServes
    <3>2. ~(b > i)
      BY <1>2, <1>4, <2>2, <3>1
    <3>3. CASE i = b
      <4>1. \A l \in 0..Depth : l > a => l = b \/ (l > b /\ l # a /\ l # b)
        BY <1>2, BoundFacts
      <4>2. QED
        BY <1>2, <2>1, <3>1, <3>3, <4>1 DEF OldestServes
    <3>4. CASE i # b
      <4>1. i > b
        BY <1>2, <3>2, <3>4, BoundFacts
      <4>2. i # a /\ \A l \in 0..Depth : l > i => l # a /\ l # b
        BY <1>2, <4>1, BoundFacts
      <4>3. QED
        BY <1>2, <2>1, <3>1, <3>4, <4>2 DEF OldestServes
    <3>5. QED
      BY <3>3, <3>4
  <2>3. QED
    BY <1>0, <1>1, <1>2, <1>3, <1>5, <2>2, MovedFiles
<1>6. CASE exe' = [exe EXCEPT ![a] = req.new] /\ self' = self
  <2>1. exe' \in [0..Depth -> Programs \cup {None}] /\ \A k \in 0..Depth : exe'[k] # Damaged
    BY <1>0, <1>2, <1>6 DEF FilesOK
  <2>2. proc' # None /\ self' # Gone => exe'[self'] = proc'
    BY <1>0, <1>1, <1>2, <1>3, <1>6 DEF FilesOK
  <2>3. ~InContainer => OldestServes([exe EXCEPT ![a] = req.new])
    BY <1>0, <1>2, <1>4, ReplacedServes DEF FilesOK
  <2>4. ~InContainer' => OldestServes(exe)'
    BY <1>1, <1>6, <2>3 DEF InContainer, OldestServes
  <2>5. QED
    BY <1>0, <1>1, <1>6, <2>1, <2>2, <2>4 DEF FilesOK
<1>7. CASE exe' = exe /\ self' = self
  BY <1>0, <1>1, <1>7, FilesFrame
<1>8. QED
  BY <1>5, <1>6, <1>7 DEF Replace, PutBack

\* In a container the compose file names the version that comes up.
LEMMA ComposeFiles ==
  ASSUME UpdateInv, InstallCompose
  PROVE  FilesOK'
<1>0. FilesOK /\ RequestOK
  BY InvParts
<1>1. req # None /\ req.stage = "install" /\ yml # None
  BY DEF InstallCompose, At, InContainer
<1>2. req.tag \in Versions
  BY <1>0, <1>1, StageIsKind, RequestKinds
<1>3. CASE HelperFails
  <2>1. /\ exe' = exe /\ self' = self /\ proc' = proc /\ yml' \in {yml, req.tag} /\ yml' # None
    BY <1>1, <1>2, <1>3, ProgramFacts DEF HelperFails
  <2>2. QED
    BY <1>0, <1>2, <2>1 DEF FilesOK, InContainer
<1>4. CASE HelperUps
  <2>1. /\ exe' = [k \in 0..Depth |-> IF k = 0 THEN req.tag ELSE None] /\ self' = 0
        /\ proc' = IF req.tag \in Serving THEN req.tag ELSE None
        /\ yml' = req.tag /\ yml' # None
    BY <1>2, <1>4, ProgramFacts DEF HelperUps
  <2>2. exe' \in [0..Depth -> Programs \cup {None}] /\ \A k \in 0..Depth : exe'[k] # Damaged
    BY <1>2, <2>1, ProgramFacts
  <2>3. self' \in Places /\ exe'[0] = req.tag
    BY <2>1, BoundFacts DEF Places
  <2>4. QED
    BY <1>2, <2>1, <2>2, <2>3 DEF FilesOK, InContainer
<1>5. QED
  BY <1>3, <1>4 DEF InstallCompose

\* Every step keeps what is said of the programs on disk.
LEMMA FilesStep ==
  ASSUME UpdateInv, Next
  PROVE  FilesOK'
<1>0. FilesOK /\ PlainOK
  BY InvParts
<1>1. ASSUME NEW v \in Versions, Download(v) \/ Install(v) PROVE FilesOK'
  BY <1>0, <1>1, FilesFrame DEF Download, Install, files
<1>2. CASE Rollback \/ Fetch \/ Verify \/ Stage \/ Schedule \/ Finish \/ RestartFails
  BY <1>0, <1>2, FilesFrame DEF Rollback, Fetch, Verify, Stage, Schedule, Finish, RestartFails, files
<1>3. CASE RollbackExe
  <2>1. exe' = exe /\ self' = self /\ yml' = yml /\ proc' = proc
    BY <1>3 DEF RollbackExe, CanWrite
  <2>2. QED
    BY <1>0, <2>1, FilesFrame
<1>4. CASE RestartService \/ Crash \/ Retry \/ HostReboot
  BY <1>0, <1>4, ComesUpFiles DEF RestartService, Crash, Retry, HostReboot
<1>5. ASSUME NEW c \in checks, Check(c) PROVE FilesOK'
  <2>1. c.at \in 0..Depth
    BY <1>0 DEF PlainOK
  <2>2. yml' = yml /\ proc' = proc /\ (Restore(c.at) \/ (exe' = exe /\ self' = self))
    BY <1>5 DEF Check
  <2>3. QED
    BY <1>0, <2>1, <2>2, RestoredFiles, FilesFrame
<1>6. ASSUME NEW c \in checks, CheckRestarts(c) PROVE FilesOK'
  BY <1>0, <1>6, ComesUpFiles DEF CheckRestarts
<1>7. QED
  BY <1>1, <1>2, <1>3, <1>4, <1>5, <1>6, UnlinkFiles, BackupFiles, ReplaceFiles, ComposeFiles
  DEF Next

-----------------------------------------------------------------------------
(* The request.                                                             *)

LEMMA BeginRequest ==
  ASSUME UpdateInv, NEW v \in Versions, Download(v) \/ Install(v)
  PROVE  RequestOK'
<1>0. PendingOK /\ PlainOK
  BY InvParts
<1>1. proc # None /\ proc' = proc /\ self' = self /\ pending' = pending
  BY DEF Download, Install, Free, files
<1>2. Install(v) => self # Depth
  BY DEF Install
<1>3. CASE req' = None
  BY <1>3, NoRequest
<1>4. ASSUME NEW op \in {"download", "install"}, op = "install" => self # Depth,
             req' = [op |-> op, tag |-> v, stage |-> "fetch"]
      PROVE  RequestOK'
  <2>1. req' \in Preparing /\ req'.op = op /\ req'.stage = "fetch"
    BY <1>4 DEF Preparing
  <2>2. QED
    BY <1>1, <1>4, <2>1, PreparingRequest
<1>5. ASSUME self # Depth, pending # None,
             req' = [op |-> "install", stage |-> "verify",
                     tag |-> IF mem.version = None THEN v ELSE mem.version]
      PROVE  RequestOK'
  <2>1. mem.version \in Versions \cup {None}
    BY <1>0 DEF PlainOK, Status
  <2>2. req' \in Preparing /\ req'.op = "install" /\ req'.stage = "verify"
    BY <1>5, <2>1 DEF Preparing
  <2>3. PackageIsKnown'
    BY <1>0, <1>1, <1>5 DEF PendingOK, PackageIsKnown
  <2>4. QED
    BY <1>1, <1>5, <2>2, <2>3, PreparingRequest
<1>6. CASE Download(v)
  <2>1. req' = None \/ req' = [op |-> "download", tag |-> v, stage |-> "fetch"]
    BY <1>6 DEF Download, DownloadFor, Answer, Serve
  <2>2. QED
    BY <1>3, <1>4, <2>1
<1>7. CASE Install(v)
  <2>1. \/ req' = None
        \/ req' = [op |-> "install", tag |-> v, stage |-> "fetch"]
        \/ pending # None /\ req' = [op |-> "install", stage |-> "verify",
                                     tag |-> IF mem.version = None THEN v ELSE mem.version]
    BY <1>7 DEF Install, DownloadFor, Answer, Serve
  <2>2. QED
    BY <1>2, <1>3, <1>4, <1>5, <1>7, <2>1
<1>8. QED
  BY <1>6, <1>7

LEMMA PrepareRequest ==
  ASSUME UpdateInv, Fetch \/ Verify
  PROVE  RequestOK'
<1>0. RequestOK
  BY InvParts
<1>1. req # None /\ req.stage \in {"fetch", "verify"} /\ proc' = proc /\ self' = self
  BY DEF Fetch, Verify, At, files
<1>2. req \in Preparing /\ req.tag \in Versions /\ proc # None /\ (req.op = "install" => self # Depth)
  BY <1>0, <1>1, StageIsKind, RequestKinds DEF RequestOK, ExchangeFollowsProgram
<1>3. CASE req' = None
  BY <1>3, NoRequest
<1>4. CASE Fetch /\ pending' \in Packages(req.tag) /\ req' = [req EXCEPT !.stage = "verify"]
  <2>1. req' \in Preparing /\ req'.op = req.op /\ req'.stage = "verify"
    BY <1>2, <1>4, NextStage
  <2>2. PackageIsKnown'
    BY <1>2, <1>4, PackageFacts DEF PackageIsKnown
  <2>3. QED
    BY <1>1, <1>2, <2>1, <2>2, PreparingRequest
<1>5. CASE /\ Verify /\ Checksum /\ pending' = pending
           /\ req.op = "install" /\ req' = [req EXCEPT !.stage = "install"]
  <2>1. req' \in Preparing /\ req'.op = req.op /\ req'.stage = "install"
    BY <1>2, <1>5, NextStage
  <2>2. req.stage = "verify"
    BY <1>5 DEF Verify, At
  <2>3. PackageIsKnown' /\ pending'.sum # "mismatch"
    BY <1>0, <1>1, <1>5, <2>2 DEF RequestOK, VerifiedRequest, PackageIsKnown, Checksum
  <2>4. QED
    BY <1>1, <1>2, <2>1, <2>3, PreparingRequest
<1>6. QED
  BY <1>3, <1>4, <1>5 DEF Fetch, Verify, Answer

LEMMA StageRequest ==
  ASSUME UpdateInv, Stage
  PROVE  RequestOK'
<1>0. RequestOK /\ FilesOK /\ PendingOK
  BY InvParts
<1>1. /\ req # None /\ req.stage = "install" /\ proc' = proc /\ self' = self /\ exe' = exe
      /\ yml' = yml /\ ~InContainer
  BY DEF Stage, At, files
<1>2. /\ req \in Preparing /\ req.op \in {"download", "install"} /\ req.tag \in Versions
      /\ proc # None /\ (req.op = "install" => self # Depth)
  BY <1>0, <1>1, StageIsKind, RequestKinds DEF RequestOK, ExchangeFollowsProgram
<1>3. CASE req' = [op |-> "install", stage |-> "rollback", at |-> None]
  <2>1. req' \in RollingBack /\ req'.at = None
    BY <1>3 DEF RollingBack
  <2>2. QED
    BY <1>1, <1>2, <2>1, RollingBackRequest, BoundFacts
<1>4. CASE /\ Extracts(pending)
           /\ req' = [op |-> "install", stage |-> "unlink", tag |-> req.tag,
                      at |-> self, new |-> pending.content]
  <2>1. pending.content \in Programs /\ pending.content # Damaged
    BY <1>0, <1>1, <1>4 DEF RequestOK, VerifiedRequest, PackageIsKnown, Extracts
  <2>2. /\ req' \in Exchanging /\ req'.at = self /\ req'.stage = "unlink"
        /\ req'.new = pending.content
    BY <1>0, <1>2, <1>4, <2>1 DEF Exchanging, FilesOK
  <2>3. self # Depth
    BY <1>1, <1>2, RequestKinds
  <2>4. ASSUME self # Gone PROVE OldestServes([exe EXCEPT ![self + 1] = None])
    <3>1. /\ self \in 0..Depth /\ self + 1 \in 0..Depth /\ self # self + 1 /\ exe[self] \in Serving
      BY <1>0, <1>2, <2>3, <2>4, BoundFacts DEF FilesOK, Places
    <3>2. PICK i \in 0..Depth : exe[i] \in Serving /\ \A l \in 0..Depth : l > i => exe[l] = None
      BY <1>0, <1>1 DEF FilesOK, OldestServes
    <3>3. \A l \in 0..Depth : l # self + 1 => [exe EXCEPT ![self + 1] = None][l] = exe[l]
      BY <1>0 DEF FilesOK
    <3>4. [exe EXCEPT ![self + 1] = None][self + 1] = None
      BY <1>0, <3>1 DEF FilesOK
    <3>5. ~(self > i)
      BY <1>2, <3>1, <3>2, ProgramFacts
    <3>6. CASE i = self + 1
      <4>1. \A l \in 0..Depth : l > self => l = self + 1 \/ l > i
        BY <3>1, <3>6, BoundFacts
      <4>2. QED
        BY <3>1, <3>2, <3>3, <3>4, <4>1 DEF OldestServes
    <3>7. CASE i # self + 1
      <4>1. \A l \in 0..Depth : l > i => [exe EXCEPT ![self + 1] = None][l] = None
        BY <3>2, <3>3, <3>4
      <4>2. QED
        BY <3>2, <3>3, <3>7, <4>1 DEF OldestServes
    <3>8. QED
      BY <3>6, <3>7
  <2>5. SafeExchange'
    BY <1>1, <2>2, <2>4 DEF SafeExchange, At, OldestServes
  <2>6. QED
    BY <1>1, <1>2, <2>1, <2>2, <2>3, <2>5, ExchangingRequest
<1>5. QED
  BY <1>3, <1>4 DEF Stage

LEMMA ExchangeRequest ==
  ASSUME UpdateInv, Unlink \/ Backup \/ Replace \/ Schedule
  PROVE  RequestOK'
<1>0. RequestOK /\ FilesOK
  BY InvParts
<1>1. /\ req # None /\ req.stage \in {"unlink", "backup", "replace", "schedule"}
      /\ proc' = proc /\ yml' = yml
  BY DEF Unlink, Backup, Replace, Schedule, At, files
<1>2. /\ req \in Exchanging /\ req.new # Damaged /\ proc # None /\ req.at \in Places
      /\ req.at # Depth
      /\ req.at # Gone => /\ req.at \in 0..Depth /\ req.at # Depth /\ req.at + 1 \in 0..Depth
                          /\ req.at # req.at + 1 /\ req.at + 1 # Gone
      /\ req.stage \in {"unlink", "backup"} => self \in {req.at, Gone}
      /\ req.stage \in {"replace", "schedule"} => req.at # Gone /\ self \in {req.at + 1, Gone}
  BY <1>0, <1>1, ExchangePlace, RequestKinds, BoundFacts
<1>r. /\ self # Gone => exe[self] = proc
      /\ req.stage = "replace" /\ self # Gone => exe[req.at] \in {None, proc}
  BY <1>0, <1>1, <1>2 DEF FilesOK, RequestOK, ExchangeFollowsProgram
<1>3. ASSUME NEW s \in {"backup", "replace", "schedule", "finish"}, req' = [req EXCEPT !.stage = s],
             s = "backup" => self' \in {req.at, Gone},
             s # "backup" => req.at # Gone /\ self' \in {req.at + 1, Gone},
             s = "backup" /\ req.at # Gone => exe'[req.at + 1] = None,
             s = "replace" => exe'[req.at + 1] # None,
             s = "replace" /\ self' # Gone => exe'[req.at] \in {None, proc'}
      PROVE  RequestOK'
  <2>1. req' \in Exchanging /\ req'.at = req.at /\ req'.new = req.new /\ req'.stage = s
    BY <1>2, <1>3 DEF Exchanging
  <2>2. SafeExchange'
    BY <1>3, <2>1 DEF SafeExchange, At
  <2>3. QED
    BY <1>1, <1>2, <1>3, <2>1, <2>2, ExchangingRequest
<1>4. ASSUME req' = [op |-> "install", stage |-> "rollback", at |-> req.at],
             req.at \in 0..Depth /\ self' # Gone =>
               self' \in {req.at, req.at + 1} /\ exe'[self'] = proc' /\ exe'[req.at] \in {None, proc'}
      PROVE  RequestOK'
  <2>1. req' \in RollingBack /\ req'.at = req.at
    BY <1>2, <1>4 DEF RollingBack
  <2>2. QED
    BY <1>1, <1>2, <1>4, <2>1, RollingBackRequest
<1>5. CASE Unlink
  <2>1. /\ req.stage = "unlink" /\ req' = [req EXCEPT !.stage = "backup"] /\ self' = self
        /\ req.at # Gone => exe' = [exe EXCEPT ![req.at + 1] = None]
    BY <1>5 DEF Unlink, At
  <2>2. req.at # Gone => exe'[req.at + 1] = None
    BY <1>0, <1>2, <2>1 DEF FilesOK
  <2>3. QED
    BY <1>2, <1>3, <2>1, <2>2
<1>6. CASE Backup
  <2>0. req.stage = "backup"
    BY <1>6 DEF Backup, At
  <2>1. CASE GiveUp(req.at) /\ exe' = exe /\ self' = self
    BY <1>1, <1>2, <1>r, <1>4, <2>0, <2>1 DEF GiveUp
  <2>2. CASE /\ req.at # Gone /\ exe[req.at] # None /\ Move(req.at, req.at + 1)
             /\ req' = [req EXCEPT !.stage = "replace"]
    <3>1. exe'[req.at + 1] = exe[req.at] /\ self' = IF self = req.at THEN req.at + 1 ELSE self
      BY <1>0, <1>2, <2>2, MoveFacts
    <3>2. self' \in {req.at + 1, Gone} /\ exe'[req.at] = None
      BY <1>0, <1>2, <2>0, <2>2, <3>1, MoveFacts
    <3>3. QED
      BY <1>3, <2>2, <3>1, <3>2
  <2>3. QED
    BY <1>6, <2>1, <2>2 DEF Backup
<1>7. CASE Replace
  <2>0. req.stage = "replace"
    BY <1>7 DEF Replace, At
  <2>1. CASE GiveUp(req.at) /\ Move(req.at + 1, req.at)
    <3>1. self' = IF self = req.at + 1 THEN req.at ELSE self
      BY <1>0, <1>2, <2>0, <2>1, MoveFacts
    <3>2. self' \in {req.at, Gone} /\ exe'[req.at] = exe[req.at + 1]
      BY <1>0, <1>2, <2>0, <2>1, <3>1, MoveFacts
    <3>3. ASSUME self' # Gone PROVE self' = req.at /\ exe'[self'] = proc' /\ exe'[req.at] = proc'
      <4>1. self = req.at + 1 /\ self # Gone
        BY <1>2, <2>0, <3>1, <3>3
      <4>2. QED
        BY <1>1, <1>r, <3>1, <3>2, <4>1
    <3>4. QED
      BY <1>4, <2>1, <3>3 DEF GiveUp
  <2>2. CASE req' = [req EXCEPT !.stage = "schedule"] /\ self' = self
    BY <1>2, <1>3, <2>0, <2>2
  <2>3. CASE GiveUp(req.at) /\ exe' = exe /\ self' = self
    BY <1>1, <1>2, <1>r, <1>4, <2>0, <2>3 DEF GiveUp
  <2>4. QED
    BY <1>7, <2>1, <2>2, <2>3 DEF Replace, PutBack
<1>8. CASE Schedule
  <2>1. req.stage = "schedule" /\ req' = [req EXCEPT !.stage = "finish"] /\ self' = self
    BY <1>8 DEF Schedule, At, files
  <2>2. QED
    BY <1>2, <1>3, <2>1
<1>9. QED
  BY <1>5, <1>6, <1>7, <1>8

\* A health check may put another program in place of the one an install works on,
\* and it leaves everything safe that was.
LEMMA CheckRequest ==
  ASSUME UpdateInv, NEW c \in checks, Check(c)
  PROVE  RequestOK'
<1>0. RequestOK /\ FilesOK /\ PlainOK
  BY InvParts
<1>1. /\ req' = req /\ proc' = proc /\ yml' = yml /\ pending' = pending
      /\ Restore(c.at) \/ (exe' = exe /\ self' = self)
  BY DEF Check
<1>2. CASE exe' = exe /\ self' = self
  BY <1>0, <1>1, <1>2 DEF RequestOK, ExchangeFollowsProgram, FailedInstallKeepsProgram, VerifiedRequest,
                          SafeExchange, PackageIsKnown, InContainer, At, OldestServes
<1> DEFINE k == c.at
<1>3. k \in 0..Depth
  BY <1>0 DEF PlainOK
<1>4. CASE /\ k # Depth /\ k + 1 \in 0..Depth /\ exe[k+1] # None
           /\ exe' = [exe EXCEPT ![k] = exe[k+1]]
           /\ self' = IF self = k THEN Gone ELSE self
  <2>0. self' \in {self, Gone} /\ k + 1 > k /\ k # k + 1
    BY <1>3, <1>4, BoundFacts
  <2>1. /\ exe'[k] = exe[k+1] /\ \A l \in 0..Depth : l # k => exe'[l] = exe[l]
        /\ \A l \in 0..Depth : exe[l] # None => exe'[l] # None
    BY <1>0, <1>3, <1>4 DEF FilesOK
  <2>r. ASSUME NEW a \in 0..Depth, proc # None, self' # Gone, self \in {a, a + 1},
               exe[a] \in {None, proc}
        PROVE  self' = self /\ exe'[self'] = proc /\ exe'[a] \in {None, proc}
    <3>1. self # Gone /\ self # k /\ self' = self /\ self \in 0..Depth
      BY <1>0, <1>4, <2>r DEF FilesOK, Places
    <3>2. exe[self] = proc /\ exe'[self] = exe[self]
      BY <1>0, <2>1, <2>r, <3>1 DEF FilesOK
    <3>3. a = k => exe'[a] = exe[self]
      BY <2>1, <2>r, <3>1
    <3>4. QED
      BY <2>1, <2>r, <3>1, <3>2, <3>3
  <2>2. CASE req = None
    BY <1>1, <2>2, NoRequest
  <2>3. CASE req # None /\ req \in Preparing
    <3>1. /\ proc # None /\ (req.op = "install" => self # Depth)
          /\ req.stage \in {"verify", "install"} => PackageIsKnown
          /\ req.stage = "install" => pending.sum # "mismatch"
      BY <1>0, <2>3 DEF RequestOK, ExchangeFollowsProgram, VerifiedRequest
    <3>2. PackageIsKnown => PackageIsKnown'
      BY <1>1 DEF PackageIsKnown
    <3>3. QED
      BY <1>1, <2>0, <2>3, <3>1, <3>2, PreparingRequest, BoundFacts
  <2>4. CASE req # None /\ req \in RollingBack
    <3>1. req.stage = "rollback" /\ proc # None
      BY <1>0, <2>4, RequestKinds DEF RequestOK, ExchangeFollowsProgram
    <3>2. req.op = "install" /\ req.at \in 0..Depth /\ self # Gone =>
            self \in {req.at, req.at + 1} /\ exe[self] = proc /\ exe[req.at] \in {None, proc}
      BY <1>0, <2>4, <3>1 DEF RequestOK, FailedInstallKeepsProgram, At
    <3>3. ASSUME req.op = "install", req.at \in 0..Depth, self' # Gone
          PROVE  /\ self' \in {req.at, req.at + 1} /\ exe'[self'] = proc'
                 /\ exe'[req.at] \in {None, proc'}
      <4>1. self # Gone
        BY <2>0, <3>3
      <4>2. self \in {req.at, req.at + 1} /\ exe[req.at] \in {None, proc}
        BY <3>2, <3>3, <4>1
      <4>3. self' = self /\ exe'[self'] = proc /\ exe'[req.at] \in {None, proc}
        BY <2>r, <3>1, <3>3, <4>2
      <4>4. QED
        BY <1>1, <4>2, <4>3
    <3>4. QED
      BY <1>1, <2>4, <3>1, <3>3, RollingBackRequest
  <2>5. CASE req # None /\ req \in Exchanging
    <3>0. req.stage \in {"unlink", "backup", "replace", "schedule", "finish"}
      BY <2>5, RequestKinds
    <3>1. /\ req.new # Damaged /\ proc # None /\ req.at # Depth
          /\ req.at # Gone => /\ req.at \in 0..Depth /\ req.at # Depth /\ req.at + 1 \in 0..Depth
                              /\ req.at # req.at + 1 /\ req.at + 1 # Gone /\ req.at + 1 > req.at
          /\ req.stage \in {"unlink", "backup"} => self \in {req.at, Gone}
          /\ req.stage \in {"replace", "schedule", "finish"} =>
               req.at # Gone /\ self \in {req.at + 1, Gone}
      BY <1>0, <2>5, <3>0, ExchangePlace DEF RequestOK, ExchangeFollowsProgram
    <3> DEFINE a == req.at
               b == req.at + 1
    <3>2. ASSUME ~InContainer, req.stage = "unlink", a # Gone
          PROVE  OldestServes([exe' EXCEPT ![b] = None])
      <4>0. a \in 0..Depth /\ b \in 0..Depth /\ a # b /\ b > a
        BY <3>1, <3>2
      <4>1. PICK i \in 0..Depth :
              /\ [exe EXCEPT ![b] = None][i] \in Serving
              /\ \A l \in 0..Depth : l > i => [exe EXCEPT ![b] = None][l] = None
        BY <1>0, <2>5, <3>2 DEF RequestOK, SafeExchange, At, OldestServes
      <4>2. i # b /\ exe[i] \in Serving /\ \A l \in 0..Depth : l > i /\ l # b => exe[l] = None
        BY <1>0, <4>0, <4>1, ProgramFacts DEF FilesOK
      <4>3. /\ [exe' EXCEPT ![b] = None][b] = None
            /\ \A l \in 0..Depth : l # b => [exe' EXCEPT ![b] = None][l] = exe'[l]
        BY <1>0, <1>3, <1>4, <4>0 DEF FilesOK
      <4>4. CASE k = a /\ ~(i > a)
        <5>1. \A l \in 0..Depth : l > a => l = b \/ (l > i /\ l # b)
          BY <4>0, <4>4, BoundFacts
        <5>2. PICK o \in 0..Depth : exe[o] \in Serving /\ \A l \in 0..Depth : l > o => exe[l] = None
          BY <1>0, <3>2 DEF FilesOK, OldestServes
        <5>3. o = b
          <6>1. ~(b > o)
            BY <1>4, <4>0, <4>4, <5>2
          <6>2. ~(o > b)
            <7>1. o > b => o > a /\ o # b
              BY <4>0, <5>2, BoundFacts
            <7>2. QED
              BY <4>2, <5>1, <5>2, <7>1, ProgramFacts
          <6>3. QED
            BY <4>0, <6>1, <6>2, BoundFacts
        <5>4. exe'[a] \in Serving
          BY <2>1, <4>4, <5>2, <5>3
        <5>5. \A l \in 0..Depth : l > a => l # a
          BY <4>0, BoundFacts
        <5>6. \A l \in 0..Depth : l > a => [exe' EXCEPT ![b] = None][l] = None
          BY <2>1, <4>2, <4>3, <4>4, <5>1, <5>5
        <5>7. QED
          BY <4>0, <4>3, <5>4, <5>6 DEF OldestServes
      <4>5. CASE k = b \/ i > k
        <5>1. i # k
          BY <1>3, <4>2, <4>5, BoundFacts
        <5>2. \A l \in 0..Depth : l > i => l = b \/ l # k
          BY <1>3, <4>5, BoundFacts
        <5>3. \A l \in 0..Depth : l > i => [exe' EXCEPT ![b] = None][l] = None
          BY <2>1, <4>2, <4>3, <5>2
        <5>4. [exe' EXCEPT ![b] = None][i] \in Serving
          BY <2>1, <4>2, <4>3, <5>1
        <5>5. QED
          BY <5>3, <5>4 DEF OldestServes
      <4>6. ASSUME k # a, k # b PROVE i > k
        <5>1. k + 1 # b
          BY <1>3, <4>0, <4>6
        <5>2. ~(k + 1 > i)
          BY <1>4, <4>2, <5>1
        <5>3. QED
          BY <1>3, <5>2, BoundFacts
      <4>7. QED
        BY <4>4, <4>5, <4>6
    <3>3. ASSUME ~InContainer, req.stage = "backup", a # Gone, exe'[b] # None
          PROVE  \E j \in 0..Depth : j > b /\ exe'[j] # None
      <4>0. b \in 0..Depth
        BY <3>1, <3>3
      <4>1. CASE k = b
        BY <1>4, <2>0, <2>1, <4>1
      <4>2. CASE k # b
        <5>1. exe[b] # None
          BY <2>1, <3>3, <4>0, <4>2
        <5>2. \E j \in 0..Depth : j > b /\ exe[j] # None
          BY <1>0, <2>5, <3>3, <5>1 DEF RequestOK, SafeExchange, At
        <5>3. QED
          BY <2>1, <5>2
      <4>3. QED
        BY <4>1, <4>2
    <3>4. ASSUME ~InContainer, req.stage = "replace" PROVE exe'[b] # None
      <4>1. exe[b] # None /\ b \in 0..Depth
        BY <1>0, <2>5, <3>1, <3>4 DEF RequestOK, SafeExchange, At
      <4>2. QED
        BY <2>1, <4>1
    <3>5. SafeExchange'
      BY <1>1, <3>2, <3>3, <3>4 DEF SafeExchange, At, InContainer, OldestServes
    <3>6. ASSUME req.stage = "replace", self' # Gone PROVE exe'[req.at] \in {None, proc'}
      <4>1. self # Gone /\ exe[req.at] \in {None, proc}
        BY <1>0, <1>4, <2>5, <3>6 DEF RequestOK, ExchangeFollowsProgram
      <4>2. QED
        BY <1>1, <2>r, <3>1, <3>6, <4>1
    <3>7. QED
      BY <1>1, <2>0, <2>5, <3>1, <3>5, <3>6, ExchangingRequest
  <2>6. QED
    BY <1>0, <2>2, <2>3, <2>4, <2>5 DEF RequestOK
<1>5. QED
  BY <1>0, <1>1, <1>2, <1>3, <1>4, RestoreFacts

\* Every step keeps what is said of the request.
LEMMA RequestStep ==
  ASSUME UpdateInv, Next
  PROVE  RequestOK'
<1>0. RequestOK /\ FilesOK
  BY InvParts
<1>1. CASE Rollback
  <2>1. /\ proc' = proc /\ proc # None
        /\ req' = [op |-> "rollback", stage |-> "rollback", at |-> None]
    BY <1>1 DEF Rollback, Free, Serve
  <2>2. req' \in RollingBack /\ req'.op = "rollback"
    BY <2>1 DEF RollingBack
  <2>3. QED
    BY <2>1, <2>2, RollingBackRequest
<1>2. CASE InstallCompose
  <2>1. req # None /\ proc # None
    BY <1>0, <1>2 DEF InstallCompose, At, RequestOK, ExchangeFollowsProgram
  <2>2. CASE req' = [op |-> "install", stage |-> "rollback", at |-> None] /\ proc' = proc
    <3>1. req' \in RollingBack /\ req'.at = None
      BY <2>2 DEF RollingBack
    <3>2. QED
      BY <2>1, <2>2, <3>1, RollingBackRequest, BoundFacts
  <2>3. QED
    BY <1>2, <2>2, NoRequest DEF InstallCompose, HelperFails
<1>3. CASE RestartFails
  <2>1. /\ req' = req /\ exe' = exe /\ self' = self /\ yml' = yml /\ proc' = proc
        /\ pending' = pending
    BY <1>3 DEF RestartFails, files
  <2>2. QED
    BY <1>0, <2>1 DEF RequestOK, ExchangeFollowsProgram, FailedInstallKeepsProgram, VerifiedRequest,
                      SafeExchange, PackageIsKnown, InContainer, At, OldestServes
<1>4. CASE Finish \/ RollbackExe \/ RestartService \/ Crash \/ Retry \/ HostReboot
  BY <1>4, NoRequest DEF Finish, RollbackExe, RestartService, Crash, Retry, HostReboot, ComesUp,
                         StartFrom, Answer
<1>5. ASSUME NEW c \in checks, CheckRestarts(c) PROVE RequestOK'
  BY <1>5, NoRequest DEF CheckRestarts, ComesUp, StartFrom
<1>6. QED
  BY <1>1, <1>2, <1>3, <1>4, <1>5, BeginRequest, PrepareRequest, StageRequest, ExchangeRequest,
     CheckRequest DEF Next

-----------------------------------------------------------------------------
(* The invariant and the properties.                                        *)

LEMMA InitInv == Init => UpdateInv
<1> SUFFICES ASSUME Init PROVE UpdateInv
  OBVIOUS
<1>0. /\ exe = [k \in 0..Depth |-> IF k = 0 THEN First ELSE None]
      /\ self = 0 /\ proc = First /\ yml \in {None, First}
      /\ mem = [phase |-> "idle", running |-> FALSE, version |-> None] /\ saved = mem
      /\ pending = None /\ req = None /\ restart = FALSE /\ checks = {} /\ health = "none"
  BY DEF Init
<1>1. FilesOK
  <2>1. First \in Serving /\ First \in Programs /\ First \in Versions /\ First # Damaged
    BY ProgramFacts
  <2>2. /\ exe \in [0..Depth -> Programs \cup {None}] /\ \A k \in 0..Depth : exe[k] # Damaged
        /\ exe[0] = First
    BY <1>0, <2>1, ProgramFacts, BoundFacts
  <2>3. self \in Places
    BY <1>0, BoundFacts DEF Places
  <2>4. OldestServes(exe)
    <3>1. \A j \in 0..Depth : j > 0 => exe[j] = None
      BY <1>0
    <3>2. QED
      BY <2>1, <2>2, <3>1, BoundFacts DEF OldestServes
  <2>5. QED
    BY <1>0, <2>1, <2>2, <2>3, <2>4 DEF FilesOK
<1>2. PlainOK
  BY <1>0 DEF PlainOK, Status, Phases
<1>3. PendingOK
  BY <1>0 DEF PendingOK
<1>4. RequestOK
  BY <1>0 DEF RequestOK, ExchangeFollowsProgram, FailedInstallKeepsProgram, VerifiedRequest,
              SafeExchange, At
<1>5. QED
  BY <1>1, <1>2, <1>3, <1>4, InvParts

LEMMA StutterInv ==
  ASSUME UpdateInv, UNCHANGED vars
  PROVE  UpdateInv'
<1>0. FilesOK /\ PlainOK /\ PendingOK /\ RequestOK
  BY InvParts
<1>1. /\ exe' = exe /\ self' = self /\ yml' = yml /\ proc' = proc /\ mem' = mem /\ saved' = saved
      /\ pending' = pending /\ req' = req /\ restart' = restart /\ checks' = checks
      /\ health' = health
  BY DEF vars, files, status, units
<1>2. FilesOK' /\ PlainOK'
  BY <1>0, <1>1, FilesFrame DEF PlainOK
<1>3. PendingOK'
  BY <1>0, <1>1 DEF PendingOK, PackageIsKnown
<1>4. RequestOK'
  BY <1>0, <1>1 DEF RequestOK, ExchangeFollowsProgram, FailedInstallKeepsProgram, VerifiedRequest,
                    SafeExchange, PackageIsKnown, InContainer, At, OldestServes
<1>5. (FilesOK /\ PlainOK /\ PendingOK /\ RequestOK)' => UpdateInv'
  BY InvParts, PTL
<1>6. QED
  BY <1>2, <1>3, <1>4, <1>5

LEMMA StepInv ==
  ASSUME UpdateInv, Next
  PROVE  UpdateInv'
<1>1. FilesOK' /\ PlainOK' /\ PendingOK' /\ RequestOK'
  BY FilesStep, PlainStep, PendingStep, RequestStep
<1>2. (FilesOK /\ PlainOK /\ PendingOK /\ RequestOK)' => UpdateInv'
  BY InvParts, PTL
<1>3. QED
  BY <1>1, <1>2

\* The update's inductive invariant: what each stage of an install may rely on, whatever
\* a health check, a crash or an earlier request did meanwhile (State.installBinary,
\* scheduleHealthCheck).
THEOREM UpdateInvariant == Spec => []UpdateInv
<1>1. UpdateInv /\ [Next]_vars => UpdateInv'
  BY StepInv, StutterInv
<1>2. QED
  BY <1>1, InitInv, PTL DEF Spec

\* Every variable keeps its type, with the fields of each stage of a request, and the
\* program that runs is the one on disk unless a check has replaced it.
THEOREM UpdateTypeTheorem == Spec => []TypeOK
<1>1. UpdateInv => TypeOK
  BY DEF UpdateInv
<1>2. QED
  BY <1>1, UpdateInvariant, PTL

\* On the host a program that serves is always on disk, however many installs, checks
\* and crashes there were and however deep the backups go (binary.go:328-361).
THEOREM ServingTheorem == Spec => []ServingProgramKept
<1>1. UpdateInv => ServingProgramKept
  BY DEF UpdateInv, OldestIsKept, OldestServes, ServingProgramKept
<1>2. QED
  BY <1>1, UpdateInvariant, PTL

\* An install that fails keeps the program that runs, in place or one ".old" further, and
\* leaves nothing of the new one in its place, whether or not putting it back succeeds
\* (binary.go:345-357).
THEOREM KeepsProgramTheorem == Spec => []FailedInstallKeepsProgram
<1>1. UpdateInv => FailedInstallKeepsProgram
  BY DEF UpdateInv
<1>2. QED
  BY <1>1, UpdateInvariant, PTL

\* No program on disk ever differs from the checksum published with it, after any row of
\* failed downloads, failed verifications and repeated installs (binary.go:294-303,
\* handlers_binary.go:84-104).
THEOREM DamagedTheorem == Spec => []NothingDamagedInstalled
<1>1. UpdateInv => NothingDamagedInstalled
  BY DEF UpdateInv, VerifiedBeforeInstall
<1>2. QED
  BY <1>1, UpdateInvariant, PTL

=============================================================================
