# DockOrae Agent: specifications

TLA+ models of the DockOrae Agent (Go, `internal/`), the TLC configurations that
check them and TLAPS proofs. The reference is the code; where a module says what
the code does, `PROJECT.json` names the lines it stands for.

## The system

The agent is one process on a host: an HTTP server on a Unix socket through which
the panel manages the host. It keeps little state of its own; most of what its
operations read and write is the host's (files, `/proc/swaps`, `fstab`, images,
containers, systemd units). Every request runs on a goroutine of its own.

| component | state | operations | what is hard |
|---|---|---|---|
| operation locks (`oplock`) | map name -> holder under a mutex | Acquire, AcquireMany, Release, ReleaseMany | AcquireMany is not atomic, Release does not look at the holder, handlers hang or fail with locks held |
| handlers (`apiserver/handlers_*`) | none | some forty operations; each takes its list of locks, runs, releases | which lists meet which; an operation without a lock, or with one nobody else knows |
| terminal session (`terminal`, `hostpty`) | window of output with offsets, exit, closed, a mutex and a channel to wake polls | capture, poll, input, resize, close | lost wake-ups, trimmed windows, exit before output, a blocking write under the mutex |
| terminal manager | map of sessions, limit, reaper | open, list, reap, close all | one mutex taken inside the other, stale decisions of the reaper |
| swap | files, `/proc/swaps`, `fstab` | create, resize, delete | five to seven commands, each may fail; a reboot in between |
| binary update | program files, status (memory and file), pending package, systemd units | download, install, rollback, health check | crashes between renames, a check that runs outside the lock and after a restart, leftovers of failed requests |
| compose update | history per project (memory and file), image tags and containers of the host | check, pull, update, rollback | half-done pulls and rollbacks, images that do not stay up, a second party working on the same project |
| managed compose | project files | up, pull, run, start, stop, restart, down, build | its lock is named after the project |
| file manager | files, trash with metadata | text edit, upload, mkdir, chmod, rename, copy, move, trash, restore, delete, empty; packing and unpacking of archives | a manager per operation, so its mutex and its gates are shared by nobody; copies across devices that fail half way; sources that change while they are packed |
| docker (exec, daemon.json, containers, images, ...) | exec slots; `daemon.json` | one API call each, exec with limits, read-modify-write of settings | slots at their limit, unlocked read-modify-write |
| host commands (`hostexec`) | none | run, script with a time limit, write a file | a time limit that kills only the shell |
| HTTP server, audit, config, readings of the host | token, log file | routing, authorization | the token is read anew by every request |

How they interact: a handler takes its locks from the lock manager, calls one
component, audits, answers, and its deferred release runs. Components share no
memory with one another; they meet on the host. Two work in the background: the
capture goroutine and the reaper of the terminals, and the restart and the health
check of a binary update, which outlive the request and even the process.

## Modules

| module | models | uses |
|---|---|---|
| `OpExclusion` | abstract: operations with footprints never overlap, and a refusal has a reason | |
| `OpLock` | `oplock.go` and the life of a request around it | `OpExclusion` by refinement |
| `ControlPlane` | the lock list of every handler | `OpLock` |
| `TerminalSession` | one session of `terminal/manager.go` with the pty | |
| `Swap` | `swap.go` as the commands it runs | |
| `BinaryUpdate` | `binary.go`, `compose_helpers.go`, the unit's script | |
| `ComposeUpdate` | `compose.go` as the compose and docker commands it runs | |
| `TerminalManager` | the sessions of `terminal/manager.go`: who opens, uses, reaps and closes them | `SessionTable` by refinement; the inside of a session is `TerminalSession` |
| `FileManager` | `filemanager/manager.go` and `service.go` as the system calls of concurrent requests | |
| `SessionTable` | abstract: sessions open only where there is room and before the shutdown, and end for good | |
| `ExecSlots` | abstract: a call is turned away only while as many as there may be are served | |
| `Archive` | `filemanager/archive.go` and `transfer.go`: one request while the host changes | the state of an entry is `FileManager`'s |
| `ContainerExec` | `docker/exec.go` with the Docker daemon | `ExecSlots` by refinement |
| `ControlPlaneProofs`, `TerminalSessionProofs`, `TerminalManagerProofs`, `SwapProofs`, `BinaryUpdateProofs`, `ComposeUpdateProofs`, `FileManagerProofs`, `ContainerExecProofs` | the theorems about the module each is named after; those about `OpLock` are in `ControlPlaneProofs`, which extends it, and those about `Archive` in `FileManagerProofs` | that module |

`MC*` modules give TLC the sets that a `.cfg` cannot write.

**OpLock.** One action per critical section of the manager's mutex: `Acquire` takes
the next name of the handler's list, `AcquireBusy` finds it taken and starts giving
back, `Release` deletes one name. A request is a record of how far its handler is;
`lo` and `hi` say which part of its list it holds. `Finish` covers return, error and
panic alike, since the release is deferred. Nothing makes `Finish` happen.
`ControlPlane` is the table: one definition per handler file.

**TerminalSession.** One action per critical section of the session's mutex; only
`Input` keeps the mutex over several, because it writes to the pty under it. The
k-th byte the shell prints is the number k, so that a reply can be compared with the
offset it claims. The shell, its background jobs and the two queues of the pty are
the environment; the reading end sees EIO once nobody has the slave side open.

**Swap.** A request is a script of which it has come to one command (`job.step`):
`Allocate`, `Mkswap`, `Swapon`, `Swapoff`, `Rm`, then the rewriting of `fstab` and the
look at the result. `Following` is the order of the commands in the three scripts. Any
may fail; what follows depends on whether the code joins it by `&&`, `;` or `||`.
`ScriptFails` is a failed command or the end of the 300 s. The agent or the host may go
down between any two steps; a boot switches on what `fstab` names, in any order and as
far as there are kernel slots (`Booted`). `fstab` is the set of paths that have a swap
entry, since a second entry of a path adds nothing.

**BinaryUpdate.** `exe[0]` is the program, `exe[1]` its `.old`, and so on;
`self` is where the program that runs has gone (`/proc/self/exe` follows a rename).
Downloads give a package that fits its checksum, does not, or has none. When the rename of
the new program into place fails, `PutBack` renames the old one back, which may fail as
well and is not told (`binary.go:354`). A mismatch removes the files of the package and
leaves it pending (`binary.go:294`), so the next install meets no checksum. `checks` are
the transient units of systemd, which live through a restart of the agent but not
through a reboot. `yml` is the version in the host's compose file where compose runs
the agent.

**ComposeUpdate.** `tag` is what each image name stands for on the host, `cont` what
each container runs, whether it still does (`running`, `exited`), or that there is none
(`gone`). Pulls and ups go service by service and may stop half way. The health check is
two looks, the second when what was looked at may have exited. Beside the request, under
another lock and at any moment, managed operations pull an image (`ManagedPull`), bring a
service up with or without a pull (`ManagedUp`), start, stop or remove it
(`ManagedCompose`); `req.touched` is the history of whose service they have changed since
the request did. A command may hang for good (`Hang`): at its limit only the process
itself is killed, and the wait goes on until its children close the output
(`hostexec.go:236-238`). `updates` is memory and file in one, since they are written in
one critical section; a crash while saving loses the file.

**TerminalManager.** A session is its shell, its flags, its owner and its age; `mu` is
the manager's mutex, `hold` a session's where a call keeps it (Input, over its write).
`Open` is four steps: take the mutex, count the sessions one at a time, start the shell
(`OpenForks`), enter it in the table. `Close` is look up, mark, kill; the reaper and
`CloseAll` make a list first and then close what is on it as a request would. `age` is
what the reaper's three durations tell apart: in use, idle, over its lifetime.

**FileManager.** `service.go` makes a `Manager` for each operation, so a request is a
row of system calls and the calls of two requests interleave: `Begin` (the checks),
`WriteMeta`, `RenameNoReplace`, or, across devices, `CopyTree`, `Verify`, `Place`,
`RemoveAll`. `object` says what is at each path and at each id of the trash; a number
stands for one version of one entry, which is what `resourceVersion` tells apart, and a
directory has one for itself and one for what lies below. `Fail` is any check or call
that fails, with the clean-up the code then does; `Kill` is the end of the request's
process where it stands, half way through a removal for instance. `gone` and `contended`
are histories the properties need, and so is `unreturned`: the items of the trash whose
metadata the clean-up of a trashing took back because the source could not be removed
(`manager.go:1078-1103`).

**Archive.** One request and a host that changes files, adds and removes them.
`Enter`, `Look`, `Open` and `Copied` are the steps of `walkArchive`; `ExportZIP` walks
twice; `Check` compares versions at the end. `Enter` counts every name in a directory and
goes on with those it may show (`Shows`): protected paths and the manager's own files
(`Hidden`) are passed over without a word (`archive.go:320-323`). Unpacking is one member at a time
(`Member`) with what `extractZIP` and `extractTAR` ask of it, then the times of the
directories and the rename. Names are short sequences of numbers: a stem and the
numbers of its suffixes, or the components of a member's path.  `NameFor` is one round
of `assignUniqueArchiveNames`: the suffixes it tries end at twice the number of sources,
which `NamesTheorem` shows to be far enough.

**ContainerExec.** A call takes its slot, asks the daemon three times, copies two
streams, waits for copy or deadline, and asks for the exit code. The command is the
daemon's: it prints, ends and outlives the call that started it.

**SessionTable** and **ExecSlots** have no source of their own: they say what an owner
of sessions and a caller of exec may rely on. A session runs in `SessionTable` from the
moment it is in the map until `closed` or `exitedAt` is set; when the shell is started or
killed does not show. A call is served in `ExecSlots` from `acquire` to its answer.

## Runs

Each finishes within three minutes.

| run | expects | what it shows |
|---|---|---|
| `control_plane` | pass | the lock invariant, exclusion of what shares a name or is declared exclusive (all updates; a reboot and every base lock), that colliding requests do not all lose, that only the holder gives a lock up, that a request is answered and gives back what it took although an operation hangs, and the refinement of `OpExclusion` |
| `terminal_session` | pass | no byte lost, doubled or misplaced; no poll asleep on news; exit last and complete |
| `terminal_liveness` | pass | with a shell that reads: polls and inputs are answered, a closed session ends |
| `terminal_manager` | pass | the limits on sessions hold although they are counted one at a time while others end; no shell runs that no table and no call can reach, and after `CloseAll` none is left in the table with its shell running |
| `swap` | pass | a created swap survives a reboot; no moment without swap in a resize, partitions left alone (`SwapStaysOn`); no dangling `fstab` entry after a delete |
| `binary_update` | pass | no program on disk differs from the checksum published with it (nothing is said of the image that compose is pointed at, see `RefusedIsNotInstalled`); a program that serves stays on disk through every crash; a failed install keeps the running program on disk, in place or as the backup next to it, whether or not the rename back succeeds |
| `binary_rollback` | pass | a program that does not come up is replaced by the one before it |
| `compose_update` | pass | what the history says of a success or a rollback is true of every service that no managed operation has changed since the request did; every request ends unless one of its commands hangs beyond its limit |
| `file_manager` | pass | what nobody asked to remove stays somewhere, whatever fails and wherever a request ends; an item of the trash keeps its way back, except where the source could not be removed and the metadata was taken back (`manager.go:1078-1103`); nothing is replaced unasked; no half of a copy is visible |
| `archive` | pass | a complete archive shows its sources, but for hidden entries, at one moment and no file half old, half new, if versions tell every change; an extracted directory has every member and its times; limits hold at every moment; names are unique |
| `container_exec` | pass | a result is whole or says that it is not, except after a broken connection, which the code does not tell (`exec.go:163`); every call is answered; counting slots implements `ExecSlots`: on every path out of a call its slot is given back once, and a call is turned away only while others have them all |
| `swap_resize_reboot` | violation | a resize of the swap at its own path leaves `fstab` naming a file that was removed |

Each property of a passing run has a mutant in `PROJECT.json`: a definition changed
as a plausible bug would change it, with which TLC finds the property violated. The
mutants stand in the modules next to what they change, marked `Mutant:`.

Further statements of the code's comments and docs that TLC refutes are kept in the
modules, after the properties that hold, most with a `.cfg` beside the modules; the
hazards in `PROJECT.json` tell what each is about. TLC stops at the first statement it
refutes: where a `.cfg` names several, leave one at a time.

| module | statement | what the code does | `.cfg` |
|---|---|---|---|
| `ControlPlane` | `RebootWaitsForAll` (`handlers_host.go:59`) | a reboot starts while a managed compose operation runs | `MCReboot` |
| `TerminalSession` | `PollReturns` (`handlers_terminal_poll.go:10`) | a shell that does not read blocks Input, which keeps the mutex the poll waits for | `MCTerminalStuck` |
| `Swap` | `UserFilesAreKept` (`swap.go:3`) | a resize to another path writes over what is there | `MCSwapUser` |
| `Swap` | `ResizeIsNotSentToResize` (`swap.go:164`) | with no swap on and a file left, resize says "use resize" | `MCSwapLeftover` |
| `BinaryUpdate` | `RefusedOnlyWhileUpdating` (`binary.go:240`) | after one failed download every later one is refused | `MCBinaryClaims` |
| `BinaryUpdate` | `RunningDiesWithProcess` (`binary.go:494`) | a failed rollback leaves `running` set across restarts | `MCBinaryClaims` |
| `BinaryUpdate` | `InstallHasPackage`, `RollbackRestores`, `ReplacedAtomically`, `HealthyUpdateStays`, `RolledBackIsReported`, `FailedInstallRestores` | see the comments at each | `MCBinaryClaims`, the fourth `MCBinaryOverlap`, the last `MCBinaryContainer` |
| `BinaryUpdate` | `RefusedIsNotInstalled` (`binary.go:294`) | a mismatch leaves the package pending; the next install finds no checksum, and in a container points the compose file at the version that was refused | `MCBinaryContainer` |
| `ComposeUpdate` | `CheckFindsUpdates` (`compose.go:199`) | a check that pulls a newer image reports none, since it compares what the containers run | `MCComposeClaims` |
| `ComposeUpdate` | `SuccessMeansAllRun` (`compose.go:411`) | `compose ps` without `-a` leaves out what has exited: one container that runs is enough for a success | `MCComposeClaims` |
| `ComposeUpdate` | `RollbackHoldsForAll` (`handlers_compose_managed.go:66`) | a managed pull between the retag and the record moves the tag the rollback has put back | `MCComposeClaims` |
| `ComposeUpdate` | `RequestsAlwaysEnd` (`hostexec.go:220`) | the wait for a killed command lasts as long as a child holds its output | `MCComposeClaims` |
| `FileManager` | `EditsAreNotLost` (`manager.go:424`) | the version check and the rename of an edit are two calls; a second edit between them is lost | |
| `FileManager` | `UploadsAreWhole` (`service.go:4`) | behind a pipe, the break of an upload's connection looks like its end, and half a file is published | |
| `Archive` | `ArchiveIsSnapshot` under `CoarseSpec` (`manager.go:354`) | versions are made of timestamps: a write that the clock does not tell apart is not seen by the last comparison | `MCArchiveCoarse` |
| `ContainerExec` | `CommandsAreBounded` (`exec.go:23`) | a timeout gives the slot back while the command goes on | `MCExecBounded` |
| `ContainerExec` | `OutputWithinTotal` (`exec.go:77`) | each stream has the whole limit, not a share of one | `MCExecTotal` |

Two configurations beside the runs check statements that hold. `MCTerminalManagerLive.cfg`
is for `ShellsEnd`: under the fairness of `TerminalManager`, no shell outlives its session's
lifetime for ever. `MCSessionTable.cfg` is for `ImplementsTable`, which `TableRefinement`
proves without bounds: with one owner and room for one session, a session leaves the map
only when it has ended, and none opens without room or after the shutdown.

### Bounds, and why they are enough

- `control_plane`: three requests and one handler for each shape of lock list (none,
  one of its own, one that a longer list shares, and the two longer lists). Lists of
  one name behave alike, so the other handlers add nothing but names. Three requests
  are enough for one to hold, one to fail half way and one to slip in between. The
  theorems have no bound.
- `terminal_session`: a window of 2 bytes, a reply of 1, a stream of 3: the window is
  trimmed, replies come in parts, the pty (1 byte) fills and a chunk is read while
  another waits. Two polls, so that one's wake-up can be taken by another.
- `swap`: the default file, a path that `ValidatePath` lets through but that is not
  controlled, one partition, three kernel slots, one size (the size decides only whether
  there is a file). Every request fits into three slots; with fewer, `swapon` fails, which
  it may in any case.
- `binary_update`: three versions, one that serves, one other that serves, one that
  does not even print its version; `.old.old` is the deepest backup; two health checks
  at a time. `binary_rollback` has one check at a time and no reboot: two checks
  undo each other's work, and a reboot loses the check, both of which the code does
  not guard against.
- `compose_update`: two services, so that commands can stop half way; two images of
  each, the second of one of them does not stay up; managed operations change that one
  only, so that the other shows what they must not excuse; two looks of the health check
  instead of twenty; one record instead of five, since only the newest is ever read.
  `compose ps` leaves out what has exited; the invariant has been checked with both.
- `terminal_manager`: two callers, two owners, two sessions at most and one per owner;
  two sessions are ever opened, so that one can end while the other is opened; one use.
  Only an owner's limit can be exceeded here, since no third session is opened;
  `LimitsTheorem` is about both, and `MCSessionTable.cfg` has room for one session.
  The sessions in the table are at most as many as are counted.
- `file_manager`: three paths, one of them on another file system than the trash, two
  ids of the trash, room for one item in it; two requests at a time and three in all,
  so that a third meets what two left behind; four states of entries. The nsenter
  mode, whose behaviours include those of the direct one.
- `archive`: a directory with a directory in it, in that one a file no archive shows,
  and three files two of which share a
  name while the third has the name the second would get; ten archives, one for each
  way to be refused and for each order of directories and files; five entries, three
  units of size; two changes of the host, so that one can come before and one after the
  same look at a file.
- `container_exec`: one container with one slot and two calls, a limit of one unit and
  two printed: the slot is taken, given back, and taken again; each stream may pass
  its limit.

Deadlock is checked in all runs but `container_exec`, where calls come to an end, and
`binary_rollback` and the others of that model with `MayReboot = FALSE`: there the system
may really stop, since a crash between the two renames leaves no program to start. In
`binary_update` a reboot is always possible, which is no repair either, only a step.

### Fairness

- `OpLock`: weak fairness of the steps of the lock manager, whose mutex is held for
  a few instructions. None for the operations.
- `TerminalSession`: weak fairness for each goroutine that can run, strong for taking
  the session's mutex, since `sync.Mutex` hands itself to a waiter after 1 ms of
  starvation; a poll's timer fires. Nothing of the shell in `FairSpec`;
  `ReadingShellSpec` adds that somebody reads what is typed.
- `BinaryUpdate`: systemd runs the units it was given and starts a service that is
  down (`Restart=always`). Nothing of the agent.
- `ComposeUpdate`: a request goes on, since every command has a time limit
  and the health check a deadline, and an image that exits at its start does exit. A
  command may still hang beyond its limit: that is an action of the model (`Hang`), and a
  request that hangs is out of what `RequestEnds` promises.
- `TerminalManager` (only for `ShellsEnd`): sessions age, the ticker ticks, `sync.Mutex`
  is handed to who waits; a write of Input returns, which is the shell's doing.
- `ContainerExec`: the goroutine of a call runs and its context ends at the deadline;
  nothing of the command or of the daemon.

`FileManager` and `Archive` state safety only: what a request owes is its result, and a
process that is cut off owes nothing.

## Proofs

The first part of `ControlPlaneProofs` is about `OpLock` alone: for any requests,
operations, locks and lists without repetition (`LockSeqAssumption`, `FreeAssumption`;
nothing is assumed finite, and no step uses the handlers' table) it proves

- `LockInvariant`: `Spec => []LockInv`. The invariant is inductive as it stands. Type
  correctness alone says nothing about the map; `HeldIsOwned` (the map is exactly
  what requests hold) is preserved only together with `HoldsByStep` (where a handler
  stands determines which part of its list it holds), because `Release` deletes by
  name: it is harmless only since `lo+1` is a position the request still holds, and
  since a list names no lock twice.
- `Exclusion`: two running requests hold all their names, so a shared name would map
  to both.
- `ReleasesOwn`: the action property, from the invariant: the only step that takes a
  name from a request is its own `Release`.
- `Refinement`: initial states map to initial states, and every step to a step or a
  stutter of `OpExclusion`. The interesting cases are `Acquire` of the last name
  (nobody else runs with it) and `AcquireBusy` (the holder of the name conflicts).


The other modules have the same shape: an inductive invariant, made of named
conjunctions, stands in the component's module after its properties; the proof module
has one lemma per action, and the theorems follow from the invariant. TLC has checked
each invariant on the instance of the component's run before it was proved.

| module | inductive invariant | theorems |
|---|---|---|
| `ControlPlaneProofs`, lock manager | `LockInv` | `LockInvariant`, `Exclusion`, `ReleasesOwn`, `Refinement` |
| `ControlPlaneProofs`, table | `CollisionInv` | `CollisionInvariant`, `DeclaredTheorem`, `SomebodyWinsTheorem` |
| `TerminalSessionProofs` | `SessionInv` | `SessionInvariant`, `SessionTypeTheorem`, `WindowTheorem`, `WakeupTheorem`, `ReplyTheorem`, `ExitTheorem` |
| `TerminalManagerProofs` | `ManagerInv`, `SessionsKnown` | `ManagerInvariant`, `ManagerTypeTheorem`, `LimitsTheorem`, `ShellsTheorem`, `SessionsKnownInvariant`, `TableRefinement` |
| `SwapProofs` | `SwapInv` | `SwapInvariant`, `SwapTypeTheorem`, `PersistsTheorem`, `NoDanglingTheorem`, `StaysOnTheorem` |
| `BinaryUpdateProofs` | `UpdateInv` | `UpdateInvariant`, `UpdateTypeTheorem`, `ServingTheorem`, `KeepsProgramTheorem`, `DamagedTheorem` |
| `ComposeUpdateProofs` | `ComposeInv` | `ComposeInvariant`, `ComposeTypeTheorem`, `RollbackTheorem`, `HistoryTheorem` |
| `FileManagerProofs` | `FileInv` | `FileInvariant`, `FileTypeTheorem`, `NothingIsLostTheorem`, `UnaskedTheorem`, `ArrivesWholeTheorem` |
| `FileManagerProofs`, archives | `ArchiveInv` | `ArchiveInvariant`, `SnapshotTheorem`, `ExtractedTheorem`, `ArchiveLimitsTheorem`, `NamesTheorem` |
| `ContainerExecProofs` | `ExecInv` | `ExecInvariant`, `SlotsTheorem`, `WholeTheorem`, `SlotsRefinement` |

**ControlPlane** (`TableAssumption`: `LockSeq` is the table of the handlers, for any
set of stacks). That every update takes the update lock, that the reboot takes every
base lock (`LongEnough`) and that every list rises in one order (`Ascending`, by `Rank`)
hold of the table of each handler file and are kept when tables are joined. With the
first two, `Exclusion` gives `DeclaredExclusive`. `SomebodyWins` speaks of the end, when
nobody holds anything, so it needs a witness carried along: behind whoever was turned
away stands a request that has been served, or one that still tries and holds a name at
least as high (`SomebodyGoesOn`). When that one is turned away in its turn, it met a
name above all of its own, since lists rise, and whoever holds that name is the next
witness.

**TerminalSession** (sizes that are positive, a stream of any length, `Free` is no
writer). `StreamUnbroken` puts window, chunk and pty in line, byte by byte; `WindowIsTail`
follows, and `ReplyIsHonest` from it at the moment a reply is cut. `NoLostWakeup` is kept
because a poll takes the channel under the mutex under which it has found nothing.
`StopsForAReason` says why the capture goroutine has stopped; without it an exit
could be recorded and output still come (`ExitIsLast`).

**TerminalManager** (`ProcsAssumption`: a caller is neither the reaper nor `CloseAll`).
`TypeOK` ties each mutex to the stage of the call that has it. `Counted`: while `Open` counts,
what it has counted and what it has still to look at cover every active session, because
only the holder of `mu` adds one; so at `insert` there is room. For `NoShellIsLost`:
whoever marks a session closed goes on to kill its shell (`ClosedAreKilled`); once
`CloseAll` has begun nobody opens (`ShutdownIsFinal`), and it has every active session
still on its list or in its hands (`ShutdownIsComplete`). `TableRefinement` sorts the steps
into those that show nothing (`Quietly`), the end of one session, the shutdown, and the
entry of one; that a session which ends is still in the table needs `SessionsKnown`, since
`Close` has looked it up earlier.

**Swap** (`PathsAssumption`: what the code's constants and `ValidatePath` give; any number
of paths, partitions, kernel slots and sizes). `NewSwapFirst` is the order of the scripts as
the state shows it: past `mkswap` the new file is a swap, past `swapon` it is on; only then
may the old one go. `FstabBeforeVerify` is what the answer rests on. `ScriptFits` keeps what
is built apart from what is retired. That `swapon` takes the first free slot needs a least
element, which comes from the well-foundedness of `<` on the naturals.

**BinaryUpdate** (`VersionsAssumption`, `BoundsAssumption`: at least one backup, `None` and
`Gone` are no index). "A program that serves is on disk" is not inductive, since an install
moves programs and a failed check puts an older one in place. The invariant says which:
the oldest one serves (`OldestIsKept`), and what a request is about to remove or to write
over is not the oldest. `ExchangeFollowsProgram` knows where the running program is at each
step of the exchange, also after the second rename has failed and while it is put back,
which may fail in its turn: the program is then the backup next to its place.
`VerifiedBeforeInstall` that nothing damaged is past the check.

**ComposeUpdate** (`ComposeAssumption`; any services, images, length of the history and
number of looks, and whether or not `compose ps` lists what has exited). `HistoryIsTrue`
speaks of the step that writes, so the invariant says what each stage has achieved by
then: a script that has come past a service has put its tag back (`TagsGoBack`), an up
that has come past it has its container follow the tag, and a look has found it running
(`ServicesFollow`, `StaysUp`). Managed operations may undo any of it at any moment, so
each part is about the services they have not touched since; whatever else happens, a new
image in the registry for one, touches neither tag nor container. A rollback goes to what
the newest record still names when it is marked (`StageFitsOp`). What a success says about
containers that run is as much as `ps` shows: all of them if it lists what has exited, one
of them if it does not (`HistoryTheorem`); that all run is then refuted
(`SuccessMeansAllRun`).

**FileManager** (`PlacesAssumption`, `NoneAssumption`; any paths, slots, file systems and
number of requests in flight). `NothingIsLost` says nothing of what requests know, so it is
not inductive: `RemoveAll` would take what has not been copied. `JobFits` adds, for each
request: what it looked at is still as it saw it, or two requests name the place
(`SeenStays`); a source that is copied is covered by its copy (`CopyCovers`); an id of the
trash is known to nobody else until its item is in (`SlotIsFresh`); metadata goes after its
item (`ItemBeforeMeta`). The step of one request keeps what the others know, since whatever it
alters at a place they name is contended from then on (`OthersStep`). The two action
properties follow by cases over the six calls that alter what is at a place.

**ContainerExec** (`ExecAssumption`, `NoneAssumption`; any requests, any containers, the calls
in flight for one container being finite because each takes a slot). `SlotsAreCalls` goes
together with finiteness, which a cardinality needs; `ResultIsWhole` with what a stage
implies about the command and the copy (`CopyFollowsCommand`, `AnswerFollowsCopy`).
`SlotsRefinement`: the counter is the number of calls that are served, so a refusal at the
limit is one that `ExecSlots` allows; every return lowers it once.

**Archive** (`TreeAssumption`: a directory has finitely many children, the archives are
sequences of members, the limits are numbers; `NilAssumption`; any tree, any sources, any
archives, any number of changes of the host). No moment is fixed in advance at which a
complete archive is true, so the invariant carries what will decide it. While the walk goes
on, versions only grow (`MomentsFollow`), what was looked at was looked at before now
(`LookedBefore`), and of a directory that still has the version it was listed with, all
children it may show are written or wait (`DirsListed`). When the last entry is written, that
state is taken as the moment (`ShownTogether`): whatever `Check` finds unchanged later had its
version at that moment already, since a version lies between the two and none comes back. That
every change gives a new version is the model's assumption (`CoarseSpec` is without). `FilesWhole`
says the same of the two reads of a file. For what is unpacked, each member counted is on
disk (`MembersThere`), from a version between the one that was opened and the present one
(`FilesOfSource`), which the last comparison makes equal. `LimitsKept` is about a sum over a
set of files, which `Bytes` adds up by a recursive function that is chosen: that there is one
such function and what it gives (`BytesSteps`, and from it that `Bytes` grows by the size of
what is added) is proved from a least subset for which it fails, and there is none, the strict
inclusion of the subsets of a finite set being well-founded. `NamesTheorem` is about a recursive
function too and takes a least number in the same way (`LeastNumber`, `GivingGoesOn`). It needs
a suffix that is free: there are twice as many as sources, each gives another name, and the
pigeonhole principle leaves one over (`SuffixIsFree`).

Only model-checked, because the prover does not reach it: what must happen in the end under a
fairness (`NobodyHangsAlong`, `CallsReturn`, `CloseEndsSession`, `BrokenIsRolledBack`,
`RequestEnds`, `CallsAreAnswered`). Every invariant and every action property that a passing
run checks is stated by a theorem.

## Not modelled, and simplifications

- Requests of one component run one at a time where the handler's lock makes them;
  `ControlPlane` is where that is checked, the component modules take it as given.
- Wording, logs, listings, readings of the host; the Docker objects, which are one
  API call each; configuration; the registry mirrors of `daemon.json`, a read-modify-
  write without lock or check (`docker/monitor.go:152`), and the project files of
  managed compose, written one after another without one (`compose/managed.go:55`).
- The HTTP server: routes, authorization, WebSockets. Each request is independent; what
  they share is the components'.
- `TerminalManager`: sessions are looked at in any order, as a Go map is; the window
  and the waiting of polls are `TerminalSession`'s. Validation of sizes and owners is
  a refusal without an effect.
- `FileManager`: a batch is a row of requests of one worker; resolution of symbolic
  links, name and path checks are taken as passed; a directory has one level that
  matters below it; `fsync` is not modelled, so a power failure is not either; the copy
  of the agent's program to the host (`ensureSelfBin`) is left out.
- `Archive`: every change of an entry gives it a new version, which timestamps of a coarse
  clock do not (`manager.go:354`; `CoarseSpec` is the model without this). The sources of a
  request are looked at in one step (`Pack`; one by one in `archive.go:61-92`), which changes
  nothing, since a complete archive compares each with its own look. A file that is renamed
  over while it is copied fails the comparison after the copy (`Copied`); in the code the
  open descriptor still has the version it had, so the archive gets the old file, whole.
  The module is the stricter. Left out are compression, permissions and the encodings of
  names; a member's directories that its name only implies are not counted in the budget,
  in the code as in the module. `ExportDirectory` and `ImportDirectory` have no caller in this repository.
  An export that fails after the first bytes is answered with 200 and a short body
  (`handlers_host_files.go:404-427`); the module says only that it is not complete.
- `ContainerExec`: a unit of output is a byte, both streams advance one at a time; the
  interval at which the exit code is asked for is not modelled.
- `Swap`: a script that runs out of time ends with its command; in the code the
  command lives on, and the request may wait for it (`hostexec.go:236-238`). `Swap` states
  no liveness; what a wait without end means is checked in `ComposeUpdate` (`Hang`) and
  `ControlPlane` (`NobodyHangsAlong`).
- `BinaryUpdate`: the status is written at once, though the code writes it in place;
  the two goroutines that restart the service after two installs are one flag; a
  restore by the health check does not fail; a helper container ends with the agent.
- `ComposeUpdate`: every service has an image name of its own, and the project file does
  not change: managed operations that write another one, and services that come and go with
  it, are left out. An image that a managed build makes is one of those published
  (`ManagedPull`). Image pruning is a cause of a
  rollback script that fails, and needs no action of its own.

## Plan

The modules cover the parts of the agent that keep state or change the host in more
than one step; their safety invariants, action properties and refinements are proved.
What could come next:

1. The pure readers of the host and the registry mirrors of `daemon.json`, where one lost
   update is possible and known.
2. Larger instances where a second device or a third session could matter to liveness.
3. An abstract file system with atomic operations that `FileManager` implements as long
   as no two requests name one place.
