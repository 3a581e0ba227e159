-------------------------------- MODULE Swap --------------------------------
(***************************************************************************)
(* internal/swap: create, resize and delete of swap files.  A request runs  *)
(* alone (handlers_swap.go takes the "swap" lock), but it is a row of shell *)
(* commands on the host, each of which may fail, the script may run out of  *)
(* its 300 s after any of them, and the agent or the host may go down       *)
(* between two.  What the next request finds is the host as it was left:    *)
(* the files, /proc/swaps and /etc/fstab.                                   *)
(***************************************************************************)
EXTENDS Naturals

CONSTANTS
  Paths,       \* the paths that occur
  Targets,     \* those a request may name and ValidatePath lets through
  New,         \* a target's path with ".new" after it
  Default,     \* /swapfile
  Controlled,  \* the paths isControlledName accepts
  Devices,     \* swap partitions of the host
  UserFiles,   \* targets at which the host may have a file of its own
  Sizes,       \* the sizes a request may ask for, all valid
  Slots,       \* bound: kernel swap slots 1..Slots
  None

ASSUME PathsAssumption ==
  /\ Targets \subseteq Paths /\ Devices \subseteq Paths /\ Controlled \subseteq Paths
  /\ UserFiles \subseteq Targets
  /\ New \in [Targets -> Paths \ Targets]
  /\ Default \in Targets \cap Controlled
  /\ Devices \cap (Targets \cup Controlled) = {}
  /\ None \notin Paths

ASSUME SizesAssumption == Sizes \subseteq Nat \ {0} /\ Slots \in Nat

VARIABLES
  size,     \* the size of the file at each path, 0 where there is none
  signed,   \* the paths that carry a swap signature
  user,     \* the files of the host's own that are intact
  swaps,    \* /proc/swaps: the path in each kernel slot
  fstab,    \* the paths with a swap entry in /etc/fstab; a second entry adds nothing
  job,      \* the request being served, if any
  last      \* how the last request was answered, until the next one begins

host == <<size, signed, user, swaps, fstab>>
vars == <<host, job, last>>

Active == {swaps[i] : i \in 1..Slots} \ {None}

\* Mutant: the first device, whatever it is.
FirstActive ==
  LET at == {i \in 1..Slots : swaps[i] # None}
  IN  IF at = {} THEN None ELSE swaps[CHOOSE i \in at : \A j \in at : i <= j]

\* controlledSwapPath: /proc/swaps lists the slots in order; the first that is
\* controlled.
FirstControlled ==
  LET at == {i \in 1..Slots : swaps[i] \in Controlled}
  IN  IF at = {} THEN None ELSE swaps[CHOOSE i \in at : \A j \in at : i <= j]

\* swapon, which finds a path that is on already or no free slot and then does
\* nothing.
SwitchOn(s, p) ==
  LET free == {i \in 1..Slots : s[i] = None} IN
    IF free = {} \/ \E i \in 1..Slots : s[i] = p THEN s
    ELSE [s EXCEPT ![CHOOSE i \in free : \A j \in free : i <= j] = p]

\* swapon -a at boot: what has an entry and is a device or a signed file comes on, in
\* any order, since systemd switches them on side by side.
Booted ==
  LET there == {p \in fstab : p \in Devices \/ (size[p] > 0 /\ p \in signed)} IN
    {s \in [1..Slots -> there \cup {None}] :
       /\ \A i, j \in 1..Slots : s[i] = s[j] /\ s[i] # None => i = j
       /\ \A i, j \in 1..Slots : s[i] = None /\ i < j => s[j] = None
       /\ (\E i \in 1..Slots : s[i] = None) => \A p \in there : \E i \in 1..Slots : s[i] = p}

-----------------------------------------------------------------------------
\* A host with or without a swap partition, and with or without a file of its
\* own at a path somebody may ask the agent to use.
Init ==
  /\ user \in SUBSET UserFiles
  /\ size = [p \in Paths |-> IF p \in user THEN 1 ELSE 0]
  /\ signed = {}
  /\ fstab \in {{}} \cup {{d} : d \in Devices}
  /\ swaps \in Booted
  /\ job = None
  /\ last = None

Succeed(op, t) ==
  /\ last' = [op |-> op, target |-> t, why |-> "ok"]
  /\ job' = None

Fail(op, why) ==
  /\ last' = [op |-> op, target |-> None, why |-> why]
  /\ job' = None

Refuse(op, why) == Fail(op, why) /\ UNCHANGED host

\* Run the script: build file on (if any) and then retire file off (if any).
Begin(op, t, mb, on, off) ==
  /\ job' = [op |-> op, target |-> t, mb |-> mb, on |-> on, off |-> off,
             step |-> IF on = None THEN "swapoff" ELSE "allocate"]
  /\ last' = None
  /\ UNCHANGED host

\* Service.Create; Resize calls it when no swap is on.
CreateAs(op, t, mb) ==
  \/ size[t] > 0 /\ Refuse(op, "exists")
  \/ size[t] = 0 /\ Refuse(op, "failed")
  \/ size[t] = 0 /\ Begin("create", t, mb, t, None)

Create(t, mb) == job = None /\ CreateAs("create", t, mb)

Switch(t, mb, on, off) == Begin("resize", t, mb, on, off)

\* isControlledSwapPath: every device in /proc/swaps is a controlled file.
AllControlled(act) == act \subseteq Controlled

\* Service.Resize with a swap on: the one at the target is replaced by the file
\* next to it, another one by the target itself.
Resize(t, mb) ==
  /\ job = None
  /\ \/ Active = {} /\ CreateAs("resize", t, mb)
     \/ /\ t \notin Active /\ Active # {} /\ ~AllControlled(Active)
        /\ Refuse("resize", "failed")
     \/ /\ Active # {} /\ (t \in Active \/ AllControlled(Active))
        /\ \/ Refuse("resize", "failed")
           \/ IF t \in Active
              THEN Switch(t, mb, New[t], t)
              ELSE Switch(t, mb, t, FirstControlled)

\* Service.Delete: the first controlled swap, whatever the default path names.
Delete(t) ==
  /\ job = None
  /\ \/ Active = {} /\ Succeed("delete", None) /\ UNCHANGED host
     \/ /\ Active # {}
        /\ FirstControlled = None \/ t \notin {Default, FirstControlled}
        /\ Refuse("delete", "failed")
     \/ /\ FirstControlled # None /\ t \in {Default, FirstControlled}
        /\ Begin("delete", t, 0, None, FirstControlled)

-----------------------------------------------------------------------------
Running(command) == job # None /\ job.step = command

\* Mutant: the old swap is retired before the new one is on.
RetireFirst ==
  CASE job.step = "allocate" -> "mkswap"
    [] job.step = "mkswap"   -> IF job.off = None THEN "swapon" ELSE "swapoff"
    [] job.step = "swapoff"  -> "rm"
    [] job.step = "rm"       -> IF job.on = None THEN "exit" ELSE "swapon"
    [] job.step = "swapon"   -> "exit"

\* The order of the commands in the scripts.
Following ==
  CASE job.step = "allocate" -> "mkswap"
    [] job.step = "mkswap"   -> "swapon"
    [] job.step = "swapon"   -> IF job.off = None THEN "exit" ELSE "swapoff"
    [] job.step = "swapoff"  -> "rm"
    [] job.step = "rm"       -> "exit"

Done == job' = [job EXCEPT !.step = Following]

\* fallocate keeps what is there and never shrinks; dd starts afresh and may
\* stop halfway; when both fail the script goes on.  A file in use is busy.
Allocate ==
  /\ Running("allocate")
  /\ LET p == job.on IN
       IF p \in Active
       THEN UNCHANGED <<size, signed, user>>
       ELSE \/ /\ size' = [size EXCEPT ![p] = IF @ > job.mb THEN @ ELSE job.mb]
               /\ UNCHANGED <<signed, user>>
            \/ \E n \in 0..job.mb :
                 /\ size' = [size EXCEPT ![p] = n]
                 /\ signed' = signed \ {p}
                 /\ user' = user \ {p}
  /\ Done
  /\ UNCHANGED <<swaps, fstab, last>>

Mkswap ==
  /\ Running("mkswap")
  /\ size[job.on] > 0 /\ job.on \notin Active
  /\ signed' = signed \cup {job.on}
  /\ user' = user \ {job.on}
  /\ Done
  /\ UNCHANGED <<size, swaps, fstab, last>>

Swapon ==
  /\ Running("swapon")
  /\ \E i \in 1..Slots : swaps[i] = None
  /\ swaps' = SwitchOn(swaps, job.on)
  /\ Done
  /\ UNCHANGED <<size, signed, user, fstab, last>>

SwitchedOff(p) == [i \in 1..Slots |-> IF swaps[i] = p THEN None ELSE swaps[i]]

Swapoff ==
  /\ Running("swapoff")
  /\ swaps' = SwitchedOff(job.off)
  /\ Done
  /\ UNCHANGED <<size, signed, user, fstab, last>>

Removed(p) ==
  /\ size' = [size EXCEPT ![p] = 0]
  /\ signed' = signed \ {p}
  /\ user' = user \ {p}

Rm ==
  /\ Running("rm")
  /\ Removed(job.off)
  /\ Done
  /\ UNCHANGED <<swaps, fstab, last>>

\* The script has run to its end.
Exit ==
  /\ Running("exit")
  /\ job' = [job EXCEPT !.step = "fstab"]
  /\ UNCHANGED <<host, last>>

\* A command of the && chain fails, or the time is up once the one before it is
\* done: nothing is undone.
ScriptFails ==
  /\ job # None /\ job.step \in {"mkswap", "swapon", "swapoff", "rm", "exit"}
  /\ Fail(job.op, "failed")
  /\ UNCHANGED host

-----------------------------------------------------------------------------
Names(p) == p \in fstab

\* ensureFstab: one entry, appended if there is none for the path.
EnsureFstab(p) == fstab' = fstab \cup {p}

\* updateFstab: the old path's entries go, the new path's is appended.
UpdateFstab(new, old) == fstab' = (fstab \ {old}) \cup {new}

\* Mutant: only the entries of the file that was deleted go.
RemoveFstabOne(p) == fstab' = fstab \ {p}

\* removeFstab: the entries of all controlled paths go.
RemoveFstab(p) == fstab' = fstab \ Controlled

\* Mutant: Create leaves fstab to the administrator.
CreateFstabLater == UNCHANGED fstab

CreateFstab == EnsureFstab(job.target)

Fstab ==
  /\ Running("fstab")
  /\ \/ job.op = "create" /\ CreateFstab
     \/ job.op = "resize" /\ UpdateFstab(job.target, job.off)
     \/ job.op = "delete" /\ RemoveFstab(job.off)
  /\ job' = [job EXCEPT !.step = "verify"]
  /\ UNCHANGED <<size, signed, user, swaps, last>>

\* The file cannot be read or written.  Create takes back what it did; whether
\* its swapoff worked is not looked at.
FstabFails ==
  /\ Running("fstab")
  /\ IF job.op = "create"
     THEN /\ Removed(job.on)
          /\ swaps' \in {swaps, SwitchedOff(job.on)}
     ELSE UNCHANGED <<size, signed, user, swaps>>
  /\ Fail(job.op, "failed")
  /\ UNCHANGED fstab

\* What the last look at /proc/swaps must show.
Verified ==
  \/ job.op = "create" /\ job.target \in Active
  \/ /\ job.op = "resize"
     /\ \E p \in {job.target, New[job.target]} \cap Active : size[p] = job.mb
  \/ job.op = "delete"

Verify ==
  /\ Running("verify")
  /\ \/ Verified /\ Succeed(job.op, job.target)
     \/ Fail(job.op, "failed")
  /\ UNCHANGED host

-----------------------------------------------------------------------------
\* The agent goes down: the script dies with it and nobody is answered.
AgentDies ==
  /\ job # None
  /\ job' = None /\ last' = None
  /\ UNCHANGED host

\* The host goes down and comes up with what fstab names.
HostReboots ==
  /\ swaps' \in Booted
  /\ job' = None /\ last' = None
  /\ UNCHANGED <<size, signed, user, fstab>>

Next ==
  \/ \E t \in Targets : Delete(t) \/ \E mb \in Sizes : Create(t, mb) \/ Resize(t, mb)
  \/ Allocate \/ Mkswap \/ Swapon \/ Swapoff \/ Rm \/ Exit \/ ScriptFails
  \/ Fstab \/ FstabFails \/ Verify
  \/ AgentDies \/ HostReboots

Spec == Init /\ [][Next]_vars

-----------------------------------------------------------------------------
Steps == {"allocate", "mkswap", "swapon", "swapoff", "rm", "exit", "fstab", "verify"}

Jobs ==
  [op : {"create", "resize", "delete"}, target : Targets, mb : Nat,
   on : Targets \cup {New[t] : t \in Targets} \cup {None},
   off : Targets \cup Controlled \cup {None}, step : Steps]

Answers ==
  [op : {"create", "resize", "delete"}, target : Targets \cup {None},
   why : {"ok", "exists", "failed"}]

\* The types; a request builds only what ValidatePath lets through and retires
\* only a target or a controlled file.
TypeOK ==
  /\ size \in [Paths -> Nat]
  /\ signed \subseteq Paths /\ user \subseteq UserFiles
  /\ swaps \in [1..Slots -> Paths \cup {None}]
  /\ fstab \subseteq Paths
  /\ job # None => job \in Jobs
  /\ last # None => last \in Answers

Answered(op) == last # None /\ last.op = op /\ last.why = "ok"

\* The swap at p comes back after a reboot.
Persists(p) == Names(p) /\ size[p] > 0 /\ p \in signed

\* A create that was answered ok has switched on a swap that the next boot will
\* switch on too (swap.go:180, "avoid enabled at runtime but lost on reboot").
CreatedSwapPersists ==
  Answered("create") => last.target \in Active /\ Persists(last.target)

\* The same of a resize: the swap it switched to comes back after a reboot
\* (swap.go:180, and 198-199, "never a moment without swap").
ResizedSwapPersists ==
  Answered("resize") =>
    \E p \in {last.target, New[last.target]} \cap Active : Persists(p)

\* After a delete no fstab entry is left to a controlled file that is gone
\* (swap.go:405-406), although a resize had left the entry under another name.
DeleteLeavesNoDanglingEntry ==
  Answered("delete") /\ last.target # None
    => \A p \in fstab \cap Controlled : size[p] > 0

\* What a request builds and retires: never the same file, and each only where there
\* is something to build or to retire.
ScriptFits ==
  job # None =>
    /\ job.op = "create" => job.on = job.target /\ job.off = None
    /\ job.op = "delete" => job.on = None /\ job.off # None
    /\ job.op = "resize" => job.on # None /\ job.off \notin {None, job.on}
    /\ job.step \in {"allocate", "mkswap", "swapon"} => job.on # None
    /\ job.step \in {"swapoff", "rm"} => job.off # None

\* What stands once the commands before the present one have succeeded: the new file
\* is a swap before it is switched on, and on before the old one goes.
NewSwapFirst ==
  job # None /\ job.on # None =>
    /\ job.step \notin {"allocate", "mkswap"} => size[job.on] > 0 /\ job.on \in signed
    /\ job.step \notin {"allocate", "mkswap", "swapon"} => job.on \in Active

\* What fstab holds when the result is looked at.
FstabBeforeVerify ==
  Running("verify") =>
    /\ job.op = "create" => Names(job.target)
    /\ job.op = "delete" => fstab \cap Controlled = {}

\* The inductive invariant behind the properties.
SwapInv ==
  /\ TypeOK /\ ScriptFits /\ NewSwapFirst /\ FstabBeforeVerify
  /\ last # None => job = None
  /\ CreatedSwapPersists /\ DeleteLeavesNoDanglingEntry

\* swap.go:198-199: build, switch, retire in that order, so that a resize never
\* passes through a moment without swap; and whatever the request, the swap
\* partitions of the host are neither switched off nor forgotten (swap.go:228,
\* "swap on system devices is refused").
SwapStaysOn ==
  [][/\ job # None /\ job.op = "resize" /\ Active # {} /\ ~HostReboots => Active' # {}
     /\ \A d \in Devices : /\ d \in Active /\ ~HostReboots => d \in Active'
                          /\ Names(d) => Names(d)']_vars

\* swap.go:3: paths are strictly checked and limited to controlled places; a
\* file that is not the agent's is never deleted or overwritten.
UserFilesAreKept == [][user' = user]_vars

\* swap.go:163: "the file exists (to change it use resize)": resize does not
\* answer that one should use resize.
ResizeIsNotSentToResize ==
  last # None /\ last.op = "resize" => last.why # "exists"
=============================================================================
