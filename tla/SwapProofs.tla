----------------------------- MODULE SwapProofs -----------------------------
(***************************************************************************)
(* Proofs about Swap, for any host: any paths, partitions, kernel slots and  *)
(* sizes.  The invariant follows a request through its commands: what it     *)
(* builds is a swap before it is switched on, and on before the old one goes.*)
(***************************************************************************)
EXTENDS Swap, TLAPS, WellFoundedInduction

-----------------------------------------------------------------------------
(* /proc/swaps.                                                             *)

\* Among slots there is a first one.
LEMMA LeastSlot ==
  ASSUME NEW S \in SUBSET (1..Slots), S # {}
  PROVE  \E i \in S : \A j \in S : i <= j
<1> DEFINE R == OpToRel(<, Nat)
<1>1. IsWellFoundedOn(R, Nat)
  BY NatLessThanWellFounded
<1>2. ASSUME NEW x \in Nat, NEW y \in Nat, y < x PROVE <<y, x>> \in R
  BY <1>2 DEF OpToRel
<1> HIDE DEF R
<1>3. S \subseteq Nat
  OBVIOUS
<1>4. PICK x \in S : \A y \in S : ~(<<y, x>> \in R)
  BY <1>1, <1>3, WFMin, Zenon
<1>5. \A y \in S : x <= y
  <2> TAKE y \in S
  <2>1. x \in Nat /\ y \in Nat /\ ~(y < x)
    BY <1>2, <1>3, <1>4
  <2> QED
    BY <2>1
<1>6. QED
  BY <1>5

\* controlledSwapPath returns a controlled swap that is on, if there is one.
LEMMA FirstControlledFacts ==
  ASSUME TypeOK
  PROVE  /\ FirstControlled # None => FirstControlled \in Active \cap Controlled
         /\ Active # {} /\ AllControlled(Active) => FirstControlled # None
<1> DEFINE at == {i \in 1..Slots : swaps[i] \in Controlled}
           first == CHOOSE i \in at : \A j \in at : i <= j
<1>1. FirstControlled = IF at = {} THEN None ELSE swaps[first]
  BY DEF FirstControlled
<1>2. ASSUME at # {} PROVE first \in at
  BY <1>2, LeastSlot
<1>3. None \notin Controlled
  BY PathsAssumption
<1>4. ASSUME at # {} PROVE FirstControlled \in Active \cap Controlled
  <2>1. first \in at /\ FirstControlled = swaps[first]
    BY <1>1, <1>2, <1>4
  <2> HIDE DEF first
  <2>2. QED
    BY <1>3, <2>1 DEF Active
<1>5. ASSUME Active # {}, AllControlled(Active) PROVE at # {}
  BY <1>5 DEF Active, AllControlled
<1>6. QED
  BY <1>1, <1>3, <1>4, <1>5

\* swapon with a slot free: what was on stays on, and the new one is on.
LEMMA SwitchOnFacts ==
  ASSUME TypeOK, NEW p \in Paths, \E i \in 1..Slots : swaps[i] = None
  PROVE  /\ SwitchOn(swaps, p) \in [1..Slots -> Paths \cup {None}]
         /\ \A q \in Active \cup {p} : \E i \in 1..Slots : SwitchOn(swaps, p)[i] = q
<1> DEFINE free == {i \in 1..Slots : swaps[i] = None}
           first == CHOOSE i \in free : \A j \in free : i <= j
<1>1. first \in free
  BY LeastSlot
<1>2. SwitchOn(swaps, p) = IF \E i \in 1..Slots : swaps[i] = p THEN swaps
                           ELSE [swaps EXCEPT ![first] = p]
  BY DEF SwitchOn
<1> HIDE DEF first
<1>3. swaps \in [1..Slots -> Paths \cup {None}] /\ p # None
  BY PathsAssumption DEF TypeOK
<1>4. SwitchOn(swaps, p) \in [1..Slots -> Paths \cup {None}]
  BY <1>1, <1>2, <1>3
<1>5. \A i \in 1..Slots : swaps[i] # None => SwitchOn(swaps, p)[i] = swaps[i]
  BY <1>1, <1>2, <1>3
<1>6. \E i \in 1..Slots : SwitchOn(swaps, p)[i] = p
  BY <1>1, <1>2, <1>3
<1>7. ASSUME NEW q \in Active PROVE \E i \in 1..Slots : SwitchOn(swaps, p)[i] = q
  <2>1. PICK i \in 1..Slots : swaps[i] = q /\ q # None
    BY DEF Active
  <2>2. QED
    BY <1>5, <2>1
<1>8. QED
  BY <1>4, <1>6, <1>7

\* swapoff takes off what it names and nothing else.
LEMMA SwitchedOffFacts ==
  ASSUME TypeOK, NEW p
  PROVE  /\ SwitchedOff(p) \in [1..Slots -> Paths \cup {None}]
         /\ \A q \in Active : q # p => \E i \in 1..Slots : SwitchedOff(p)[i] = q
<1>1. swaps \in [1..Slots -> Paths \cup {None}]
  BY DEF TypeOK
<1>2. QED
  BY <1>1 DEF SwitchedOff, Active

\* What may be built is a path, and no partition.
LEMMA BuiltIsPath ==
  ASSUME NEW t \in Targets
  PROVE  /\ t \in Paths /\ t # None /\ t \notin Devices
         /\ New[t] \in Paths /\ New[t] # None /\ New[t] \notin Targets
BY PathsAssumption

\* A job and what it builds and retires.
LEMMA JobFacts ==
  ASSUME TypeOK, job # None
  PROVE  /\ job \in Jobs
         /\ job.target \in Targets /\ job.target \in Paths /\ job.target # None
         /\ job.on # None => job.on \in Paths
         /\ job.off \notin Devices
<1>1. job \in Jobs
  BY DEF TypeOK
<1>2. /\ job.target \in Targets /\ job.on \in Targets \cup {New[t] : t \in Targets} \cup {None}
      /\ job.off \in Targets \cup Controlled \cup {None}
  BY <1>1 DEF Jobs
<1>3. job.off \notin Devices
  BY <1>2, PathsAssumption
<1>4. QED
  BY <1>1, <1>2, <1>3, BuiltIsPath

-----------------------------------------------------------------------------
(* How a request begins and how it ends.                                    *)

LEMMA BeginStep ==
  ASSUME SwapInv, NEW op \in {"create", "resize", "delete"}, NEW t \in Targets, NEW mb \in Nat,
         NEW on \in Targets \cup {New[u] : u \in Targets} \cup {None},
         NEW off \in Targets \cup Controlled \cup {None},
         op = "create" => on = t /\ off = None,
         op = "delete" => on = None /\ off # None,
         op = "resize" => on # None /\ off \notin {None, on},
         Begin(op, t, mb, on, off)
  PROVE  SwapInv'
<1>0. TypeOK
  BY DEF SwapInv
<1>1. job' = [op |-> op, target |-> t, mb |-> mb, on |-> on, off |-> off,
              step |-> IF on = None THEN "swapoff" ELSE "allocate"]
  BY DEF Begin
<1>2. last' = None /\ UNCHANGED <<size, signed, user, swaps, fstab>>
  BY DEF Begin, host
<1>3. job' \in Jobs
  BY <1>1 DEF Jobs, Steps
<1>4. /\ job'.op = op /\ job'.target = t /\ job'.on = on /\ job'.off = off
      /\ job'.step = IF on = None THEN "swapoff" ELSE "allocate"
  BY <1>1
<1>5. TypeOK'
  BY <1>0, <1>2, <1>3 DEF TypeOK
<1>6. on = None => off # None
  BY BuiltIsPath
<1>7. ScriptFits'
  BY <1>4, <1>6 DEF ScriptFits
<1>8. NewSwapFirst'
  BY <1>4 DEF NewSwapFirst
<1>9. FstabBeforeVerify'
  BY <1>4 DEF FstabBeforeVerify, Running
<1>10. CreatedSwapPersists' /\ DeleteLeavesNoDanglingEntry'
  BY <1>2 DEF CreatedSwapPersists, DeleteLeavesNoDanglingEntry, Answered
<1>11. QED
  BY <1>2, <1>5, <1>7, <1>8, <1>9, <1>10 DEF SwapInv

\* The request is over, and what is claimed of its answer is true.
LEMMA EndStep ==
  ASSUME job' = None,
         size' \in [Paths -> Nat], signed' \subseteq Paths, user' \subseteq UserFiles,
         swaps' \in [1..Slots -> Paths \cup {None}], fstab' \subseteq Paths,
         last' # None => last' \in Answers,
         CreatedSwapPersists', DeleteLeavesNoDanglingEntry'
  PROVE  SwapInv'
<1>1. TypeOK'
  BY DEF TypeOK
<1>2. ScriptFits' /\ NewSwapFirst' /\ FstabBeforeVerify'
  BY DEF ScriptFits, NewSwapFirst, FstabBeforeVerify, Running
<1>3. QED
  BY <1>1, <1>2 DEF SwapInv

LEMMA FailStep ==
  ASSUME NEW op \in {"create", "resize", "delete"}, NEW why \in {"exists", "failed"},
         Fail(op, why),
         size' \in [Paths -> Nat], signed' \subseteq Paths, user' \subseteq UserFiles,
         swaps' \in [1..Slots -> Paths \cup {None}], fstab' \subseteq Paths
  PROVE  SwapInv'
<1>1. job' = None /\ last' = [op |-> op, target |-> None, why |-> why]
  BY DEF Fail
<1>2. last' \in Answers /\ last'.why # "ok"
  BY <1>1 DEF Answers
<1>3. CreatedSwapPersists' /\ DeleteLeavesNoDanglingEntry'
  BY <1>2 DEF CreatedSwapPersists, DeleteLeavesNoDanglingEntry, Answered
<1>4. QED
  BY <1>1, <1>2, <1>3, EndStep

LEMMA RefuseStep ==
  ASSUME SwapInv, NEW op \in {"create", "resize", "delete"}, NEW why \in {"exists", "failed"},
         Fail(op, why), UNCHANGED host
  PROVE  SwapInv'
<1>1. /\ size' \in [Paths -> Nat] /\ signed' \subseteq Paths /\ user' \subseteq UserFiles
      /\ swaps' \in [1..Slots -> Paths \cup {None}] /\ fstab' \subseteq Paths
  BY DEF SwapInv, TypeOK, host
<1>2. QED
  BY <1>1, FailStep

\* Create, Resize and Delete up to their scripts.
LEMMA CreateAsStep ==
  ASSUME SwapInv, NEW op \in {"create", "resize"}, NEW t \in Targets, NEW mb \in Sizes,
         CreateAs(op, t, mb)
  PROVE  SwapInv'
<1>1. mb \in Nat
  BY SizesAssumption
<1>2. CASE Refuse(op, "exists") \/ Refuse(op, "failed")
  BY <1>2, RefuseStep DEF Refuse
<1>3. CASE Begin("create", t, mb, t, None)
  BY <1>1, <1>3, BeginStep
<1>4. QED
  BY <1>2, <1>3 DEF CreateAs

LEMMA ResizeStep ==
  ASSUME SwapInv, NEW t \in Targets, NEW mb \in Sizes, Resize(t, mb)
  PROVE  SwapInv'
<1>0. TypeOK /\ mb \in Nat
  BY SizesAssumption DEF SwapInv
<1>1. CASE CreateAs("resize", t, mb)
  BY <1>1, CreateAsStep
<1>2. CASE Refuse("resize", "failed")
  BY <1>2, RefuseStep DEF Refuse
<1>3. CASE t \in Active /\ Switch(t, mb, New[t], t)
  <2>1. New[t] # None /\ t \notin {None, New[t]}
    BY BuiltIsPath
  <2>2. Begin("resize", t, mb, New[t], t)
    BY <1>3 DEF Switch
  <2>3. QED
    BY <1>0, <2>1, <2>2, BeginStep
<1>4. CASE t \notin Active /\ Active # {} /\ AllControlled(Active)
           /\ Switch(t, mb, t, FirstControlled)
  <2>1. PICK old : old = FirstControlled
    OBVIOUS
  <2>2. old \in Controlled /\ old \notin {None, t}
    BY <1>0, <1>4, <2>1, FirstControlledFacts
  <2>3. Begin("resize", t, mb, t, old)
    BY <1>4, <2>1 DEF Switch
  <2>4. t # None
    BY BuiltIsPath
  <2>5. QED
    BY <1>0, <2>2, <2>3, <2>4, BeginStep
<1>5. QED
  BY <1>1, <1>2, <1>3, <1>4 DEF Resize

LEMMA DeleteStep ==
  ASSUME SwapInv, NEW t \in Targets, Delete(t)
  PROVE  SwapInv'
<1>0. TypeOK
  BY DEF SwapInv
<1>1. CASE Succeed("delete", None) /\ UNCHANGED host
  <2>1. job' = None /\ last' = [op |-> "delete", target |-> None, why |-> "ok"]
    BY <1>1 DEF Succeed
  <2>2. last' \in Answers /\ last'.op = "delete" /\ last'.target = None
    BY <2>1 DEF Answers
  <2>3. CreatedSwapPersists' /\ DeleteLeavesNoDanglingEntry'
    BY <2>2 DEF CreatedSwapPersists, DeleteLeavesNoDanglingEntry, Answered
  <2>4. /\ size' \in [Paths -> Nat] /\ signed' \subseteq Paths /\ user' \subseteq UserFiles
        /\ swaps' \in [1..Slots -> Paths \cup {None}] /\ fstab' \subseteq Paths
    BY <1>0, <1>1 DEF TypeOK, host
  <2>5. QED
    BY <2>1, <2>2, <2>3, <2>4, EndStep
<1>2. CASE Refuse("delete", "failed")
  BY <1>2, RefuseStep DEF Refuse
<1>3. CASE FirstControlled # None /\ Begin("delete", t, 0, None, FirstControlled)
  <2>1. PICK old : old = FirstControlled
    OBVIOUS
  <2>2. old \in Controlled /\ old # None
    BY <1>0, <1>3, <2>1, FirstControlledFacts
  <2>3. Begin("delete", t, 0, None, old)
    BY <1>3, <2>1
  <2>4. QED
    BY <2>2, <2>3, BeginStep
<1>4. QED
  BY <1>1, <1>2, <1>3 DEF Delete

-----------------------------------------------------------------------------
(* The commands of a script.  A command is done with the host as it leaves   *)
(* it, and the job goes on to what follows.                                  *)

\* What the job and the facts about answers need not look at again.
LEMMA GoesOn ==
  ASSUME SwapInv, job # None, NEW next \in Steps, job' = [job EXCEPT !.step = next],
         UNCHANGED last,
         size' \in [Paths -> Nat], signed' \subseteq Paths, user' \subseteq UserFiles,
         swaps' \in [1..Slots -> Paths \cup {None}], fstab' \subseteq Paths,
         next \in {"allocate", "mkswap", "swapon"} => job.on # None,
         next \in {"swapoff", "rm"} => job.off # None,
         next \notin {"allocate", "mkswap"} /\ job.on # None
           => size'[job.on] > 0 /\ job.on \in signed',
         next \notin {"allocate", "mkswap", "swapon"} /\ job.on # None
           => \E i \in 1..Slots : swaps'[i] = job.on,
         next = "verify" /\ job.op = "create" => job.target \in fstab',
         next = "verify" /\ job.op = "delete" => fstab' \cap Controlled = {}
  PROVE  SwapInv'
<1>0. TypeOK /\ ScriptFits /\ last = None
  BY DEF SwapInv
<1>1. job \in Jobs
  BY <1>0, JobFacts
<1>2. /\ job' \in Jobs /\ job'.op = job.op /\ job'.target = job.target
      /\ job'.on = job.on /\ job'.off = job.off /\ job'.step = next
  BY <1>1 DEF Jobs
<1>3. TypeOK'
  BY <1>0, <1>2 DEF TypeOK
<1>4. ScriptFits'
  BY <1>0, <1>2 DEF ScriptFits
<1>5. NewSwapFirst'
  BY <1>2 DEF NewSwapFirst, Active
<1>6. FstabBeforeVerify'
  BY <1>2 DEF FstabBeforeVerify, Running, Names
<1>7. CreatedSwapPersists' /\ DeleteLeavesNoDanglingEntry' /\ last' = None
  BY <1>0 DEF CreatedSwapPersists, DeleteLeavesNoDanglingEntry, Answered
<1>8. QED
  BY <1>3, <1>4, <1>5, <1>6, <1>7 DEF SwapInv

\* Where a command of the script leads.
LEMMA FollowingFacts ==
  ASSUME SwapInv, job # None
  PROVE  /\ job.step = "allocate" => Following = "mkswap"
         /\ job.step = "mkswap" => Following = "swapon"
         /\ job.step = "swapon" => Following = IF job.off = None THEN "exit" ELSE "swapoff"
         /\ job.step = "swapoff" => Following = "rm"
         /\ job.step = "rm" => Following = "exit"
BY DEF Following

LEMMA AllocateStep == ASSUME SwapInv, Allocate PROVE SwapInv'
<1>0. TypeOK /\ job # None /\ job.step = "allocate" /\ job.on # None
  BY DEF SwapInv, ScriptFits, Allocate, Running
<1>1. job \in Jobs /\ job.on \in Paths
  BY <1>0, JobFacts
<1>2. job' = [job EXCEPT !.step = "mkswap"]
  BY <1>0, FollowingFacts DEF Allocate, Done
<1>3. job.mb \in Nat /\ size[job.on] \in Nat
  BY <1>0, <1>1 DEF Jobs, TypeOK
<1>4. size' \in [Paths -> Nat] /\ signed' \subseteq Paths /\ user' \subseteq UserFiles
  BY <1>0, <1>3 DEF Allocate, TypeOK
<1>5. UNCHANGED <<swaps, fstab, last>>
  BY DEF Allocate
<1>6. swaps' \in [1..Slots -> Paths \cup {None}] /\ fstab' \subseteq Paths
  BY <1>0, <1>5 DEF TypeOK
<1>7. QED
  BY <1>0, <1>2, <1>4, <1>5, <1>6, GoesOn DEF Steps

LEMMA MkswapStep == ASSUME SwapInv, Mkswap PROVE SwapInv'
<1>0. TypeOK /\ job # None /\ job.step = "mkswap" /\ job.on # None
  BY DEF SwapInv, ScriptFits, Mkswap, Running
<1>1. job \in Jobs /\ job.on \in Paths
  BY <1>0, JobFacts
<1>2. job' = [job EXCEPT !.step = "swapon"]
  BY <1>0, FollowingFacts DEF Mkswap, Done
<1>3. /\ size' \in [Paths -> Nat] /\ signed' \subseteq Paths /\ user' \subseteq UserFiles
      /\ swaps' \in [1..Slots -> Paths \cup {None}] /\ fstab' \subseteq Paths
      /\ size'[job.on] > 0 /\ job.on \in signed' /\ UNCHANGED last
  BY <1>0, <1>1 DEF Mkswap, TypeOK
<1>4. QED
  BY <1>0, <1>2, <1>3, GoesOn DEF Steps

LEMMA SwaponStep == ASSUME SwapInv, Swapon PROVE SwapInv'
<1>0. TypeOK /\ job # None /\ job.step = "swapon" /\ job.on # None
  BY DEF SwapInv, ScriptFits, Swapon, Running
<1>1. job \in Jobs /\ job.on \in Paths
  BY <1>0, JobFacts
<1>2. size[job.on] > 0 /\ job.on \in signed
  BY <1>0 DEF SwapInv, NewSwapFirst
<1>3. PICK next \in {"exit", "swapoff"} :
        job' = [job EXCEPT !.step = next] /\ (next = "swapoff" => job.off # None)
  BY <1>0, FollowingFacts DEF Swapon, Done
<1>4. /\ swaps' \in [1..Slots -> Paths \cup {None}]
      /\ \E i \in 1..Slots : swaps'[i] = job.on
  BY <1>0, <1>1, SwitchOnFacts DEF Swapon
<1>5. /\ size' \in [Paths -> Nat] /\ signed' \subseteq Paths /\ user' \subseteq UserFiles
      /\ fstab' \subseteq Paths
      /\ size'[job.on] > 0 /\ job.on \in signed' /\ UNCHANGED last
  BY <1>0, <1>2 DEF Swapon, TypeOK
<1>6. QED
  BY <1>0, <1>3, <1>4, <1>5, GoesOn DEF Steps

\* The old swap goes once the new one is on: what is built is not what is retired.
LEMMA RetiringFacts ==
  ASSUME SwapInv, job # None, job.step \in {"swapoff", "rm"}
  PROVE  /\ job.off # None
         /\ job.on # None => /\ job.on # job.off
                             /\ size[job.on] > 0 /\ job.on \in signed /\ job.on \in Active
                             /\ job.on \in Paths
<1>1. TypeOK /\ ScriptFits /\ NewSwapFirst
  BY DEF SwapInv
<1>2. job.off # None
  BY <1>1 DEF ScriptFits
<1>3. job.op \in {"create", "resize", "delete"} /\ (job.on # None => job.on \in Paths)
  BY <1>1, JobFacts DEF Jobs
<1>4. ASSUME job.on # None
      PROVE  job.on # job.off /\ size[job.on] > 0 /\ job.on \in signed /\ job.on \in Active
  BY <1>1, <1>2, <1>3, <1>4 DEF ScriptFits, NewSwapFirst
<1>5. QED
  BY <1>2, <1>3, <1>4

LEMMA SwapoffStep == ASSUME SwapInv, Swapoff PROVE SwapInv'
<1>0. TypeOK /\ job # None /\ job.step = "swapoff"
  BY DEF SwapInv, Swapoff, Running
<1>1. job' = [job EXCEPT !.step = "rm"]
  BY <1>0, FollowingFacts DEF Swapoff, Done
<1>2. /\ job.off # None
      /\ job.on # None => /\ job.on # job.off
                          /\ size[job.on] > 0 /\ job.on \in signed /\ job.on \in Active
  BY <1>0, RetiringFacts
<1>3. /\ swaps' \in [1..Slots -> Paths \cup {None}]
      /\ job.on # None => \E i \in 1..Slots : swaps'[i] = job.on
  BY <1>0, <1>2, SwitchedOffFacts DEF Swapoff
<1>4. /\ size' \in [Paths -> Nat] /\ signed' \subseteq Paths /\ user' \subseteq UserFiles
      /\ fstab' \subseteq Paths /\ UNCHANGED <<size, signed, last>>
  BY <1>0 DEF Swapoff, TypeOK
<1>5. QED
  BY <1>0, <1>1, <1>2, <1>3, <1>4, GoesOn DEF Steps

\* What Removed leaves.
LEMMA RemovedFacts ==
  ASSUME TypeOK, NEW p, Removed(p)
  PROVE  /\ size' \in [Paths -> Nat] /\ signed' \subseteq Paths /\ user' \subseteq UserFiles
         /\ \A q \in Paths : q # p => size'[q] = size[q] /\ (q \in signed => q \in signed')
BY DEF TypeOK, Removed

LEMMA RmStep == ASSUME SwapInv, Rm PROVE SwapInv'
<1>0. TypeOK /\ job # None /\ job.step = "rm" /\ Removed(job.off)
  BY DEF SwapInv, Rm, Running
<1>1. job' = [job EXCEPT !.step = "exit"]
  BY <1>0, FollowingFacts DEF Rm, Done
<1>2. /\ job.on # None => /\ job.on # job.off /\ job.on \in Paths
                          /\ size[job.on] > 0 /\ job.on \in signed /\ job.on \in Active
  BY <1>0, RetiringFacts
<1>3. PICK off : off = job.off
  OBVIOUS
<1>4. /\ size' \in [Paths -> Nat] /\ signed' \subseteq Paths /\ user' \subseteq UserFiles
      /\ \A q \in Paths : q # off => size'[q] = size[q] /\ (q \in signed => q \in signed')
  BY <1>0, <1>3, RemovedFacts
<1>5. job.on # None => size'[job.on] > 0 /\ job.on \in signed'
  BY <1>2, <1>3, <1>4
<1>6. /\ swaps' \in [1..Slots -> Paths \cup {None}] /\ fstab' \subseteq Paths
      /\ UNCHANGED <<swaps, last>>
  BY <1>0 DEF Rm, TypeOK
<1>7. job.on # None => \E i \in 1..Slots : swaps'[i] = job.on
  BY <1>2, <1>6 DEF Active
<1>8. QED
  BY <1>0, <1>1, <1>4, <1>5, <1>6, <1>7, GoesOn DEF Steps

\* The same host, with a job that is past its commands.
LEMMA LateFacts ==
  ASSUME SwapInv, job # None, job.step \in {"exit", "fstab", "verify"}
  PROVE  job.on # None => /\ size[job.on] > 0 /\ job.on \in signed
                          /\ \E i \in 1..Slots : swaps[i] = job.on
BY DEF SwapInv, NewSwapFirst, Active

LEMMA ExitStep == ASSUME SwapInv, Exit PROVE SwapInv'
<1>0. TypeOK /\ job # None /\ job.step = "exit" /\ job' = [job EXCEPT !.step = "fstab"]
  BY DEF SwapInv, Exit, Running
<1>1. UNCHANGED <<size, signed, user, swaps, fstab, last>>
  BY DEF Exit, host
<1>2. /\ size' \in [Paths -> Nat] /\ signed' \subseteq Paths /\ user' \subseteq UserFiles
      /\ swaps' \in [1..Slots -> Paths \cup {None}] /\ fstab' \subseteq Paths
  BY <1>0, <1>1 DEF TypeOK
<1>3. job.on # None => /\ size'[job.on] > 0 /\ job.on \in signed'
                       /\ \E i \in 1..Slots : swaps'[i] = job.on
  BY <1>0, <1>1, LateFacts
<1>4. QED
  BY <1>0, <1>1, <1>2, <1>3, GoesOn DEF Steps

LEMMA FstabStep == ASSUME SwapInv, Fstab PROVE SwapInv'
<1>0. TypeOK /\ job # None /\ job.step = "fstab" /\ job' = [job EXCEPT !.step = "verify"]
  BY DEF SwapInv, Fstab, Running
<1>1. job \in Jobs /\ job.target \in Paths
  BY <1>0, JobFacts
<1>2. UNCHANGED <<size, signed, user, swaps, last>>
  BY DEF Fstab
<1>3. /\ fstab' \subseteq Paths
      /\ job.op = "create" => job.target \in fstab'
      /\ job.op = "delete" => fstab' \cap Controlled = {}
  BY <1>0, <1>1 DEF Fstab, CreateFstab, EnsureFstab, UpdateFstab, RemoveFstab, TypeOK, Jobs
<1>4. /\ size' \in [Paths -> Nat] /\ signed' \subseteq Paths /\ user' \subseteq UserFiles
      /\ swaps' \in [1..Slots -> Paths \cup {None}]
  BY <1>0, <1>2 DEF TypeOK
<1>5. job.on # None => /\ size'[job.on] > 0 /\ job.on \in signed'
                       /\ \E i \in 1..Slots : swaps'[i] = job.on
  BY <1>0, <1>2, LateFacts
<1>6. QED
  BY <1>0, <1>2, <1>3, <1>4, <1>5, GoesOn DEF Steps

-----------------------------------------------------------------------------
(* How a script ends, and the end of the agent or the host.                  *)

LEMMA ScriptFailsStep == ASSUME SwapInv, ScriptFails PROVE SwapInv'
<1>1. TypeOK /\ job # None /\ Fail(job.op, "failed") /\ UNCHANGED host
  BY DEF SwapInv, ScriptFails
<1>2. PICK op \in {"create", "resize", "delete"} : op = job.op
  BY <1>1, JobFacts DEF Jobs
<1>3. QED
  BY <1>1, <1>2, RefuseStep

LEMMA FstabFailsStep == ASSUME SwapInv, FstabFails PROVE SwapInv'
<1>1. TypeOK /\ job # None /\ Fail(job.op, "failed") /\ UNCHANGED fstab
  BY DEF SwapInv, FstabFails, Running
<1>2. PICK op \in {"create", "resize", "delete"} : op = job.op
  BY <1>1, JobFacts DEF Jobs
<1>3. PICK on : on = job.on
  OBVIOUS
<1>4. CASE Removed(on) /\ swaps' \in {swaps, SwitchedOff(on)}
  <2>1. size' \in [Paths -> Nat] /\ signed' \subseteq Paths /\ user' \subseteq UserFiles
    BY <1>1, <1>4, RemovedFacts
  <2>2. swaps' \in [1..Slots -> Paths \cup {None}] /\ fstab' \subseteq Paths
    BY <1>1, <1>4, SwitchedOffFacts DEF TypeOK
  <2>3. QED
    BY <1>1, <1>2, <2>1, <2>2, FailStep
<1>5. CASE UNCHANGED <<size, signed, user, swaps>>
  BY <1>1, <1>2, <1>5, RefuseStep DEF host
<1>6. QED
  BY <1>3, <1>4, <1>5 DEF FstabFails

LEMMA VerifyStep == ASSUME SwapInv, Verify PROVE SwapInv'
<1>1. /\ TypeOK /\ ScriptFits /\ NewSwapFirst /\ FstabBeforeVerify
      /\ job # None /\ job.step = "verify" /\ Running("verify") /\ UNCHANGED host
  BY DEF SwapInv, Verify, Running
<1>2. PICK op \in {"create", "resize", "delete"} : op = job.op
  BY <1>1, JobFacts DEF Jobs
<1>3. CASE Fail(job.op, "failed")
  BY <1>1, <1>2, <1>3, RefuseStep
<1>4. CASE Verified /\ Succeed(job.op, job.target)
  <2>1. PICK t \in Targets : t = job.target
    BY <1>1, JobFacts
  <2>2. t \in Paths /\ t # None
    BY <2>1, BuiltIsPath
  <2>3. job' = None /\ last' = [op |-> op, target |-> t, why |-> "ok"]
    BY <1>2, <1>4, <2>1 DEF Succeed
  <2>4. last' \in Answers /\ last'.op = op /\ last'.target = t
    BY <2>3 DEF Answers
  <2>5. UNCHANGED <<size, signed, user, swaps, fstab>>
    BY <1>1 DEF host
  <2>6. ASSUME op = "create" PROVE t \in Active /\ Names(t) /\ size[t] > 0 /\ t \in signed
    <3>1. job.on = t /\ Names(t)
      BY <1>1, <1>2, <2>1, <2>6 DEF ScriptFits, FstabBeforeVerify
    <3>2. QED
      BY <1>1, <2>2, <3>1 DEF NewSwapFirst
  <2>7. CreatedSwapPersists'
    BY <2>4, <2>5, <2>6 DEF CreatedSwapPersists, Answered, Persists, Active, Names
  <2>8. ASSUME op = "delete" PROVE fstab \cap Controlled = {}
    BY <1>1, <1>2, <2>8 DEF FstabBeforeVerify
  <2>9. DeleteLeavesNoDanglingEntry'
    BY <2>4, <2>5, <2>8 DEF DeleteLeavesNoDanglingEntry, Answered
  <2>10. /\ size' \in [Paths -> Nat] /\ signed' \subseteq Paths /\ user' \subseteq UserFiles
         /\ swaps' \in [1..Slots -> Paths \cup {None}] /\ fstab' \subseteq Paths
    BY <1>1, <2>5 DEF TypeOK
  <2>11. QED
    BY <2>3, <2>4, <2>7, <2>9, <2>10, EndStep
<1>5. QED
  BY <1>3, <1>4 DEF Verify

\* The agent or the host goes down: nobody is answered.
LEMMA DownStep ==
  ASSUME SwapInv, job' = None, last' = None, UNCHANGED <<size, signed, user, fstab>>,
         swaps' \in [1..Slots -> Paths \cup {None}]
  PROVE  SwapInv'
<1>1. CreatedSwapPersists' /\ DeleteLeavesNoDanglingEntry'
  BY DEF CreatedSwapPersists, DeleteLeavesNoDanglingEntry, Answered
<1>2. size' \in [Paths -> Nat] /\ signed' \subseteq Paths /\ user' \subseteq UserFiles
      /\ fstab' \subseteq Paths
  BY DEF SwapInv, TypeOK
<1>3. QED
  BY <1>1, <1>2, EndStep

\* What a boot switches on are paths of fstab.
LEMMA BootedIsTyped ==
  ASSUME fstab \subseteq Paths, NEW s \in Booted
  PROVE  s \in [1..Slots -> Paths \cup {None}]
BY DEF Booted

LEMMA InitStep == ASSUME Init PROVE SwapInv
<1>1. user \subseteq UserFiles /\ signed = {} /\ job = None /\ last = None
  BY DEF Init
<1>2. size \in [Paths -> Nat]
  BY DEF Init
<1>3. fstab \subseteq Paths
  BY PathsAssumption DEF Init
<1>4. swaps \in [1..Slots -> Paths \cup {None}]
  BY <1>3, BootedIsTyped DEF Init
<1>5. TypeOK
  BY <1>1, <1>2, <1>3, <1>4 DEF TypeOK
<1>6. /\ ScriptFits /\ NewSwapFirst /\ FstabBeforeVerify
      /\ CreatedSwapPersists /\ DeleteLeavesNoDanglingEntry
  BY <1>1 DEF ScriptFits, NewSwapFirst, FstabBeforeVerify, Running,
              CreatedSwapPersists, DeleteLeavesNoDanglingEntry, Answered
<1>7. QED
  BY <1>1, <1>5, <1>6 DEF SwapInv

LEMMA StutterStep == ASSUME SwapInv, UNCHANGED vars PROVE SwapInv'
<1>1. UNCHANGED <<size, signed, user, swaps, fstab, job, last>>
  BY DEF vars, host
<1>2. TypeOK' /\ ScriptFits' /\ NewSwapFirst' /\ FstabBeforeVerify'
  BY <1>1 DEF SwapInv, TypeOK, ScriptFits, NewSwapFirst, FstabBeforeVerify, Running, Names, Active
<1>3. CreatedSwapPersists' /\ DeleteLeavesNoDanglingEntry' /\ (last' # None => job' = None)
  BY <1>1 DEF SwapInv, CreatedSwapPersists, DeleteLeavesNoDanglingEntry, Answered, Persists,
              Names, Active
<1>4. QED
  BY <1>2, <1>3 DEF SwapInv

\* The invariant of a swap request: it follows the script through every failure and
\* every end of the agent or the host (swap.go:149, 200, 316).
THEOREM SwapInvariant == Spec => []SwapInv
<1>1. Init => SwapInv
  BY InitStep
<1>2. SwapInv /\ [Next]_vars => SwapInv'
  <2> SUFFICES ASSUME SwapInv, [Next]_vars PROVE SwapInv'
    OBVIOUS
  <2>1. ASSUME NEW t \in Targets, Delete(t) PROVE SwapInv'
    BY <2>1, DeleteStep
  <2>2. ASSUME NEW t \in Targets, NEW mb \in Sizes, Create(t, mb) PROVE SwapInv'
    BY <2>2, CreateAsStep DEF Create
  <2>3. ASSUME NEW t \in Targets, NEW mb \in Sizes, Resize(t, mb) PROVE SwapInv'
    BY <2>3, ResizeStep
  <2>4. CASE Allocate
    BY <2>4, AllocateStep
  <2>5. CASE Mkswap
    BY <2>5, MkswapStep
  <2>6. CASE Swapon
    BY <2>6, SwaponStep
  <2>7. CASE Swapoff
    BY <2>7, SwapoffStep
  <2>8. CASE Rm
    BY <2>8, RmStep
  <2>9. CASE Exit
    BY <2>9, ExitStep
  <2>10. CASE ScriptFails
    BY <2>10, ScriptFailsStep
  <2>11. CASE Fstab
    BY <2>11, FstabStep
  <2>12. CASE FstabFails
    BY <2>12, FstabFailsStep
  <2>13. CASE Verify
    BY <2>13, VerifyStep
  <2>14. CASE AgentDies
    <3>1. swaps' \in [1..Slots -> Paths \cup {None}]
      BY <2>14 DEF SwapInv, TypeOK, AgentDies, host
    <3>2. QED
      BY <2>14, <3>1, DownStep DEF AgentDies, host
  <2>15. CASE HostReboots
    <3>1. swaps' \in [1..Slots -> Paths \cup {None}]
      BY <2>15, BootedIsTyped DEF SwapInv, TypeOK, HostReboots
    <3>2. QED
      BY <2>15, <3>1, DownStep DEF HostReboots
  <2>16. CASE UNCHANGED vars
    BY <2>16, StutterStep
  <2>17. QED
    BY <2>1, <2>2, <2>3, <2>4, <2>5, <2>6, <2>7, <2>8, <2>9, <2>10, <2>11, <2>12, <2>13, <2>14,
       <2>15, <2>16 DEF Next
<1>3. QED
  BY <1>1, <1>2, PTL DEF Spec

\* The host and the request keep their shape: a request builds only at a target or
\* next to it and retires only a target or a controlled file (swap.go:434).
THEOREM SwapTypeTheorem == Spec => []TypeOK
<1>1. SwapInv => TypeOK
  BY DEF SwapInv
<1>2. QED
  BY <1>1, SwapInvariant, PTL

\* A create that was answered ok comes back after a reboot (swap.go:180).
THEOREM PersistsTheorem == Spec => []CreatedSwapPersists
<1>1. SwapInv => CreatedSwapPersists
  BY DEF SwapInv
<1>2. QED
  BY <1>1, SwapInvariant, PTL

\* A delete leaves no entry to a file that is gone (swap.go:405).
THEOREM NoDanglingTheorem == Spec => []DeleteLeavesNoDanglingEntry
<1>1. SwapInv => DeleteLeavesNoDanglingEntry
  BY DEF SwapInv
<1>2. QED
  BY <1>1, SwapInvariant, PTL

-----------------------------------------------------------------------------
(* What stays on.                                                           *)

\* A step that leaves the slots and every entry of a partition as they are.
LEMMA SameSwapsStayOn ==
  ASSUME UNCHANGED swaps, \A d \in Devices : d \in fstab => d \in fstab'
  PROVE  /\ Active # {} => Active' # {}
         /\ \A d \in Devices : (d \in Active => d \in Active') /\ (Names(d) => Names(d)')
BY DEF Active, Names

\* A request that builds or retires leaves the partitions alone, and a resize has its
\* new swap on when the old one goes.
LEMMA StaysOnStep ==
  ASSUME SwapInv, Next, ~HostReboots
  PROVE  /\ job # None /\ job.op = "resize" /\ Active # {} => Active' # {}
         /\ \A d \in Devices : (d \in Active => d \in Active') /\ (Names(d) => Names(d)')
<1> DEFINE Goal == /\ job # None /\ job.op = "resize" /\ Active # {} => Active' # {}
                   /\ \A d \in Devices : (d \in Active => d \in Active') /\ (Names(d) => Names(d)')
<1>0. TypeOK /\ Devices \subseteq Paths
  BY PathsAssumption DEF SwapInv
<1>1. ASSUME UNCHANGED swaps, \A d \in Devices : d \in fstab => d \in fstab' PROVE Goal
  BY <1>1, SameSwapsStayOn
<1>2. ASSUME NEW t \in Targets, Delete(t) PROVE UNCHANGED <<swaps, fstab>>
  BY <1>2 DEF Delete, Begin, Refuse, host
<1>3. ASSUME NEW t \in Targets, NEW mb \in Sizes, Create(t, mb) \/ Resize(t, mb)
      PROVE  UNCHANGED <<swaps, fstab>>
  BY <1>3 DEF Create, Resize, CreateAs, Switch, Begin, Refuse, host
<1>4. CASE Allocate \/ Mkswap \/ Rm \/ Exit \/ ScriptFails \/ Verify \/ AgentDies
  <2>1. UNCHANGED <<swaps, fstab>>
    BY <1>4 DEF Allocate, Mkswap, Rm, Exit, ScriptFails, Verify, AgentDies, host
  <2>2. QED
    BY <1>1, <2>1
<1>5. CASE Swapon
  <2>1. job # None /\ job.step = "swapon" /\ UNCHANGED fstab
    BY <1>5 DEF Swapon, Running
  <2>2. job.on \in Paths
    BY <1>0, <2>1, JobFacts DEF SwapInv, ScriptFits
  <2>3. \A q \in Active : \E i \in 1..Slots : swaps'[i] = q
    BY <1>0, <1>5, <2>2, SwitchOnFacts DEF Swapon
  <2>4. Active \subseteq Active'
    BY <2>3 DEF Active
  <2>5. QED
    BY <2>1, <2>4 DEF Names
<1>6. CASE Swapoff
  <2>1. job # None /\ job.step = "swapoff" /\ UNCHANGED fstab /\ swaps' = SwitchedOff(job.off)
    BY <1>6 DEF Swapoff, Running
  <2>2. \A q \in Active : q # job.off => q \in Active'
    <3>1. PICK off : off = job.off
      OBVIOUS
    <3>2. \A q \in Active : q # off => \E i \in 1..Slots : swaps'[i] = q
      BY <1>0, <2>1, <3>1, SwitchedOffFacts
    <3>3. QED
      BY <3>1, <3>2 DEF Active
  <2>3. job.off \notin Devices
    BY <1>0, <2>1, JobFacts
  <2>4. ASSUME job.op = "resize" PROVE Active' # {}
    <3>1. job.on # None
      BY <2>1, <2>4 DEF SwapInv, ScriptFits
    <3>2. job.on \in Active /\ job.on # job.off
      BY <2>1, <3>1, RetiringFacts
    <3>3. QED
      BY <2>2, <3>2
  <2>5. QED
    BY <2>1, <2>2, <2>3, <2>4 DEF Names
<1>7. CASE Fstab
  <2>1. job # None /\ UNCHANGED swaps
    BY <1>7 DEF Fstab, Running
  <2>2. job.off \notin Devices /\ Devices \cap Controlled = {}
    BY <1>0, <2>1, JobFacts, PathsAssumption
  <2>3. \A d \in Devices : d \in fstab => d \in fstab'
    BY <1>7, <2>2 DEF Fstab, CreateFstab, EnsureFstab, UpdateFstab, RemoveFstab
  <2>4. QED
    BY <1>1, <2>1, <2>3
<1>8. CASE FstabFails
  <2>1. job # None /\ job.step = "fstab" /\ UNCHANGED fstab
    BY <1>8 DEF FstabFails, Running
  <2>2. CASE job.op = "create"
    <3>1. job.on = job.target /\ job.target \in Targets
      BY <1>0, <2>1, <2>2, JobFacts DEF SwapInv, ScriptFits
    <3>2. PICK on : on = job.on
      OBVIOUS
    <3>3. on \notin Devices /\ swaps' \in {swaps, SwitchedOff(on)}
      BY <1>8, <2>2, <3>1, <3>2, BuiltIsPath DEF FstabFails
    <3>4. \A q \in Active : q # on => \E i \in 1..Slots : swaps'[i] = q
      BY <1>0, <3>3, SwitchedOffFacts DEF Active
    <3>5. \A q \in Active : q # on => q \in Active'
      BY <3>4 DEF Active
    <3>6. QED
      BY <2>1, <2>2, <3>3, <3>5 DEF Names
  <2>3. CASE job.op # "create"
    BY <1>1, <1>8, <2>1, <2>3 DEF FstabFails
  <2>4. QED
    BY <2>2, <2>3
<1>9. Goal
  BY <1>1, <1>2, <1>3, <1>4, <1>5, <1>6, <1>7, <1>8 DEF Next
<1>10. QED
  BY <1>9

\* A resize never passes through a moment without swap, and partitions are neither
\* switched off nor forgotten (swap.go:198-199, 228).
THEOREM StaysOnTheorem == Spec => SwapStaysOn
<1> DEFINE A == /\ job # None /\ job.op = "resize" /\ Active # {} /\ ~HostReboots => Active' # {}
                /\ \A d \in Devices : /\ d \in Active /\ ~HostReboots => d \in Active'
                                     /\ Names(d) => Names(d)'
<1>1. SwapInv /\ [Next]_vars => [A]_vars
  <2> SUFFICES ASSUME SwapInv, Next PROVE A
    OBVIOUS
  <2>1. CASE HostReboots
    BY <2>1 DEF HostReboots, Names
  <2>2. CASE ~HostReboots
    BY <2>2, StaysOnStep
  <2>3. QED
    BY <2>1, <2>2
<1>2. QED
  BY <1>1, SwapInvariant, PTL DEF Spec, SwapStaysOn
=============================================================================
