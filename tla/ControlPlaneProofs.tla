------------------------- MODULE ControlPlaneProofs -------------------------
(***************************************************************************)
(* For every set of requests and every lock table: the lock manager's map   *)
(* is always what the handlers in flight hold, operations that share a name *)
(* never run together, nobody gives up another's lock, and the manager,     *)
(* critical section by critical section, implements OpExclusion.  Then, for *)
(* every number of requests and of compose stacks: the handlers' lock table *)
(* keeps apart what it is meant to keep apart, and requests that collide do *)
(* not all turn each other away.                                            *)
(***************************************************************************)
EXTENDS ControlPlane, TLAPS

-----------------------------------------------------------------------------
(* The lock manager, under OpLock's two assumptions: nothing up to          *)
(* Refinement uses ControlPlane's table, so it holds of any table of lists  *)
(* without repetitions.                                                     *)


\* A request's list is a sequence of lock names.
LEMMA WantedType ==
  ASSUME TypeOK, NEW r \in Requests
  PROVE  /\ op[r] \in Ops
         /\ Wanted(r) \in Seq(Locks)
         /\ Len(Wanted(r)) \in Nat
         /\ \A i \in 1..Len(Wanted(r)) : Wanted(r)[i] \in Locks
         /\ \A i, j \in 1..Len(Wanted(r)) : Wanted(r)[i] = Wanted(r)[j] => i = j
         /\ Wanted(r) = <<>> <=> Len(Wanted(r)) = 0
<1>1. op[r] \in Ops
  BY DEF TypeOK
<1>2. Wanted(r) \in Seq(Locks)
  BY <1>1, LockSeqAssumption DEF Wanted
<1>3. QED
  BY <1>1, <1>2, LockSeqAssumption DEF Wanted

\* A request that holds part of its list holds it at positions of the list.
LEMMA OwnedBounds ==
  ASSUME LockInv, NEW r \in Requests
  PROVE  /\ lo[r] \in Nat /\ hi[r] \in Nat
         /\ lo[r] <= hi[r] /\ hi[r] <= Len(Wanted(r))
<1>1. Len(Wanted(r)) \in Nat
  BY WantedType DEF LockInv
<1>2. lo[r] \in Nat /\ hi[r] \in Nat /\ pc[r] \in Steps
  BY DEF LockInv, TypeOK
<1>3. HoldsByStep!(r)
  BY DEF LockInv, HoldsByStep
<1>4. QED
  BY <1>1, <1>2, <1>3 DEF Steps

\* The invariant holds before the first request is served.
LEMMA InitInv == Init => LockInv
<1>1. SUFFICES ASSUME Init PROVE LockInv
  OBVIOUS
<1>2. TypeOK
  BY <1>1 DEF Init, TypeOK, Steps, Answers
<1>3. HeldIsOwned
  <2> SUFFICES ASSUME NEW n \in Locks, NEW r \in Requests
               PROVE  held[n] # r /\ n \notin Owned(r)
    BY DEF HeldIsOwned
  <2>1. held[n] # r
    BY <1>1, FreeAssumption DEF Init
  <2>2. lo[r] = 0 /\ hi[r] = 0
    BY <1>1 DEF Init
  <2>3. QED
    BY <2>1, <2>2 DEF Owned
<1>4. HoldsByStep
  BY <1>1 DEF Init, HoldsByStep
<1>5. QED
  BY <1>2, <1>3, <1>4 DEF LockInv

\* A step that leaves the map and every held range alone keeps HeldIsOwned.
LEMMA QuietStep ==
  ASSUME HeldIsOwned, UNCHANGED <<held, op, lo, hi>>
  PROVE  HeldIsOwned'
BY DEF HeldIsOwned, Owned, Wanted

\* Acquire adds one name to the map and to what the request holds.
LEMMA AcquireInv ==
  ASSUME LockInv, NEW r \in Requests, Acquire(r)
  PROVE  LockInv'
<1> DEFINE n == Wanted(r)[hi[r] + 1]
<1>1. /\ lo[r] = 0 /\ hi[r] \in Nat /\ hi[r] < Len(Wanted(r))
      /\ pc[r] = "acquiring" /\ n \in Locks /\ held[n] = Free
  BY WantedType DEF LockInv, TypeOK, HoldsByStep, Acquire
<1>2. /\ held' = [held EXCEPT ![n] = r] /\ hi' = [hi EXCEPT ![r] = @ + 1]
      /\ pc' = [pc EXCEPT ![r] = IF hi[r] + 1 = Len(Wanted(r)) THEN "running" ELSE @]
      /\ UNCHANGED <<op, lo, answer>>
  BY DEF Acquire
<1>3. TypeOK'
  BY <1>1, <1>2 DEF LockInv, TypeOK, Steps
<1>4. HeldIsOwned'
  <2> SUFFICES ASSUME NEW m \in Locks, NEW q \in Requests
               PROVE  held'[m] = q <=> m \in Owned(q)'
    BY DEF HeldIsOwned
  <2>1. held[m] = q <=> m \in Owned(q)
    BY DEF LockInv, HeldIsOwned
  <2>2. CASE q # r
    <3>1. Owned(q)' = Owned(q)
      BY <1>2, <2>2 DEF Owned, Wanted, LockInv, TypeOK
    <3>2. held'[m] = q <=> held[m] = q
      BY <1>1, <1>2, <2>2, FreeAssumption DEF LockInv, TypeOK
    <3>3. QED
      BY <2>1, <3>1, <3>2
  <2>3. CASE q = r
    <3>1. Owned(r)' = Owned(r) \cup {n}
      BY <1>1, <1>2 DEF Owned, Wanted, LockInv, TypeOK
    <3>2. held'[m] = r <=> held[m] = r \/ m = n
      BY <1>1, <1>2 DEF LockInv, TypeOK
    <3>3. QED
      BY <2>1, <2>3, <3>1, <3>2
  <2>4. QED
    BY <2>2, <2>3
<1>5. HoldsByStep'
  <2> SUFFICES ASSUME NEW q \in Requests
               PROVE  HoldsByStep!(q)'
    BY DEF HoldsByStep
  <2>1. Wanted(q)' = Wanted(q)
    BY <1>2 DEF Wanted
  <2>2. QED
    BY <1>1, <1>2, <2>1, WantedType DEF LockInv, TypeOK, HoldsByStep
<1>6. QED
  BY <1>3, <1>4, <1>5 DEF LockInv

\* Release takes one name out of the map, and it was the request's own.
LEMMA ReleaseInv ==
  ASSUME LockInv, NEW r \in Requests, Release(r)
  PROVE  /\ LockInv'
         /\ held[Wanted(r)[lo[r] + 1]] = r
<1> DEFINE n == Wanted(r)[lo[r] + 1]
<1>1. /\ lo[r] \in Nat /\ hi[r] \in Nat /\ lo[r] < hi[r]
      /\ hi[r] <= Len(Wanted(r)) /\ Len(Wanted(r)) \in Nat
      /\ pc[r] \in {"undoing", "releasing"}
      /\ pc[r] = "undoing" => hi[r] < Len(Wanted(r))
      /\ pc[r] = "releasing" => hi[r] = Len(Wanted(r))
  BY WantedType DEF LockInv, TypeOK, HoldsByStep, Release
<1>2. n \in Locks /\ n \in Owned(r)
  BY <1>1, WantedType DEF Owned, LockInv
<1>3. held[n] = r
  BY <1>2 DEF LockInv, HeldIsOwned
<1>4. /\ held' = [held EXCEPT ![n] = Free] /\ lo' = [lo EXCEPT ![r] = @ + 1]
      /\ pc' = [pc EXCEPT ![r] = IF lo[r] + 1 = hi[r] THEN "done" ELSE @]
      /\ UNCHANGED <<op, hi, answer>>
  BY DEF Release
<1>5. TypeOK'
  <2>1. lo' \in [Requests -> Nat]
    BY <1>1, <1>4 DEF LockInv, TypeOK
  <2>2. held' \in [Locks -> Requests \cup {Free}]
    BY <1>2, <1>4 DEF LockInv, TypeOK
  <2>3. pc' \in [Requests -> Steps]
    BY <1>4 DEF LockInv, TypeOK, Steps
  <2>4. QED
    BY <1>4, <2>1, <2>2, <2>3 DEF LockInv, TypeOK
<1>6. HeldIsOwned'
  <2> SUFFICES ASSUME NEW m \in Locks, NEW q \in Requests
               PROVE  held'[m] = q <=> m \in Owned(q)'
    BY DEF HeldIsOwned
  <2>1. held[m] = q <=> m \in Owned(q)
    BY DEF LockInv, HeldIsOwned
  <2>2. held'[m] = q <=> held[m] = q /\ m # n
    BY <1>2, <1>4, FreeAssumption DEF LockInv, TypeOK
  <2>3. CASE q # r
    <3>1. Owned(q)' = Owned(q)
      BY <1>4, <2>3 DEF Owned, Wanted, LockInv, TypeOK
    <3>2. QED
      BY <1>3, <2>1, <2>2, <2>3, <3>1
  <2>4. CASE q = r
    <3>1. Owned(r)' = {Wanted(r)[i] : i \in (lo[r] + 2)..hi[r]}
      <4>1. lo'[r] + 1 = lo[r] + 2 /\ hi'[r] = hi[r] /\ Wanted(r)' = Wanted(r)
        BY <1>1, <1>4 DEF Wanted, LockInv, TypeOK
      <4>2. (lo'[r] + 1)..hi'[r] = (lo[r] + 2)..hi[r]
        BY <4>1
      <4>3. Owned(r)' = {Wanted(r)'[i] : i \in (lo'[r] + 1)..hi'[r]}
        BY DEF Owned
      <4>4. QED
        BY <4>1, <4>2, <4>3
    <3>2. \A i \in (lo[r] + 2)..hi[r] : Wanted(r)[i] # n
      <4> TAKE i \in (lo[r] + 2)..hi[r]
      <4>1. /\ i \in 1..Len(Wanted(r)) /\ lo[r] + 1 \in 1..Len(Wanted(r))
            /\ i # lo[r] + 1
        BY <1>1
      <4>2. QED
        BY <4>1, WantedType DEF LockInv
    <3>3. Owned(r) = {n} \cup {Wanted(r)[i] : i \in (lo[r] + 2)..hi[r]}
      BY <1>1 DEF Owned
    <3>4. m \in Owned(r)' <=> m \in Owned(r) /\ m # n
      BY <3>1, <3>2, <3>3
    <3>5. QED
      BY <2>1, <2>2, <2>4, <3>4
  <2>5. QED
    BY <2>3, <2>4
<1>7. HoldsByStep'
  <2> SUFFICES ASSUME NEW q \in Requests
               PROVE  HoldsByStep!(q)'
    BY DEF HoldsByStep
  <2>1. Wanted(q)' = Wanted(q)
    BY <1>4 DEF Wanted
  <2>2. QED
    BY <1>1, <1>4, <2>1, WantedType DEF LockInv, TypeOK, HoldsByStep
<1>8. QED
  BY <1>3, <1>5, <1>6, <1>7 DEF LockInv

\* The steps that only move a handler on keep the invariant.
LEMMA MoveInv ==
  ASSUME LockInv, NEW r \in Requests,
         Decode(r) \/ Refuse(r) \/ AcquireBusy(r) \/ Finish(r)
  PROVE  LockInv'
<1>1. UNCHANGED <<held, op, lo, hi>>
  BY DEF Decode, Refuse, AcquireBusy, Finish
<1>2. TypeOK'
  BY DEF LockInv, TypeOK, Steps, Answers, Decode, Refuse, AcquireBusy, Finish
<1>3. HeldIsOwned'
  BY <1>1, QuietStep DEF LockInv
<1>4. HoldsByStep'
  <2> SUFFICES ASSUME NEW q \in Requests
               PROVE  HoldsByStep!(q)'
    BY DEF HoldsByStep
  <2>1. Wanted(q)' = Wanted(q)
    BY <1>1 DEF Wanted
  <2>2. QED
    BY <1>1, <2>1, WantedType
    DEF LockInv, TypeOK, HoldsByStep, Decode, Refuse, AcquireBusy, Finish
<1>5. QED
  BY <1>2, <1>3, <1>4 DEF LockInv

\* Every step keeps the invariant.
LEMMA NextInv == LockInv /\ [Next]_vars => LockInv'
<1> SUFFICES ASSUME LockInv, [Next]_vars PROVE LockInv'
  OBVIOUS
<1>1. ASSUME NEW r \in Requests, LockStep(r) \/ Refuse(r) \/ Finish(r)
      PROVE  LockInv'
  BY <1>1, AcquireInv, ReleaseInv, MoveInv DEF LockStep
<1>2. CASE UNCHANGED vars
  BY <1>2 DEF vars, LockInv, TypeOK, HeldIsOwned, HoldsByStep, Owned, Wanted
<1>3. QED
  BY <1>1, <1>2 DEF Next, Idle

\* The manager's map is exactly what the handlers in flight hold (oplock.go).
THEOREM LockInvariant == Spec => []LockInv
BY InitInv, NextInv, PTL DEF Spec

\* Two running operations share no lock name, whatever the lock table.
LEMMA InvExcludes == LockInv => MutualExclusion
<1> SUFFICES ASSUME LockInv, NEW r \in Requests, NEW q \in Requests, r # q,
                    pc[r] = "running", pc[q] = "running",
                    NEW n \in Range(Wanted(r)) \cap Range(Wanted(q))
             PROVE  FALSE
  BY DEF MutualExclusion
<1>1. n \in Locks
  BY WantedType DEF LockInv, Range
<1>2. n \in Owned(r) /\ n \in Owned(q)
  BY WantedType DEF LockInv, HoldsByStep, Owned, Range
<1>3. held[n] = r /\ held[n] = q
  BY <1>1, <1>2 DEF LockInv, HeldIsOwned
<1>4. QED
  BY <1>3

\* Dangerous operations that name a common lock never run together.
THEOREM Exclusion == Spec => []MutualExclusion
BY LockInvariant, InvExcludes, PTL

\* One step gives a name up only from the request that held it.
LEMMA StepReleasesOwn ==
  ASSUME LockInv, [Next]_vars
  PROVE  \A n \in Locks, r \in Requests :
           held[n] = r /\ held'[n] # r
             => held'[n] = Free /\ pc[r] \in {"undoing", "releasing"}
<1> SUFFICES ASSUME NEW n \in Locks, NEW r \in Requests, held[n] = r, held'[n] # r
             PROVE  held'[n] = Free /\ pc[r] \in {"undoing", "releasing"}
  OBVIOUS
<1>1. held' # held
  OBVIOUS
<1>2. PICK q \in Requests : Acquire(q) \/ Release(q)
  BY <1>1 DEF Next, LockStep, Decode, AcquireBusy, Refuse, Finish, Idle, vars
<1>3. CASE Acquire(q)
  BY <1>3, WantedType, FreeAssumption DEF Acquire, LockInv, TypeOK, HoldsByStep
<1>4. CASE Release(q)
  <2>1. held[Wanted(q)[lo[q] + 1]] = q
    BY <1>4, ReleaseInv
  <2>2. Wanted(q)[lo[q] + 1] = n
    BY <1>1, <1>4 DEF Release, LockInv, TypeOK
  <2>3. QED
    BY <1>4, <2>1, <2>2 DEF Release, LockInv, TypeOK
<1>5. QED
  BY <1>2, <1>3, <1>4

\* Release deletes by name without looking at the owner, and yet no request
\* ever deletes the entry of another.
THEOREM ReleasesOwn == Spec => OnlyHolderReleases
<1>1. LockInv /\ [Next]_vars
        => [\A n \in Locks, r \in Requests :
              held[n] = r /\ held'[n] # r
                => held'[n] = Free /\ pc[r] \in {"undoing", "releasing"}]_vars
  BY StepReleasesOwn
<1>2. QED
  BY <1>1, LockInvariant, PTL DEF Spec, OnlyHolderReleases

-----------------------------------------------------------------------------
\* The phase of every handler step.
LEMMA PhaseValues ==
  /\ PhaseOf["received"] = "new"      /\ "received" \in Steps
  /\ PhaseOf["acquiring"] = "trying"  /\ "acquiring" \in Steps
  /\ PhaseOf["running"] = "running"   /\ "running" \in Steps
  /\ PhaseOf["undoing"] = "leaving"   /\ "undoing" \in Steps
  /\ PhaseOf["releasing"] = "leaving" /\ "releasing" \in Steps
  /\ PhaseOf["done"] = "ended"        /\ "done" \in Steps
BY DEF PhaseOf, Steps

\* A handler that goes from step s to step t makes the phase move OpExclusion sees.
LEMMA PhaseMove ==
  ASSUME TypeOK, NEW r \in Requests, NEW s \in Steps,
         pc' = [pc EXCEPT ![r] = s], op' = op
  PROVE  Promise!Move(r, {PhaseOf[pc[r]]}, PhaseOf[s])
BY DEF TypeOK, Promise!Move

\* What OpExclusion calls a conflict is a common lock name.
LEMMA ConflictIsCommonName ==
  ASSUME TypeOK, NEW r \in Requests, NEW q \in Requests
  PROVE  Promise!Conflict(r, q) <=> Range(Wanted(r)) \cap Range(Wanted(q)) # {}
BY DEF TypeOK, Promise!Conflict, Wanted

\* A name that is taken is taken by another request that is still alive.
LEMMA TakenByAlive ==
  ASSUME LockInv, NEW r \in Requests, pc[r] = "acquiring",
         held[Wanted(r)[hi[r] + 1]] # Free
  PROVE  \E q \in Requests \ {r} :
           /\ pc[q] \in {"acquiring", "undoing", "running", "releasing"}
           /\ Range(Wanted(r)) \cap Range(Wanted(q)) # {}
<1> DEFINE n == Wanted(r)[hi[r] + 1]
<1>1. /\ hi[r] \in Nat /\ hi[r] + 1 \in 1..Len(Wanted(r)) /\ lo[r] = 0
      /\ n \in Locks
  BY WantedType DEF LockInv, TypeOK, HoldsByStep
<1>2. PICK q \in Requests : held[n] = q
  BY <1>1 DEF LockInv, TypeOK
<1>3. n \in Owned(q)
  BY <1>1, <1>2 DEF LockInv, HeldIsOwned
<1>4. PICK i \in (lo[q] + 1)..hi[q] : n = Wanted(q)[i]
  BY <1>3 DEF Owned
<1>5. i \in 1..Len(Wanted(q)) /\ lo[q] < hi[q]
  BY <1>4, OwnedBounds, WantedType DEF LockInv
<1>6. q # r
  <2>1. ASSUME q = r PROVE FALSE
    <3>1. i \in 1..Len(Wanted(r)) /\ i # hi[r] + 1 /\ Wanted(r)[i] = Wanted(r)[hi[r] + 1]
      BY <1>1, <1>4, <1>5, <2>1
    <3>2. QED
      BY <1>1, <3>1, WantedType DEF LockInv
  <2>2. QED
    BY <2>1
<1>7. pc[q] \in {"acquiring", "undoing", "running", "releasing"}
  <2>1. lo[q] \in Nat /\ hi[q] \in Nat /\ pc[q] \in Steps
    BY DEF LockInv, TypeOK
  <2>2. HoldsByStep!(q)
    BY DEF LockInv, HoldsByStep
  <2>3. QED
    BY <1>5, <2>1, <2>2 DEF Steps
<1>8. n \in Range(Wanted(r)) /\ n \in Range(Wanted(q))
  BY <1>1, <1>4, <1>5 DEF Range
<1>9. QED
  BY <1>6, <1>7, <1>8

\* A request enters its operation only while nothing it conflicts with runs.
LEMMA StartAllowed ==
  ASSUME LockInv, LockInv', op' = op, NEW r \in Requests, NEW s \in {"received", "acquiring"},
         pc[r] = s, pc' = [pc EXCEPT ![r] = "running"]
  PROVE  Promise!Start(r)
<1>1. TypeOK /\ MutualExclusion'
  <2>1. LockInv' => MutualExclusion'
    BY InvExcludes, PTL
  <2>2. QED
    BY <2>1 DEF LockInv
<1>2. Promise!Move(r, {PhaseOf[s]}, "running")
  BY <1>1, PhaseMove, PhaseValues
<1>3. ASSUME NEW q \in Requests \ {r}, PhaseOf[pc[q]] = "running"
      PROVE  ~Promise!Conflict(r, q)
  <2>1. pc[q] = "running"
    BY <1>1, <1>3 DEF TypeOK, Steps, PhaseOf
  <2>2. pc'[q] = "running" /\ pc'[r] = "running"
    BY <1>1, <2>1 DEF TypeOK
  <2>3. Range(Wanted(r)') \cap Range(Wanted(q)') = {}
    BY <1>1, <2>2 DEF MutualExclusion, Range
  <2>4. Wanted(r)' = Wanted(r) /\ Wanted(q)' = Wanted(q)
    BY DEF Wanted
  <2>5. QED
    BY <1>1, <2>3, <2>4, ConflictIsCommonName
<1>4. Promise!Move(r, {"new", "trying"}, "running")
  BY <1>2 DEF Promise!Move, PhaseOf
<1>5. QED
  BY <1>3, <1>4 DEF Promise!Start

\* A request is told "busy" only because of a live request it conflicts with.
LEMMA TurnAwayAllowed ==
  ASSUME LockInv, NEW r \in Requests, AcquireBusy(r)
  PROVE  Promise!TurnAway(r)
<1>1. TypeOK /\ pc[r] = "acquiring"
  BY DEF LockInv, AcquireBusy
<1>2. PICK q \in Requests \ {r} :
        /\ pc[q] \in {"acquiring", "undoing", "running", "releasing"}
        /\ Range(Wanted(r)) \cap Range(Wanted(q)) # {}
  BY TakenByAlive DEF AcquireBusy
<1>3. Promise!Alive(q) /\ Promise!Conflict(r, q)
  BY <1>1, <1>2, ConflictIsCommonName DEF Promise!Alive, PhaseOf
<1>4. CASE hi[r] = 0
  <2>1. Promise!Move(r, {"trying"}, "ended")
    BY <1>1, <1>4, PhaseMove, PhaseValues DEF AcquireBusy
  <2>2. QED
    BY <1>3, <2>1 DEF Promise!TurnAway
<1>5. CASE hi[r] # 0
  <2>1. Promise!Move(r, {"trying"}, "leaving")
    BY <1>1, <1>5, PhaseMove, PhaseValues DEF AcquireBusy
  <2>2. QED
    BY <1>3, <2>1 DEF Promise!TurnAway
<1>6. QED
  BY <1>4, <1>5

\* Every step of the lock manager is a step of OpExclusion or none.
LEMMA StepRefines ==
  ASSUME LockInv, LockInv', [Next]_vars
  PROVE  [Promise!Next]_(Promise!vars)
<1>0. TypeOK
  BY DEF LockInv
<1>1. CASE UNCHANGED <<pc, op>>
  BY <1>1 DEF Promise!vars
<1>2. ASSUME NEW r \in Requests, Decode(r)
      PROVE  Promise!Next
  <2>1. CASE Wanted(r) = <<>>
    BY <1>2, <2>1, StartAllowed DEF Decode, Promise!Next
  <2>2. CASE Wanted(r) # <<>>
    BY <1>0, <1>2, <2>2, PhaseMove, PhaseValues DEF Decode, Promise!Next, Promise!Try
  <2>3. QED
    BY <2>1, <2>2
<1>3. ASSUME NEW r \in Requests, Refuse(r)
      PROVE  Promise!Next
  BY <1>0, <1>3, PhaseMove, PhaseValues DEF Refuse, Promise!Next, Promise!Refuse
<1>4. ASSUME NEW r \in Requests, Acquire(r)
      PROVE  Promise!Next \/ UNCHANGED <<pc, op>>
  <2>1. CASE hi[r] + 1 = Len(Wanted(r))
    BY <1>4, <2>1, StartAllowed DEF Acquire, Promise!Next
  <2>2. CASE hi[r] + 1 # Len(Wanted(r))
    BY <1>0, <1>4, <2>2 DEF Acquire, TypeOK
  <2>3. QED
    BY <2>1, <2>2
<1>5. ASSUME NEW r \in Requests, AcquireBusy(r)
      PROVE  Promise!Next
  BY <1>5, TurnAwayAllowed DEF Promise!Next
<1>6. ASSUME NEW r \in Requests, Finish(r)
      PROVE  Promise!Next
  <2>1. CASE Wanted(r) = <<>>
    <3>1. Promise!Move(r, {"running"}, "ended")
      BY <1>0, <1>6, <2>1, PhaseMove, PhaseValues DEF Finish
    <3>2. QED
      BY <3>1 DEF Promise!Next, Promise!Finish
  <2>2. CASE Wanted(r) # <<>>
    <3>1. Promise!Move(r, {"running"}, "leaving")
      BY <1>0, <1>6, <2>2, PhaseMove, PhaseValues DEF Finish
    <3>2. QED
      BY <3>1 DEF Promise!Next, Promise!Finish
  <2>3. QED
    BY <2>1, <2>2
<1>7. ASSUME NEW r \in Requests, Release(r)
      PROVE  Promise!Next \/ UNCHANGED <<pc, op>>
  <2>1. CASE lo[r] + 1 = hi[r]
    <3>1. Promise!Move(r, {"leaving"}, "ended")
      BY <1>0, <1>7, <2>1, PhaseMove, PhaseValues DEF Release
    <3>2. QED
      BY <3>1 DEF Promise!Next, Promise!Leave
  <2>2. CASE lo[r] + 1 # hi[r]
    BY <1>0, <1>7, <2>2 DEF Release, TypeOK
  <2>3. QED
    BY <2>1, <2>2
<1>8. QED
  BY <1>1, <1>2, <1>3, <1>4, <1>5, <1>6, <1>7 DEF Next, LockStep, Idle, vars

\* The lock manager implements OpExclusion for every lock table: operations
\* that share a name exclude each other, and OPERATION_IN_PROGRESS is never
\* answered without a conflicting request that is still alive.
THEOREM Refinement == Spec => ImplementsExclusion
<1>1. Init => Promise!Init
  BY DEF Init, PhaseOf, Promise!Init
<1>2. LockInv /\ LockInv' /\ [Next]_vars => [Promise!Next]_(Promise!vars)
  BY StepRefines
<1>3. QED
  BY <1>1, <1>2, LockInvariant, PTL DEF Spec, ImplementsExclusion, Promise!Spec


-----------------------------------------------------------------------------
(* The table.                                                               *)

\* The names of a list come in the order of their rank.
Ascending(s) == \A i, j \in 1..Len(s) : i < j => Rank(s[i]) < Rank(s[j])

AscendingTable(f) == \A o \in DOMAIN f : Ascending(f[o])

\* What a joined table holds comes from one of the two, and from the first where both
\* have it.
LEMMA JoinFacts ==
  ASSUME NEW f, NEW g
  PROVE  /\ DOMAIN (f ++ g) = DOMAIN f \cup DOMAIN g
         /\ \A o \in DOMAIN f : (f ++ g)[o] = f[o]
         /\ \A o \in DOMAIN g : o \notin DOMAIN f => (f ++ g)[o] = g[o]
<1>1. PICK t : t = [o \in DOMAIN f \cup DOMAIN g |-> IF o \in DOMAIN f THEN f[o] ELSE g[o]]
  OBVIOUS
<1>2. /\ DOMAIN t = DOMAIN f \cup DOMAIN g
      /\ \A o \in DOMAIN f : t[o] = f[o]
      /\ \A o \in DOMAIN g : o \notin DOMAIN f => t[o] = g[o]
  BY <1>1
<1>3. f ++ g = t
  BY <1>1, Zenon DEF ++
<1>4. QED
  BY <1>2, <1>3, Zenon

LEMMA JoinSource ==
  ASSUME NEW f, NEW g
  PROVE  \A o \in DOMAIN (f ++ g) : \/ o \in DOMAIN f /\ (f ++ g)[o] = f[o]
                                    \/ o \in DOMAIN g /\ (f ++ g)[o] = g[o]
<1> DEFINE t == f ++ g
<1>1. /\ DOMAIN t = DOMAIN f \cup DOMAIN g
      /\ \A o \in DOMAIN f : t[o] = f[o]
      /\ \A o \in DOMAIN g : o \notin DOMAIN f => t[o] = g[o]
  BY JoinFacts, Zenon
<1> HIDE DEF t
<1>2. \A o \in DOMAIN t : (o \in DOMAIN f /\ t[o] = f[o]) \/ (o \in DOMAIN g /\ t[o] = g[o])
  BY <1>1
<1>3. QED
  BY <1>2 DEF t

LEMMA JoinAscends ==
  ASSUME NEW f, NEW g, AscendingTable(f), AscendingTable(g)
  PROVE  AscendingTable(f ++ g)
<1> DEFINE t == f ++ g
<1>1. \A o \in DOMAIN t : (o \in DOMAIN f /\ t[o] = f[o]) \/ (o \in DOMAIN g /\ t[o] = g[o])
  BY JoinSource, Zenon
<1> HIDE DEF t
<1>2. AscendingTable(t)
  BY <1>1 DEF AscendingTable
<1>3. QED
  BY <1>2 DEF t

LEMMA NamesDiffer ==
  /\ Rank(LockSwap) = 1 /\ Rank(LockUpdate) = 2 /\ Rank(LockCompose) = 3
  /\ Rank(LockSystem) = 4 /\ Rank(LockDocker) = 5 /\ Rank(LockReboot) = 6
BY DEF Rank, LockSwap, LockUpdate, LockCompose, LockSystem, LockDocker, LockReboot

LEMMA RankIsNat == \A n : Rank(n) \in Nat
BY DEF Rank

LEMMA ShortLists ==
  Ascending(<<>>) /\ \A n : Ascending(<<n>>)
BY DEF Ascending

LEMMA LongLists ==
  /\ Ascending(<<LockUpdate, LockCompose>>)
  /\ Ascending(<<LockSwap, LockUpdate, LockCompose, LockSystem, LockDocker, LockReboot>>)
<1>1. ASSUME NEW s, s = <<LockUpdate, LockCompose>> PROVE Ascending(s)
  <2>1. Len(s) = 2 /\ Rank(s[1]) = 2 /\ Rank(s[2]) = 3
    BY <1>1, NamesDiffer
  <2>2. QED
    BY <2>1 DEF Ascending
<1>2. ASSUME NEW s,
             s = <<LockSwap, LockUpdate, LockCompose, LockSystem, LockDocker, LockReboot>>
      PROVE  Ascending(s)
  <2>1. /\ Len(s) = 6 /\ Rank(s[1]) = 1 /\ Rank(s[2]) = 2 /\ Rank(s[3]) = 3
        /\ Rank(s[4]) = 4 /\ Rank(s[5]) = 5 /\ Rank(s[6]) = 6
    BY <1>2, NamesDiffer
  <2>2. ASSUME NEW i \in 1..6 PROVE Rank(s[i]) = i
    <3>1. i = 1 \/ i = 2 \/ i = 3 \/ i = 4 \/ i = 5 \/ i = 6
      OBVIOUS
    <3>2. QED
      BY <2>1, <3>1
  <2>3. QED
    BY <2>1, <2>2 DEF Ascending
<1>3. QED
  BY <1>1, <1>2

\* Every handler names its locks in the same order.
LEMMA ListsAscend ==
  ASSUME NEW o \in Ops
  PROVE  Ascending(LockSeq[o])
<1>1. /\ AscendingTable(SwapHandlers) /\ AscendingTable(BinaryHandlers)
      /\ AscendingTable(SystemUpdateHandlers) /\ AscendingTable(SystemHandlers)
      /\ AscendingTable(ComposeHandlers) /\ AscendingTable(DockerHandlers)
      /\ AscendingTable(ContainerHandlers) /\ AscendingTable(ImageHandlers)
  BY ShortLists DEF AscendingTable, SwapHandlers, BinaryHandlers, SystemUpdateHandlers,
     SystemHandlers, ComposeHandlers, DockerHandlers, ContainerHandlers, ImageHandlers
<1>2. AscendingTable(ManagedHandlers) /\ AscendingTable(UnlockedHandlers)
  BY ShortLists DEF AscendingTable, ManagedHandlers, UnlockedHandlers
<1>3. AscendingTable(ComposeUpdateHandler) /\ AscendingTable(RebootHandler)
  BY LongLists DEF AscendingTable, ComposeUpdateHandler, RebootHandler
<1>4. AscendingTable(HandlerLocks)
  BY <1>1, <1>2, <1>3, JoinAscends DEF HandlerLocks
<1>5. QED
  BY <1>4, TableAssumption DEF AscendingTable

-----------------------------------------------------------------------------
(* What updates something takes the update lock, and the reboot takes every *)
(* base lock: so in each table, and so in the joined one.                   *)

Named == UpdateOps \cup {"host.reboot"}

LongEnough(f) ==
  /\ \A o \in UpdateOps : o \in DOMAIN f => LockUpdate \in Range(f[o])
  /\ \A o \in {"host.reboot"} : o \in DOMAIN f => BaseLocks \subseteq Range(f[o])

LEMMA JoinIsLong ==
  ASSUME NEW f, NEW g, LongEnough(f), LongEnough(g)
  PROVE  LongEnough(f ++ g)
<1> DEFINE t == f ++ g
<1>1. \A o \in DOMAIN t : (o \in DOMAIN f /\ t[o] = f[o]) \/ (o \in DOMAIN g /\ t[o] = g[o])
  BY JoinSource, Zenon
<1> HIDE DEF t
<1>2. LongEnough(t)
  BY <1>1 DEF LongEnough
<1>3. QED
  BY <1>2 DEF t

\* What is joined to a table that has them does not change them.
LEMMA JoinStaysLong ==
  ASSUME NEW f, NEW g, LongEnough(f), Named \subseteq DOMAIN f
  PROVE  LongEnough(f ++ g) /\ Named \subseteq DOMAIN (f ++ g)
<1> DEFINE t == f ++ g
<1>1. DOMAIN t = DOMAIN f \cup DOMAIN g /\ \A o \in DOMAIN f : t[o] = f[o]
  BY JoinFacts, Zenon
<1> HIDE DEF t
<1>2. \A o \in Named : o \in DOMAIN f /\ o \in DOMAIN t /\ t[o] = f[o]
  BY <1>1
<1>3. LongEnough(t) /\ Named \subseteq DOMAIN t
  BY <1>2 DEF LongEnough, Named
<1>4. QED
  BY <1>3 DEF t

LEMMA JoinHas ==
  ASSUME NEW f, NEW g, NEW s
  PROVE  s \subseteq DOMAIN f \/ s \subseteq DOMAIN g => s \subseteq DOMAIN (f ++ g)
<1>1. DOMAIN (f ++ g) = DOMAIN f \cup DOMAIN g
  BY JoinFacts, Zenon
<1>2. QED
  BY <1>1, Zenon

LEMMA ListsAreLong ==
  ASSUME NEW o \in Ops
  PROVE  /\ o \in UpdateOps => LockUpdate \in Range(LockSeq[o])
         /\ o = "host.reboot" => BaseLocks \subseteq Range(LockSeq[o])
<1> DEFINE list == <<LockSwap, LockUpdate, LockCompose, LockSystem, LockDocker, LockReboot>>
           t == SwapHandlers ++ BinaryHandlers ++ SystemUpdateHandlers ++ SystemHandlers
                  ++ ComposeUpdateHandler ++ ComposeHandlers ++ DockerHandlers
                  ++ ContainerHandlers ++ ImageHandlers ++ RebootHandler
<1>1. LongEnough(BinaryHandlers) /\ LongEnough(SystemUpdateHandlers)
  <2>1. LockUpdate \in Range(<<LockUpdate>>)
    BY DEF Range
  <2>2. QED
    BY <2>1 DEF LongEnough, BinaryHandlers, SystemUpdateHandlers
<1>2. LongEnough(ComposeUpdateHandler)
  <2>1. LockUpdate \in Range(<<LockUpdate, LockCompose>>)
    BY DEF Range
  <2>2. QED
    BY <2>1 DEF LongEnough, ComposeUpdateHandler
<1>3. LongEnough(RebootHandler)
  <2>1. PICK l : l = list
    OBVIOUS
  <2>2. /\ Len(l) = 6 /\ l[1] = LockSwap /\ l[2] = LockUpdate /\ l[3] = LockCompose
        /\ l[4] = LockSystem /\ l[5] = LockDocker /\ l[6] = LockReboot
    BY <2>1
  <2>3. DOMAIN l = 1..6
    BY <2>1
  <2>4. BaseLocks \subseteq Range(l)
    BY <2>2, <2>3 DEF BaseLocks, Range
  <2>5. RebootHandler = [x \in {"host.reboot"} |-> l]
    BY <2>1 DEF RebootHandler
  <2>6. "host.reboot" \notin UpdateOps
    BY DEF UpdateOps, BinaryHandlers, SystemUpdateHandlers
  <2>7. QED
    BY <2>4, <2>5, <2>6 DEF LongEnough
<1>4. /\ LongEnough(SwapHandlers) /\ LongEnough(SystemHandlers) /\ LongEnough(ComposeHandlers)
      /\ LongEnough(DockerHandlers) /\ LongEnough(ContainerHandlers) /\ LongEnough(ImageHandlers)
  BY DEF LongEnough, UpdateOps, BinaryHandlers, SystemUpdateHandlers, SwapHandlers, SystemHandlers,
         ComposeHandlers, DockerHandlers, ContainerHandlers, ImageHandlers
<1>5. LongEnough(t)
  BY <1>1, <1>2, <1>3, <1>4, JoinIsLong
<1>6. Named \subseteq DOMAIN t
  <2>1. /\ DOMAIN BinaryHandlers \subseteq DOMAIN t
        /\ DOMAIN SystemUpdateHandlers \subseteq DOMAIN t
        /\ DOMAIN ComposeUpdateHandler \subseteq DOMAIN t
        /\ DOMAIN RebootHandler \subseteq DOMAIN t
    BY JoinHas
  <2>2. DOMAIN ComposeUpdateHandler = {"compose.update"} /\ DOMAIN RebootHandler = {"host.reboot"}
    BY DEF ComposeUpdateHandler, RebootHandler
  <2> HIDE DEF t
  <2>3. QED
    BY <2>1, <2>2 DEF Named, UpdateOps
<1>7. HandlerLocks = t ++ ManagedHandlers ++ UnlockedHandlers
  BY DEF HandlerLocks
<1> HIDE DEF t
<1>8. LongEnough(t ++ ManagedHandlers) /\ Named \subseteq DOMAIN (t ++ ManagedHandlers)
  BY <1>5, <1>6, JoinStaysLong
<1>9. LongEnough(HandlerLocks)
  BY <1>7, <1>8, JoinStaysLong
<1>10. o \in DOMAIN HandlerLocks /\ LockSeq[o] = HandlerLocks[o]
  BY TableAssumption
<1>11. QED
  BY <1>9, <1>10 DEF LongEnough

-----------------------------------------------------------------------------
(* What runs together.                                                      *)

\* What the handlers of oplock.go's locks are meant to keep apart, their table and
\* the lock manager keep apart.
LEMMA TableExcludes == TypeOK /\ MutualExclusion => DeclaredExclusive
<1> SUFFICES ASSUME TypeOK, MutualExclusion PROVE DeclaredExclusive
  OBVIOUS
<1>1. ASSUME NEW r \in Requests, NEW q \in Requests, r # q,
             pc[r] = "running", pc[q] = "running", NEW n,
             n \in Range(LockSeq[op[r]]), n \in Range(LockSeq[op[q]])
      PROVE  FALSE
  BY <1>1 DEF MutualExclusion, Wanted
<1>2. \A r \in Requests : op[r] \in Ops
  BY DEF TypeOK
<1>3. ~Together(UpdateOps, UpdateOps)
  BY <1>1, <1>2, ListsAreLong DEF Together, Running
<1>4. ~Together({"host.reboot"}, {o \in Ops : Range(LockSeq[o]) \cap BaseLocks # {}})
  <2> SUFFICES ASSUME NEW r \in Requests, NEW q \in Requests, r # q,
                      pc[r] = "running", pc[q] = "running", op[r] = "host.reboot",
                      Range(LockSeq[op[q]]) \cap BaseLocks # {}
               PROVE  FALSE
    BY DEF Together, Running
  <2>1. PICK n : n \in Range(LockSeq[op[q]]) /\ n \in BaseLocks
    OBVIOUS
  <2>2. n \in Range(LockSeq[op[r]])
    BY <1>2, <2>1, ListsAreLong
  <2>3. QED
    BY <1>1, <2>1, <2>2
<1>5. QED
  BY <1>3, <1>4 DEF DeclaredExclusive

\* Binary update, system update and compose update never run together, and nothing
\* that takes a base lock runs beside the reboot (oplock.go:15, handlers_host.go:59).
THEOREM DeclaredTheorem == Spec => []DeclaredExclusive
<1>1. LockInv => TypeOK
  BY DEF LockInv
<1>2. QED
  BY <1>1, TableExcludes, LockInvariant, Exclusion, PTL

-----------------------------------------------------------------------------
(* Who wins.                                                                *)

\* A request's names rise in rank along its list.
LEMMA WantedAscends ==
  ASSUME TypeOK, NEW r \in Requests, NEW i \in 1..Len(Wanted(r)), NEW j \in 1..Len(Wanted(r)), i < j
  PROVE  Rank(Wanted(r)[i]) < Rank(Wanted(r)[j])
BY ListsAscend DEF TypeOK, Wanted, Ascending

\* What a request owns while it tries is below what it tries for next.
LEMMA OwnedBelow ==
  ASSUME LockInv, NEW r \in Requests, hi[r] < Len(Wanted(r)), NEW n \in Owned(r)
  PROVE  Rank(n) < Rank(Wanted(r)[hi[r] + 1])
<1>1. PICK i \in (lo[r] + 1)..hi[r] : n = Wanted(r)[i]
  BY DEF Owned
<1>2. lo[r] \in Nat /\ hi[r] \in Nat /\ Len(Wanted(r)) \in Nat
  BY OwnedBounds, WantedType DEF LockInv
<1>3. i \in 1..Len(Wanted(r)) /\ hi[r] + 1 \in 1..Len(Wanted(r)) /\ i < hi[r] + 1
  BY <1>1, <1>2
<1>4. QED
  BY <1>1, <1>3, WantedAscends DEF LockInv

LEMMA AnswersStep ==
  ASSUME LockInv, AnswersFit, Next
  PROVE  AnswersFit'
<1>0. /\ pc \in [Requests -> Steps] /\ answer \in [Requests -> Answers]
      /\ hi \in [Requests -> Nat] /\ lo \in [Requests -> Nat]
  BY DEF LockInv, TypeOK
<1>1. CASE Idle
  BY <1>1 DEF Idle, vars, AnswersFit, Wanted
<1>2. ASSUME NEW q \in Requests, LockStep(q) \/ Refuse(q) \/ Finish(q)
      PROVE  AnswersFit'
  <2>0. /\ op' = op /\ \A r \in Requests : Wanted(r)' = Wanted(r)
        /\ \A r \in Requests : r # q => pc'[r] = pc[r] /\ answer'[r] = answer[r] /\ hi'[r] = hi[r]
    BY <1>0, <1>2 DEF LockStep, Decode, Acquire, AcquireBusy, Release, Refuse, Finish, Wanted
  <2>1. AnswersFit!(q) /\ HoldsByStep!(q)
    BY DEF LockInv, HoldsByStep, AnswersFit
  <2>2. AnswersFit!(q)'
    <3>1. CASE Decode(q) \/ Acquire(q)
      BY <1>0, <2>0, <2>1, <3>1 DEF Decode, Acquire
    <3>2. CASE AcquireBusy(q)
      BY <1>0, <2>0, <2>1, <3>2 DEF AcquireBusy
    <3>3. CASE Refuse(q) \/ Finish(q)
      BY <1>0, <2>0, <2>1, <3>3 DEF Refuse, Finish
    <3>4. CASE Release(q)
      BY <1>0, <2>0, <2>1, <3>4 DEF Release
    <3>5. QED
      BY <1>2, <3>1, <3>2, <3>3, <3>4 DEF LockStep
  <2>3. \A r \in Requests : r # q => AnswersFit!(r)'
    BY <2>0 DEF AnswersFit
  <2>4. QED
    BY <2>2, <2>3 DEF AnswersFit
<1>3. QED
  BY <1>1, <1>2 DEF Next

\* Who is served or ahead stays so, unless it is turned away itself.
LEMMA AheadStays ==
  ASSUME LockInv, AnswersFit, Next, NEW q \in Requests, NEW rank \in Nat,
         Served(q) \/ Ahead(q, rank), answer'[q] # "busy"
  PROVE  Served(q)' \/ Ahead(q, rank)'
<1>0. /\ pc \in [Requests -> Steps] /\ answer \in [Requests -> Answers]
      /\ hi \in [Requests -> Nat] /\ lo \in [Requests -> Nat]
  BY DEF LockInv, TypeOK
<1>1. CASE Idle
  BY <1>1 DEF Idle, vars, Served, Ahead, Owned, Wanted
<1>2. ASSUME NEW p \in Requests, p # q, LockStep(p) \/ Refuse(p) \/ Finish(p)
      PROVE  Served(q)' \/ Ahead(q, rank)'
  <2>1. pc'[q] = pc[q] /\ answer'[q] = answer[q] /\ hi'[q] = hi[q] /\ lo'[q] = lo[q] /\ op' = op
    BY <1>0, <1>2 DEF LockStep, Decode, Acquire, AcquireBusy, Release, Refuse, Finish
  <2>2. Owned(q)' = Owned(q)
    BY <2>1 DEF Owned, Wanted
  <2>3. QED
    BY <2>1, <2>2 DEF Served, Ahead
<1>3. CASE Decode(q) \/ Refuse(q)
  BY <1>3 DEF Decode, Refuse, Served, Ahead, AnswersFit
<1>4. CASE AcquireBusy(q)
  BY <1>0, <1>4 DEF AcquireBusy
<1>5. CASE Acquire(q)
  <2>1. pc[q] = "acquiring" /\ Ahead(q, rank)
    BY <1>5 DEF Acquire, Served, AnswersFit
  <2>2. pc'[q] \in {"acquiring", "running"} /\ hi'[q] = hi[q] + 1 /\ lo' = lo /\ op' = op
    BY <1>0, <1>5, <2>1 DEF Acquire
  <2>3. \A i \in (lo[q] + 1)..hi[q] : i \in (lo'[q] + 1)..hi'[q]
    BY <1>0, <2>2
  <2>4. Owned(q) \subseteq Owned(q)'
    BY <2>2, <2>3 DEF Owned, Wanted
  <2>5. QED
    BY <2>1, <2>2, <2>4 DEF Served, Ahead
<1>6. CASE Release(q) \/ Finish(q)
  BY <1>0, <1>6 DEF Release, Finish, Served, Ahead, AnswersFit
<1>7. QED
  BY <1>1, <1>2, <1>3, <1>4, <1>5, <1>6 DEF Next, LockStep

LEMMA AheadAnyRank ==
  ASSUME NEW q \in Requests, NEW j \in Nat, NEW k \in Nat, k <= j, Ahead(q, j)
  PROVE  Ahead(q, k)
BY RankIsNat DEF Ahead

\* Behind a name that is taken stands somebody else who is served or is past it.
LEMMA BlockerAhead ==
  ASSUME CollisionInv, NEW q \in Requests, AcquireBusy(q)
  PROVE  \E s \in Requests : s # q /\ (Served(s) \/ Ahead(s, Rank(Wanted(q)[hi[q] + 1])))
<1> DEFINE m == Wanted(q)[hi[q] + 1]
<1>0. LockInv /\ AnswersFit /\ SomebodyGoesOn
  BY DEF CollisionInv
<1>1. /\ pc[q] = "acquiring" /\ lo[q] = 0 /\ hi[q] \in Nat /\ hi[q] < Len(Wanted(q))
      /\ Len(Wanted(q)) \in Nat /\ m \in Locks /\ held[m] # Free
  BY <1>0, WantedType DEF AcquireBusy, LockInv, TypeOK, HoldsByStep
<1>2. PICK s \in Requests : held[m] = s
  BY <1>0, <1>1 DEF LockInv, TypeOK
<1>3. m \in Owned(s)
  BY <1>0, <1>1, <1>2 DEF LockInv, HeldIsOwned
<1>4. s # q
  <2>1. m \notin Owned(q)
    BY <1>0, <1>1, OwnedBelow, RankIsNat
  <2>2. QED
    BY <1>3, <2>1
<1>5. /\ pc[s] \in Steps /\ HoldsByStep!(s) /\ AnswersFit!(s) /\ lo[s] \in Nat /\ hi[s] \in Nat
  BY <1>0 DEF LockInv, TypeOK, HoldsByStep, AnswersFit
<1>6. lo[s] < hi[s]
  BY <1>3, <1>5 DEF Owned
<1>7. CASE pc[s] \in {"running", "releasing"}
  BY <1>4, <1>5, <1>7 DEF Served
<1>8. CASE pc[s] = "acquiring"
  <2>1. Ahead(s, Rank(m))
    BY <1>3, <1>8, RankIsNat DEF Ahead
  <2>2. QED
    BY <1>4, <2>1
<1>9. CASE pc[s] = "undoing"
  <2> DEFINE f == Wanted(s)[hi[s] + 1]
  <2>1. answer[s] = "busy" /\ hi[s] < Len(Wanted(s))
    BY <1>5, <1>9
  <2>2. Rank(m) < Rank(f)
    BY <1>0, <1>3, <2>1, OwnedBelow
  <2>3. PICK t \in Requests : Served(t) \/ Ahead(t, Rank(f))
    BY <1>0, <2>1 DEF SomebodyGoesOn
  <2>4. CASE Served(t)
    <3>1. t # q
      BY <1>0, <1>1, <2>4 DEF Served, AnswersFit
    <3>2. QED
      BY <2>4, <3>1
  <2>5. CASE Ahead(t, Rank(f))
    <3>1. t # q
      <4>1. ASSUME t = q PROVE FALSE
        <5>1. PICK n \in Owned(q) : Rank(f) <= Rank(n)
          BY <2>5, <4>1 DEF Ahead
        <5>2. Rank(n) < Rank(m)
          BY <1>0, <1>1, OwnedBelow
        <5>3. Rank(f) \in Nat /\ Rank(n) \in Nat /\ Rank(m) \in Nat
          BY RankIsNat
        <5>4. QED
          BY <2>2, <5>1, <5>2, <5>3
      <4>2. QED
        BY <4>1
    <3>2. Rank(f) \in Nat /\ Rank(m) \in Nat /\ Rank(m) <= Rank(f)
      BY <2>2, RankIsNat
    <3>3. Ahead(t, Rank(m))
      BY <2>5, <3>2, AheadAnyRank
    <3>4. QED
      BY <3>1, <3>3
  <2>6. QED
    BY <2>3, <2>4, <2>5
<1>10. QED
  BY <1>5, <1>6, <1>7, <1>8, <1>9 DEF Steps

\* Whoever is turned away leaves somebody behind who goes on.
LEMMA GoesOnStep ==
  ASSUME CollisionInv, Next
  PROVE  SomebodyGoesOn'
<1>0. LockInv /\ AnswersFit /\ SomebodyGoesOn /\ TypeOK
  BY DEF CollisionInv, LockInv
<1>1. ASSUME NEW r \in Requests, answer'[r] = "busy"
      PROVE  \E q \in Requests : Served(q)' \/ Ahead(q, Rank(Wanted(r)[hi[r] + 1]))'
  <2>0. PICK rank \in Nat : rank = Rank(Wanted(r)[hi[r] + 1])
    BY RankIsNat
  <2>1. op' = op /\ hi'[r] = hi[r]
    BY <1>0, <1>1 DEF Next, LockStep, Decode, Acquire, AcquireBusy, Release, Refuse, Finish, Idle,
                      vars, TypeOK, AnswersFit
  <2>2. Rank(Wanted(r)[hi[r] + 1])' = rank
    BY <2>0, <2>1 DEF Wanted
  <2>3. ASSUME NEW s \in Requests, Served(s) \/ Ahead(s, rank), answer'[s] # "busy"
        PROVE  \E q \in Requests : Served(q)' \/ Ahead(q, rank)'
    BY <1>0, <2>3, AheadStays
  <2>4. ASSUME NEW t \in Requests, AcquireBusy(t), rank <= Rank(Wanted(t)[hi[t] + 1])
        PROVE  \E q \in Requests : Served(q)' \/ Ahead(q, rank)'
    <3>1. PICK s \in Requests : s # t /\ (Served(s) \/ Ahead(s, Rank(Wanted(t)[hi[t] + 1])))
      BY <2>4, BlockerAhead
    <3>2. Served(s) \/ Ahead(s, rank)
      BY <2>0, <2>4, <3>1, RankIsNat, AheadAnyRank
    <3>3. answer[s] # "busy"
      BY <1>0, <3>2 DEF Served, Ahead, AnswersFit
    <3>4. answer'[s] = answer[s]
      BY <1>0, <2>4, <3>1 DEF AcquireBusy, TypeOK
    <3>5. QED
      BY <2>3, <3>2, <3>3, <3>4
  <2>5. ASSUME answer[r] = "busy"
        PROVE  \E q \in Requests : Served(q)' \/ Ahead(q, rank)'
    <3>1. PICK q \in Requests : Served(q) \/ Ahead(q, rank)
      BY <1>0, <2>0, <2>5 DEF SomebodyGoesOn
    <3>2. CASE answer'[q] # "busy"
      BY <2>2, <2>3, <3>1, <3>2
    <3>3. CASE answer'[q] = "busy"
      <4>1. answer[q] # "busy"
        BY <1>0, <3>1 DEF Served, Ahead, AnswersFit
      <4>2. AcquireBusy(q)
        BY <1>0, <3>3, <4>1 DEF Next, LockStep, Decode, Acquire, Release, Refuse, Finish, Idle,
                                vars, TypeOK, AcquireBusy
      <4>3. pc[q] = "acquiring" /\ ~Served(q) /\ Ahead(q, rank)
        BY <1>0, <3>1, <4>2 DEF AcquireBusy, Served, AnswersFit
      <4>4. PICK n \in Owned(q) : rank <= Rank(n)
        BY <4>3 DEF Ahead
      <4>5. hi[q] < Len(Wanted(q))
        BY <1>0, <4>3 DEF LockInv, HoldsByStep
      <4>6. Rank(n) < Rank(Wanted(q)[hi[q] + 1])
        BY <1>0, <4>5, OwnedBelow
      <4>7. Rank(n) \in Nat /\ Rank(Wanted(q)[hi[q] + 1]) \in Nat
        BY RankIsNat
      <4>8. rank <= Rank(Wanted(q)[hi[q] + 1])
        BY <2>0, <4>4, <4>6, <4>7
      <4>9. QED
        BY <2>2, <2>4, <4>2, <4>8
    <3>4. QED
      BY <3>2, <3>3
  <2>6. ASSUME answer[r] # "busy"
        PROVE  \E q \in Requests : Served(q)' \/ Ahead(q, rank)'
    <3>1. AcquireBusy(r)
      BY <1>0, <1>1, <2>6 DEF Next, LockStep, Decode, Acquire, Release, Refuse, Finish, Idle,
                              vars, TypeOK, AcquireBusy
    <3>2. rank <= Rank(Wanted(r)[hi[r] + 1])
      BY <2>0, RankIsNat
    <3>3. QED
      BY <2>2, <2>4, <3>1, <3>2
  <2>7. \E q \in Requests : Served(q)' \/ Ahead(q, rank)'
    BY <2>5, <2>6
  <2>8. QED
    BY <2>2, <2>7 DEF Ahead
<1>2. QED
  BY <1>1 DEF SomebodyGoesOn

\* The invariant behind SomebodyWins, for the handlers' table: the lists rise in one
\* order, so among requests that block each other one is ahead (oplock.go:48).
THEOREM CollisionInvariant == Spec => []CollisionInv
<1>1. Init => CollisionInv
  <2> SUFFICES ASSUME Init PROVE CollisionInv
    OBVIOUS
  <2>1. AnswersFit /\ SomebodyGoesOn
    BY DEF Init, AnswersFit, SomebodyGoesOn
  <2>2. QED
    BY <2>1, InitInv DEF CollisionInv
<1>2. CollisionInv /\ [Next]_vars => CollisionInv'
  <2> SUFFICES ASSUME CollisionInv, [Next]_vars PROVE CollisionInv'
    OBVIOUS
  <2>1. LockInv'
    BY NextInv DEF CollisionInv
  <2>2. CASE Next
    <3>1. AnswersFit'
      BY <2>2, AnswersStep DEF CollisionInv
    <3>2. SomebodyGoesOn'
      BY <2>2, GoesOnStep
    <3>3. QED
      BY <2>1, <3>1, <3>2 DEF CollisionInv
  <2>3. CASE UNCHANGED vars
    BY <2>1, <2>3 DEF CollisionInv, AnswersFit, SomebodyGoesOn, Served, Ahead, Owned, Wanted, vars
  <2>4. QED
    BY <2>2, <2>3
<1>3. QED
  BY <1>1, <1>2, PTL DEF Spec

\* Requests that collide do not all come back with OPERATION_IN_PROGRESS.
THEOREM SomebodyWinsTheorem == Spec => []SomebodyWins
<1>1. CollisionInv => SomebodyWins
  BY DEF CollisionInv, SomebodyGoesOn, Served, Ahead, SomebodyWins
<1>2. QED
  BY <1>1, CollisionInvariant, PTL

=============================================================================
