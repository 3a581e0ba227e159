------------------------------- MODULE OpLock -------------------------------
(***************************************************************************)
(* The named operation locks (internal/oplock) and the life of a request    *)
(* that uses them.  Every handler of a dangerous operation in               *)
(* internal/apiserver has the same shape: decode the body and check the     *)
(* confirmation, Acquire or AcquireMany, defer the release, run, answer.    *)
(* AcquireMany is not atomic: it takes one lock per critical section of the *)
(* manager's mutex and, when one is held, gives back one by one those it    *)
(* took.  Each action below is one such critical section.  Release deletes  *)
(* the entry by name alone; nothing in the manager checks who held it.      *)
(***************************************************************************)
EXTENDS Naturals, Sequences

CONSTANTS
  Requests,   \* the request goroutines of the HTTP server
  Ops,        \* the operations a request can ask for
  Locks,      \* the lock names
  LockSeq,    \* the names each operation passes to Acquire/AcquireMany, in order
  Free        \* stands for a name that is not in the manager's map

ASSUME LockSeqAssumption ==
  /\ LockSeq \in [Ops -> Seq(Locks)]
  /\ \A o \in Ops : \A i, j \in 1..Len(LockSeq[o]) :
       LockSeq[o][i] = LockSeq[o][j] => i = j

ASSUME FreeAssumption == Free \notin Requests

VARIABLES
  held,     \* Manager.held: the request holding each name, or Free
  op,       \* the operation each request asks for
  pc,       \* where the handler of each request stands
  lo, hi,   \* the request holds Wanted(r)[lo+1 .. hi]
  answer    \* what the caller was told

vars == <<held, op, pc, lo, hi, answer>>

Steps   == {"received", "acquiring", "undoing", "running", "releasing", "done"}
Answers == {"none", "refused", "busy", "handled"}

Wanted(r) == LockSeq[op[r]]
Owned(r)  == {Wanted(r)[i] : i \in (lo[r] + 1)..hi[r]}

Range(s) == {s[i] : i \in 1..Len(s)}

-----------------------------------------------------------------------------
Init ==
  /\ held = [n \in Locks |-> Free]
  /\ op \in [Requests -> Ops]
  /\ pc = [r \in Requests |-> "received"]
  /\ lo = [r \in Requests |-> 0]
  /\ hi = [r \in Requests |-> 0]
  /\ answer = [r \in Requests |-> "none"]

\* Bind and Confirm succeed; a handler that takes no lock goes straight on.
Decode(r) ==
  /\ pc[r] = "received"
  /\ pc' = [pc EXCEPT ![r] = IF Wanted(r) = <<>> THEN "running" ELSE "acquiring"]
  /\ UNCHANGED <<held, op, lo, hi, answer>>

\* Bind or Confirm fails: the handler returns before it touches a lock.
Refuse(r) ==
  /\ pc[r] = "received"
  /\ pc' = [pc EXCEPT ![r] = "done"]
  /\ answer' = [answer EXCEPT ![r] = "refused"]
  /\ UNCHANGED <<held, op, lo, hi>>

\* Mutant: the name is recorded without looking whether it is taken.
AcquireUnchecked(r) ==
  /\ pc[r] = "acquiring"
  /\ held' = [held EXCEPT ![Wanted(r)[hi[r] + 1]] = r]
  /\ hi' = [hi EXCEPT ![r] = @ + 1]
  /\ pc' = [pc EXCEPT ![r] = IF hi[r] + 1 = Len(Wanted(r)) THEN "running" ELSE @]
  /\ UNCHANGED <<op, lo, answer>>

\* Manager.Acquire finds the name free and records the request.
Acquire(r) ==
  /\ pc[r] = "acquiring"
  /\ LET n == Wanted(r)[hi[r] + 1] IN
       /\ held[n] = Free
       /\ held' = [held EXCEPT ![n] = r]
  /\ hi' = [hi EXCEPT ![r] = @ + 1]
  /\ pc' = [pc EXCEPT ![r] = IF hi[r] + 1 = Len(Wanted(r)) THEN "running" ELSE @]
  /\ UNCHANGED <<op, lo, answer>>

\* Mutant: ReleaseMany of the whole list is deferred before the error check.
AcquireBusyReleasesAll(r) ==
  /\ pc[r] = "acquiring"
  /\ held[Wanted(r)[hi[r] + 1]] # Free
  /\ hi' = [hi EXCEPT ![r] = Len(Wanted(r))]
  /\ pc' = [pc EXCEPT ![r] = "undoing"]
  /\ answer' = [answer EXCEPT ![r] = "busy"]
  /\ UNCHANGED <<held, op, lo>>

\* Mutant: a taken name is waited for, as a mutex would.
AcquireBusyWaits(r) ==
  /\ pc[r] = "acquiring"
  /\ held[Wanted(r)[hi[r] + 1]] # Free
  /\ UNCHANGED vars

\* Manager.Acquire finds the name taken: AcquireMany gives back what it got.
AcquireBusy(r) ==
  /\ pc[r] = "acquiring"
  /\ held[Wanted(r)[hi[r] + 1]] # Free
  /\ pc' = [pc EXCEPT ![r] = IF hi[r] = 0 THEN "done" ELSE "undoing"]
  /\ answer' = [answer EXCEPT ![r] = "busy"]
  /\ UNCHANGED <<held, op, lo, hi>>

\* The operation returns, fails or panics: the deferred release runs either way.
Finish(r) ==
  /\ pc[r] = "running"
  /\ pc' = [pc EXCEPT ![r] = IF Wanted(r) = <<>> THEN "done" ELSE "releasing"]
  /\ answer' = [answer EXCEPT ![r] = "handled"]
  /\ UNCHANGED <<held, op, lo, hi>>

\* Manager.Release deletes the next name, whoever the map says holds it.
Release(r) ==
  /\ pc[r] \in {"undoing", "releasing"}
  /\ held' = [held EXCEPT ![Wanted(r)[lo[r] + 1]] = Free]
  /\ lo' = [lo EXCEPT ![r] = @ + 1]
  /\ pc' = [pc EXCEPT ![r] = IF lo[r] + 1 = hi[r] THEN "done" ELSE @]
  /\ UNCHANGED <<op, hi, answer>>

\* Every request has been answered and its handler has returned.
Idle ==
  /\ \A r \in Requests : pc[r] = "done"
  /\ UNCHANGED vars

LockStep(r) == Decode(r) \/ Acquire(r) \/ AcquireBusy(r) \/ Release(r)

Next ==
  \/ \E r \in Requests : LockStep(r) \/ Refuse(r) \/ Finish(r)
  \/ Idle

Spec == Init /\ [][Next]_vars

\* The steps of the lock manager never wait, so the scheduler lets every
\* goroutine through them.  No fairness on Finish: an operation may hang.
FairSpec == Spec /\ \A r \in Requests : WF_vars(LockStep(r))

-----------------------------------------------------------------------------
TypeOK ==
  /\ held \in [Locks -> Requests \cup {Free}]
  /\ op \in [Requests -> Ops]
  /\ pc \in [Requests -> Steps]
  /\ lo \in [Requests -> Nat]
  /\ hi \in [Requests -> Nat]
  /\ answer \in [Requests -> Answers]

\* The map of the manager is exactly what the handlers in flight hold: no name
\* leaks after an error path, and no Release has deleted another's entry.
HeldIsOwned ==
  \A n \in Locks, r \in Requests : held[n] = r <=> n \in Owned(r)

\* Where a request stands determines which part of its list it holds.
HoldsByStep ==
  \A r \in Requests :
    /\ pc[r] = "received"  => lo[r] = 0 /\ hi[r] = 0
    /\ pc[r] = "acquiring" => lo[r] = 0 /\ hi[r] < Len(Wanted(r))
    /\ pc[r] = "undoing"   => lo[r] < hi[r] /\ hi[r] < Len(Wanted(r))
    /\ pc[r] = "running"   => lo[r] = 0 /\ hi[r] = Len(Wanted(r))
    /\ pc[r] = "releasing" => lo[r] < hi[r] /\ hi[r] = Len(Wanted(r))
    /\ pc[r] = "done"      => lo[r] = hi[r] /\ hi[r] <= Len(Wanted(r))

LockInv == TypeOK /\ HeldIsOwned /\ HoldsByStep

\* Two operations that name a common lock are never inside their critical
\* sections together (oplock.go: "prevent dangerous operations from running
\* concurrently").
MutualExclusion ==
  \A r, q \in Requests :
    r # q /\ pc[r] = "running" /\ pc[q] = "running"
      => Range(Wanted(r)) \cap Range(Wanted(q)) = {}

\* A lock passes from a request to nobody, never straight to another request,
\* and only its holder gives it up (Release has no owner check of its own).
OnlyHolderReleases ==
  [][\A n \in Locks, r \in Requests :
       held[n] = r /\ held'[n] # r
         => held'[n] = Free /\ pc[r] \in {"undoing", "releasing"}]_vars

\* A request that tries for locks is admitted or told "busy" even when the
\* operation holding them never returns: Acquire does not queue.  What a handler
\* holds when it returns, or when AcquireMany gives up, goes back.
NobodyHangsAlong ==
  \A r \in Requests :
    /\ pc[r] = "acquiring" ~> answer[r] = "busy" \/ pc[r] = "running"
    /\ pc[r] \in {"undoing", "releasing"} ~> pc[r] = "done" /\ Owned(r) = {}

-----------------------------------------------------------------------------
PhaseOf ==
  [received |-> "new", acquiring |-> "trying", running |-> "running",
   undoing |-> "leaving", releasing |-> "leaving", done |-> "ended"]

Promise ==
  INSTANCE OpExclusion WITH
    phase <- [r \in Requests |-> PhaseOf[pc[r]]],
    Footprint <- [o \in Ops |-> Range(LockSeq[o])]

\* The lock manager, one critical section at a time, implements OpExclusion.
ImplementsExclusion == Promise!Spec
=============================================================================
