---------------------------- MODULE OpExclusion ----------------------------
(***************************************************************************)
(* What the agent promises its callers about dangerous operations,          *)
(* independently of how the named locks are taken: two operations whose     *)
(* footprints meet never run together, and a request is turned away as      *)
(* "in progress" only while a request it really conflicts with is alive.    *)
(***************************************************************************)
CONSTANTS
  Requests,   \* the request goroutines of the HTTP server
  Ops,        \* the operations a request can ask for
  Footprint   \* the set of resources each operation needs, a function on Ops

VARIABLES
  op,         \* the operation each request asks for
  phase       \* how far each request has come

vars == <<op, phase>>

Phases == {"new", "trying", "running", "leaving", "ended"}

Conflict(r, q) == Footprint[op[r]] \cap Footprint[op[q]] # {}

Alive(q) == phase[q] \in {"trying", "running", "leaving"}

Init ==
  /\ op \in [Requests -> Ops]
  /\ phase = [r \in Requests |-> "new"]

Move(r, from, to) ==
  /\ phase[r] \in from
  /\ phase' = [phase EXCEPT ![r] = to]
  /\ UNCHANGED op

\* A well-formed request starts trying; a malformed or unconfirmed one ends.
Try(r)    == Move(r, {"new"}, "trying")
Refuse(r) == Move(r, {"new"}, "ended")

\* An operation starts only while nothing it conflicts with is running.
Start(r) ==
  /\ Move(r, {"new", "trying"}, "running")
  /\ \A q \in Requests \ {r} : phase[q] = "running" => ~Conflict(r, q)

\* OPERATION_IN_PROGRESS has a reason.
TurnAway(r) ==
  /\ \/ Move(r, {"trying"}, "leaving")
     \/ Move(r, {"trying"}, "ended")
  /\ \E q \in Requests \ {r} : Alive(q) /\ Conflict(r, q)

Finish(r) == Move(r, {"running"}, "leaving") \/ Move(r, {"running"}, "ended")
Leave(r)  == Move(r, {"leaving"}, "ended")

Next ==
  \E r \in Requests :
    Try(r) \/ Refuse(r) \/ Start(r) \/ TurnAway(r) \/ Finish(r) \/ Leave(r)

Spec == Init /\ [][Next]_vars
=============================================================================
