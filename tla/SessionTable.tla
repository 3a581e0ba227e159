----------------------------- MODULE SessionTable -----------------------------
(***************************************************************************)
(* What the terminal manager promises about its sessions, however they are  *)
(* counted and closed: one is opened only where the limits leave room, one   *)
(* that has ended never runs again, and after the shutdown none is opened.   *)
(***************************************************************************)
EXTENDS Naturals, FiniteSets

CONSTANTS
  Ids,
  Owners,
  MaxSessions,
  MaxOwnerSessions

VARIABLES
  running, \* the sessions of each owner that run
  ended,   \* those that have been closed or whose shell has ended
  shut     \* whether the manager is shut down

vars == <<running, ended, shut>>

All == {i \in Ids : \E o \in Owners : i \in running[o]}

Init == running = [o \in Owners |-> {}] /\ ended = {} /\ shut = FALSE

Open(i, o) ==
  /\ ~shut
  /\ i \notin All \cup ended
  /\ Cardinality(All) < MaxSessions /\ Cardinality(running[o]) < MaxOwnerSessions
  /\ running' = [running EXCEPT ![o] = @ \cup {i}]
  /\ UNCHANGED <<ended, shut>>

\* By a request, by the reaper, by the shutdown or by itself.
End(i) ==
  /\ i \in All
  /\ running' = [o \in Owners |-> running[o] \ {i}]
  /\ ended' = ended \cup {i}
  /\ UNCHANGED shut

Shut == shut' = TRUE /\ UNCHANGED <<running, ended>>

Next ==
  \/ \E i \in Ids : (\E o \in Owners : Open(i, o)) \/ End(i)
  \/ Shut

Spec == Init /\ [][Next]_vars
=============================================================================
