------------------------------- MODULE ExecSlots -------------------------------
(***************************************************************************)
(* What a container promises those who run commands in it, however the      *)
(* slots are counted: a call is turned away only while as many calls as      *)
(* there may be are being served in that container, and a call that is not  *)
(* turned away has its slot from then on until it is answered.               *)
(***************************************************************************)
EXTENDS Naturals, FiniteSets

CONSTANTS
  Requests,
  Containers,
  MaxExecConcurrency,
  None

VARIABLES
  target,  \* the container each call names
  phase    \* how far each call has come

vars == <<target, phase>>

Served(c) == {r \in Requests : target[r] = c /\ phase[r] = "served"}

Init ==
  /\ target = [r \in Requests |-> None]
  /\ phase = [r \in Requests |-> "new"]

Ask(r, c, outcome) ==
  /\ phase[r] = "new"
  /\ target' = [target EXCEPT ![r] = c]
  /\ phase' = [phase EXCEPT ![r] = outcome]

Admit(r, c) == Cardinality(Served(c)) < MaxExecConcurrency /\ Ask(r, c, "served")

TurnAway(r, c) == Cardinality(Served(c)) >= MaxExecConcurrency /\ Ask(r, c, "refused")

\* A result or an error; the slot is free again.
Answer(r) ==
  /\ phase[r] = "served"
  /\ phase' = [phase EXCEPT ![r] = "answered"]
  /\ UNCHANGED target

Next ==
  \E r \in Requests :
    \/ \E c \in Containers : Admit(r, c) \/ TurnAway(r, c)
    \/ Answer(r)

Spec == Init /\ [][Next]_vars
=============================================================================
