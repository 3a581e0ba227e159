------------------------ MODULE TerminalManagerProofs ------------------------
(***************************************************************************)
(* For every set of callers and owners and every limit: a mutex is held by  *)
(* the call that took it, the session limits hold although sessions are     *)
(* counted one by one, no shell is ever out of reach, and the map of        *)
(* sessions implements SessionTable.                                        *)
(***************************************************************************)
EXTENDS TerminalManager, FiniteSetTheorems, TLAPS

\* The reaper and CloseAll are not requests, and nobody is the free mutex.
LEMMA ProcFacts ==
  /\ Callers \subseteq Procs /\ Reaper \in Procs /\ Shutdown \in Procs
  /\ Reaper \notin Callers /\ Shutdown \notin Callers /\ Reaper # Shutdown
  /\ Free \notin Procs /\ Procs = Callers \cup {Reaper, Shutdown}
BY ProcsAssumption DEF Procs, Reaper, Shutdown

LEMMA BoundFacts ==
  /\ MaxSessions \in Nat /\ MaxOwnerSessions \in Nat /\ MaxOpens \in Nat /\ MaxUses \in Nat
BY ManagerAssumption

\* Where a call goes when it has dealt with a session.
LEMMA ResumeGoes ==
  ASSUME NEW p \in Procs, Resume(p)
  PROVE  \E s \in {"close", "done", "idle"} :
           at' = [at EXCEPT ![p] = s] /\ (s = "done" => p = Shutdown)
BY DEF Resume, Goto, Return

LEMMA GoesOwn ==
  ASSUME at \in [Procs -> AllStages], StagesAreOwn, NEW p \in Procs,
         NEW s \in Closing \cup {"done"}, s = "done" => p \notin Callers,
         at' = [at EXCEPT ![p] = s]
  PROVE  StagesAreOwn'
BY DEF StagesAreOwn, Closing, Asking

LEMMA GoesAsking ==
  ASSUME at \in [Procs -> AllStages], StagesAreOwn, NEW p \in Callers,
         NEW s \in Closing \cup Asking,
         at' = [at EXCEPT ![p] = s]
  PROVE  StagesAreOwn'
BY ProcFacts DEF StagesAreOwn, Closing, Asking

\* Nobody strays into a stage of somebody else.
LEMMA StagesStep ==
  ASSUME ManagerInv, Next
  PROVE  StagesAreOwn'
<1> USE ProcFacts
<1>0. at \in [Procs -> AllStages] /\ StagesAreOwn
  BY DEF ManagerInv, TypeOK, Kinds
<1>1. ASSUME NEW p \in Callers, OpenStarts(p)
      PROVE  StagesAreOwn'
  BY <1>0, <1>1, GoesAsking DEF Closing, Asking, OpenStarts, Goto
<1>2. ASSUME NEW p \in Callers, OpenLocks(p)
      PROVE  StagesAreOwn'
  BY <1>0, <1>2, GoesAsking DEF Closing, Asking, OpenLocks, Goto, Return
<1>3. ASSUME NEW p \in Callers, OpenCounts(p)
      PROVE  StagesAreOwn'
  BY <1>0, <1>3 DEF StagesAreOwn, table, OpenCounts
<1>4. ASSUME NEW p \in Callers, OpenRefuses(p)
      PROVE  StagesAreOwn'
  BY <1>0, <1>4, GoesAsking DEF Closing, Asking, OpenRefuses, Goto, Return
<1>5. ASSUME NEW p \in Callers, OpenForks(p)
      PROVE  StagesAreOwn'
  BY <1>0, <1>5, GoesAsking DEF Closing, Asking, OpenForks, Goto
<1>6. ASSUME NEW p \in Callers, OpenInserts(p)
      PROVE  StagesAreOwn'
  BY <1>0, <1>6, GoesAsking DEF Closing, Asking, OpenInserts, Goto, Return
<1>7. ASSUME NEW p \in Callers, NEW what \in {"touch", "input", "mark"}, Ask(p, what)
      PROVE  StagesAreOwn'
  BY <1>0, <1>7, GoesAsking DEF Closing, Asking, Ask, Goto
<1>8. ASSUME NEW p \in Callers, Touch(p)
      PROVE  StagesAreOwn'
  BY <1>0, <1>8, GoesAsking DEF Closing, Asking, Touch, Goto, Return
<1>9. ASSUME NEW p \in Callers, InputLocks(p)
      PROVE  StagesAreOwn'
  BY <1>0, <1>9, GoesAsking DEF Closing, Asking, InputLocks, Goto
<1>10. ASSUME NEW p \in Callers, InputReturns(p)
      PROVE  StagesAreOwn'
  BY <1>0, <1>10, GoesAsking DEF Closing, Asking, InputReturns, Goto, Return
<1>11. ASSUME NEW p \in Procs, CloseLooks(p)
      PROVE  StagesAreOwn'
  BY <1>0, <1>11, GoesOwn DEF Closing, CloseLooks, Goto
<1>12. ASSUME NEW p \in Procs, CloseSkips(p)
      PROVE  StagesAreOwn'
  BY <1>0, <1>12, ResumeGoes, GoesOwn DEF Closing, CloseSkips
<1>13. ASSUME NEW p \in Procs, CloseMarks(p)
      PROVE  StagesAreOwn'
  <2>1. CASE Resume(p)
    BY <1>0, <2>1, ResumeGoes, GoesOwn DEF Closing
  <2>2. CASE Goto(p, "kill")
    BY <1>0, <2>2, GoesOwn DEF Closing, Goto
  <2>3. QED
    BY <1>13, <2>1, <2>2 DEF CloseMarks
<1>14. ASSUME NEW p \in Procs, CloseKills(p)
      PROVE  StagesAreOwn'
  BY <1>0, <1>14, ResumeGoes, GoesOwn DEF Closing, CloseKills
<1>15. ASSUME CloseAll
      PROVE  StagesAreOwn'
  BY <1>0, <1>15, GoesOwn DEF Closing, CloseAll, Goto
<1>16. ASSUME ReapStarts
      PROVE  StagesAreOwn'
  BY <1>0, <1>16 DEF StagesAreOwn, Asking, ReapStarts, Goto
<1>17. ASSUME ReapStops
      PROVE  StagesAreOwn'
  BY <1>0, <1>17, GoesOwn DEF Closing, ReapStops, Goto
<1>18. ASSUME ReapLooks
      PROVE  StagesAreOwn'
  BY <1>0, <1>18 DEF StagesAreOwn, table, ReapLooks
<1>19. ASSUME ReapUnlocks
      PROVE  StagesAreOwn'
  BY <1>0, <1>19, GoesOwn DEF Closing, ReapUnlocks, Goto
<1>20. ASSUME NEW i \in Ids, Live(i)
      PROVE  StagesAreOwn'
  BY <1>0, <1>20 DEF StagesAreOwn, table, Live, Prints, ShellEnds, SetExit, Quiet, Expires
<1>21. QED
  BY <1>1, <1>2, <1>3, <1>4, <1>5, <1>6, <1>7, <1>8, <1>9, <1>10, <1>11, <1>12, <1>13, <1>14, <1>15, <1>16, <1>17, <1>18, <1>19, <1>20 DEF Next, OpenStep, UseStep, CloseStarts, CloseStep, Reap

\* What one call does to itself, and to its two lists, keeps their kinds.
LEMMA StageKind ==
  ASSUME at \in [Procs -> AllStages], NEW p, NEW s \in AllStages, at' = [at EXCEPT ![p] = s]
  PROVE  at' \in [Procs -> AllStages]
OBVIOUS

LEMMA AimKind ==
  ASSUME for \in [Procs -> Aims], NEW p, NEW x \in Aims, for' = [for EXCEPT ![p] = x]
  PROVE  for' \in [Procs -> Aims]
OBVIOUS

LEMMA LeftKind ==
  ASSUME left \in [Procs -> SUBSET Ids], NEW p, NEW S \in SUBSET Ids, left' = [left EXCEPT ![p] = S]
  PROVE  left' \in [Procs -> SUBSET Ids]
OBVIOUS

LEMMA FoundKind ==
  ASSUME found \in [Procs -> SUBSET Ids], NEW p, NEW S \in SUBSET Ids, found' = [found EXCEPT ![p] = S]
  PROVE  found' \in [Procs -> SUBSET Ids]
OBVIOUS

LEMMA TablesKnown ==
  ASSUME ManagerInv
  PROVE  opens \in Nat /\ opens <= MaxOpens /\ sessions \subseteq 1 .. opens /\ sessions \subseteq Ids
<1>1. opens \in 0 .. MaxOpens /\ sessions \subseteq 1 .. opens
  BY DEF ManagerInv, TypeOK, Kinds
<1>2. QED
  BY <1>1, BoundFacts DEF Ids

LEMMA StagesKnown ==
  /\ Closing \subseteq AllStages /\ Asking \subseteq AllStages /\ {"look", "done"} \subseteq AllStages
  /\ {"idle", "close", "skip", "mark", "kill"} \subseteq Closing
  /\ {"open", "count", "insert", "touch", "input", "write"} \subseteq Asking
BY DEF AllStages, Closing, Asking

\* The stages are stages.
LEMMA StageKindStep ==
  ASSUME ManagerInv, Next
  PROVE  at' \in [Procs -> AllStages]
<1> USE ProcFacts
<1>0. at \in [Procs -> AllStages]
  BY DEF ManagerInv, TypeOK, Kinds
<1>1. ASSUME NEW p \in Callers, OpenStarts(p)
      PROVE  at' \in [Procs -> AllStages]
  BY <1>0, <1>1, StageKind, StagesKnown DEF OpenStarts, Goto
<1>2. ASSUME NEW p \in Callers, OpenLocks(p)
      PROVE  at' \in [Procs -> AllStages]
  BY <1>0, <1>2, StageKind, StagesKnown DEF OpenLocks, Goto, Return
<1>3. ASSUME NEW p \in Callers, OpenCounts(p)
      PROVE  at' \in [Procs -> AllStages]
  BY <1>0, <1>3 DEF table, OpenCounts
<1>4. ASSUME NEW p \in Callers, OpenRefuses(p)
      PROVE  at' \in [Procs -> AllStages]
  BY <1>0, <1>4, StageKind, StagesKnown DEF OpenRefuses, Goto, Return
<1>5. ASSUME NEW p \in Callers, OpenForks(p)
      PROVE  at' \in [Procs -> AllStages]
  BY <1>0, <1>5, StageKind, StagesKnown DEF OpenForks, Goto
<1>6. ASSUME NEW p \in Callers, OpenInserts(p)
      PROVE  at' \in [Procs -> AllStages]
  BY <1>0, <1>6, StageKind, StagesKnown DEF OpenInserts, Goto, Return
<1>7. ASSUME NEW p \in Callers, NEW what \in {"touch", "input", "mark"}, Ask(p, what)
      PROVE  at' \in [Procs -> AllStages]
  BY <1>0, <1>7, StageKind, StagesKnown DEF Ask, Goto
<1>8. ASSUME NEW p \in Callers, Touch(p)
      PROVE  at' \in [Procs -> AllStages]
  BY <1>0, <1>8, StageKind, StagesKnown DEF Touch, Goto, Return
<1>9. ASSUME NEW p \in Callers, InputLocks(p)
      PROVE  at' \in [Procs -> AllStages]
  BY <1>0, <1>9, StageKind, StagesKnown DEF InputLocks, Goto
<1>10. ASSUME NEW p \in Callers, InputReturns(p)
      PROVE  at' \in [Procs -> AllStages]
  BY <1>0, <1>10, StageKind, StagesKnown DEF InputReturns, Goto, Return
<1>11. ASSUME NEW p \in Procs, CloseLooks(p)
      PROVE  at' \in [Procs -> AllStages]
  BY <1>0, <1>11, StageKind, StagesKnown DEF CloseLooks, Goto
<1>12. ASSUME NEW p \in Procs, CloseSkips(p)
      PROVE  at' \in [Procs -> AllStages]
  BY <1>0, <1>12, ResumeGoes, StageKind, StagesKnown DEF CloseSkips
<1>13. ASSUME NEW p \in Procs, CloseMarks(p)
      PROVE  at' \in [Procs -> AllStages]
  <2>1. CASE Resume(p)
    BY <1>0, <2>1, ResumeGoes, StageKind, StagesKnown
  <2>2. CASE Goto(p, "kill")
    BY <1>0, <2>2, StageKind, StagesKnown DEF Goto
  <2>3. QED
    BY <1>13, <2>1, <2>2 DEF CloseMarks
<1>14. ASSUME NEW p \in Procs, CloseKills(p)
      PROVE  at' \in [Procs -> AllStages]
  BY <1>0, <1>14, ResumeGoes, StageKind, StagesKnown DEF CloseKills
<1>15. ASSUME CloseAll
      PROVE  at' \in [Procs -> AllStages]
  BY <1>0, <1>15, StageKind, StagesKnown DEF CloseAll, Goto
<1>16. ASSUME ReapStarts
      PROVE  at' \in [Procs -> AllStages]
  BY <1>0, <1>16, StageKind, StagesKnown DEF ReapStarts, Goto
<1>17. ASSUME ReapStops
      PROVE  at' \in [Procs -> AllStages]
  BY <1>0, <1>17, StageKind, StagesKnown DEF ReapStops, Goto
<1>18. ASSUME ReapLooks
      PROVE  at' \in [Procs -> AllStages]
  BY <1>0, <1>18 DEF table, ReapLooks
<1>19. ASSUME ReapUnlocks
      PROVE  at' \in [Procs -> AllStages]
  BY <1>0, <1>19, StageKind, StagesKnown DEF ReapUnlocks, Goto
<1>20. ASSUME NEW i \in Ids, Live(i)
      PROVE  at' \in [Procs -> AllStages]
  BY <1>0, <1>20 DEF table, Live, Prints, ShellEnds, SetExit, Quiet, Expires
<1>21. QED
  BY <1>1, <1>2, <1>3, <1>4, <1>5, <1>6, <1>7, <1>8, <1>9, <1>10, <1>11, <1>12, <1>13, <1>14, <1>15, <1>16, <1>17, <1>18, <1>19, <1>20 DEF Next, OpenStep, UseStep, CloseStarts, CloseStep, Reap

\* Who acts, acts for an owner and on a session.
LEMMA AimKindStep ==
  ASSUME ManagerInv, Next
  PROVE  for' \in [Procs -> Aims]
<1> USE ProcFacts
<1>0. for \in [Procs -> Aims] /\ left \in [Procs -> SUBSET Ids] /\ item \in [Ids -> Items]
        /\ opens \in Nat /\ sessions \subseteq Ids
  BY TablesKnown DEF ManagerInv, TypeOK, Kinds
<1>a. Nobody \in Aims
  BY DEF Nobody, Aims
<1>b. \A o \in Owners \cup {None}, j \in Ids \cup {None} : [owner |-> o, id |-> j] \in Aims
  BY DEF Aims
<1>c. \A j \in Ids : item[j].owner \in Owners \cup {None}
  BY <1>0 DEF Items
<1>r. ASSUME NEW p \in Procs, Resume(p) PROVE for' \in [Procs -> Aims]
  BY <1>0, <1>a, <1>r, AimKind DEF Resume, Return
<1>1. ASSUME NEW p \in Callers, OpenStarts(p)
      PROVE  for' \in [Procs -> Aims]
  BY <1>0, <1>b, <1>c, <1>1, AimKind DEF OpenStarts, Goto
<1>2. ASSUME NEW p \in Callers, OpenLocks(p)
      PROVE  for' \in [Procs -> Aims]
  BY <1>0, <1>a, <1>2, AimKind DEF OpenLocks, Goto, Return
<1>3. ASSUME NEW p \in Callers, OpenCounts(p)
      PROVE  for' \in [Procs -> Aims]
  BY <1>0, <1>3 DEF table, OpenCounts
<1>4. ASSUME NEW p \in Callers, OpenRefuses(p)
      PROVE  for' \in [Procs -> Aims]
  BY <1>0, <1>a, <1>4, AimKind DEF OpenRefuses, Goto, Return
<1>5. ASSUME NEW p \in Callers, OpenForks(p)
      PROVE  for' \in [Procs -> Aims]
  <2>1. [for[p] EXCEPT !.id = opens + 1] \in Aims
    <3>1. for[p] \in Aims
      BY <1>0
    <3>2. opens + 1 \in Ids
      BY <1>0, <1>5, BoundFacts DEF OpenForks, Ids
    <3>3. QED
      BY <3>1, <3>2 DEF Aims
  <2>2. for' = [for EXCEPT ![p] = [for[p] EXCEPT !.id = opens + 1]]
    BY <1>5 DEF OpenForks
  <2>3. QED
    BY <1>0, <2>1, <2>2, AimKind
<1>6. ASSUME NEW p \in Callers, OpenInserts(p)
      PROVE  for' \in [Procs -> Aims]
  BY <1>0, <1>a, <1>6, AimKind DEF OpenInserts, Goto, Return
<1>7. ASSUME NEW p \in Callers, NEW what \in {"touch", "input", "mark"}, Ask(p, what)
      PROVE  for' \in [Procs -> Aims]
  BY <1>0, <1>b, <1>c, <1>7, AimKind DEF Ask, Goto
<1>8. ASSUME NEW p \in Callers, Touch(p)
      PROVE  for' \in [Procs -> Aims]
  BY <1>0, <1>a, <1>8, AimKind DEF Touch, Goto, Return
<1>9. ASSUME NEW p \in Callers, InputLocks(p)
      PROVE  for' \in [Procs -> Aims]
  BY <1>0, <1>a, <1>9, AimKind DEF InputLocks, Goto
<1>10. ASSUME NEW p \in Callers, InputReturns(p)
      PROVE  for' \in [Procs -> Aims]
  BY <1>0, <1>a, <1>10, AimKind DEF InputReturns, Goto, Return
<1>11. ASSUME NEW p \in Procs, CloseLooks(p)
      PROVE  for' \in [Procs -> Aims]
  BY <1>0, <1>b, <1>c, <1>11, AimKind DEF CloseLooks, Goto
<1>12. ASSUME NEW p \in Procs, CloseSkips(p)
      PROVE  for' \in [Procs -> Aims]
  BY <1>0, <1>r, <1>12 DEF CloseSkips
<1>13. ASSUME NEW p \in Procs, CloseMarks(p)
      PROVE  for' \in [Procs -> Aims]
  BY <1>0, <1>r, <1>13 DEF CloseMarks
<1>14. ASSUME NEW p \in Procs, CloseKills(p)
      PROVE  for' \in [Procs -> Aims]
  BY <1>0, <1>r, <1>14 DEF CloseKills
<1>15. ASSUME CloseAll
      PROVE  for' \in [Procs -> Aims]
  BY <1>0, <1>15 DEF table, CloseAll, Goto
<1>16. ASSUME ReapStarts
      PROVE  for' \in [Procs -> Aims]
  BY <1>0, <1>16 DEF table, ReapStarts, Goto
<1>17. ASSUME ReapStops
      PROVE  for' \in [Procs -> Aims]
  BY <1>0, <1>17 DEF table, ReapStops, Goto
<1>18. ASSUME ReapLooks
      PROVE  for' \in [Procs -> Aims]
  BY <1>0, <1>18 DEF table, ReapLooks
<1>19. ASSUME ReapUnlocks
      PROVE  for' \in [Procs -> Aims]
  BY <1>0, <1>19 DEF table, ReapUnlocks, Goto
<1>20. ASSUME NEW i \in Ids, Live(i)
      PROVE  for' \in [Procs -> Aims]
  BY <1>0, <1>20 DEF table, Live, Prints, ShellEnds, SetExit, Quiet, Expires
<1>21. QED
  BY <1>1, <1>2, <1>3, <1>4, <1>5, <1>6, <1>7, <1>8, <1>9, <1>10, <1>11, <1>12, <1>13, <1>14, <1>15, <1>16, <1>17, <1>18, <1>19, <1>20 DEF Next, OpenStep, UseStep, CloseStarts, CloseStep, Reap

\* The lists are of sessions.
LEMMA ListKindsStep ==
  ASSUME ManagerInv, Next
  PROVE  left' \in [Procs -> SUBSET Ids] /\ found' \in [Procs -> SUBSET Ids]
<1> USE ProcFacts
<1>0. left \in [Procs -> SUBSET Ids] /\ found \in [Procs -> SUBSET Ids] /\ sessions \subseteq Ids
  BY TablesKnown DEF ManagerInv, TypeOK, Kinds
<1>r. ASSUME NEW p \in Procs, Resume(p)
      PROVE  left' \in [Procs -> SUBSET Ids] /\ found' \in [Procs -> SUBSET Ids]
  BY <1>0, <1>r, LeftKind, FoundKind DEF Resume, Return
<1>1. ASSUME NEW p \in Callers, OpenStarts(p)
      PROVE  left' \in [Procs -> SUBSET Ids] /\ found' \in [Procs -> SUBSET Ids]
  BY <1>0, <1>1 DEF table, OpenStarts, Goto
<1>2. ASSUME NEW p \in Callers, OpenLocks(p)
      PROVE  left' \in [Procs -> SUBSET Ids] /\ found' \in [Procs -> SUBSET Ids]
  BY <1>0, <1>2, LeftKind, FoundKind DEF OpenLocks, Goto, Return
<1>3. ASSUME NEW p \in Callers, OpenCounts(p)
      PROVE  left' \in [Procs -> SUBSET Ids] /\ found' \in [Procs -> SUBSET Ids]
  <2> PICK j \in left[p] : /\ left' = [left EXCEPT ![p] = left[p] \ {j}]
                          /\ \/ found' = [found EXCEPT ![p] = found[p] \cup {j}]
                             \/ found' = found
    BY <1>3 DEF OpenCounts
  <2>1. left[p] \ {j} \in SUBSET Ids /\ found[p] \cup {j} \in SUBSET Ids
    BY <1>0
  <2>2. QED
    BY <1>0, <2>1, LeftKind, FoundKind
<1>4. ASSUME NEW p \in Callers, OpenRefuses(p)
      PROVE  left' \in [Procs -> SUBSET Ids] /\ found' \in [Procs -> SUBSET Ids]
  BY <1>0, <1>4, LeftKind, FoundKind DEF OpenRefuses, Goto, Return
<1>5. ASSUME NEW p \in Callers, OpenForks(p)
      PROVE  left' \in [Procs -> SUBSET Ids] /\ found' \in [Procs -> SUBSET Ids]
  BY <1>0, <1>5 DEF table, OpenForks, Goto
<1>6. ASSUME NEW p \in Callers, OpenInserts(p)
      PROVE  left' \in [Procs -> SUBSET Ids] /\ found' \in [Procs -> SUBSET Ids]
  BY <1>0, <1>6, LeftKind, FoundKind DEF OpenInserts, Goto, Return
<1>7. ASSUME NEW p \in Callers, NEW what \in {"touch", "input", "mark"}, Ask(p, what)
      PROVE  left' \in [Procs -> SUBSET Ids] /\ found' \in [Procs -> SUBSET Ids]
  BY <1>0, <1>7 DEF table, Ask, Goto
<1>8. ASSUME NEW p \in Callers, Touch(p)
      PROVE  left' \in [Procs -> SUBSET Ids] /\ found' \in [Procs -> SUBSET Ids]
  BY <1>0, <1>8, LeftKind, FoundKind DEF Touch, Goto, Return
<1>9. ASSUME NEW p \in Callers, InputLocks(p)
      PROVE  left' \in [Procs -> SUBSET Ids] /\ found' \in [Procs -> SUBSET Ids]
  BY <1>0, <1>9 DEF table, InputLocks, Goto
<1>10. ASSUME NEW p \in Callers, InputReturns(p)
      PROVE  left' \in [Procs -> SUBSET Ids] /\ found' \in [Procs -> SUBSET Ids]
  BY <1>0, <1>10, LeftKind, FoundKind DEF InputReturns, Goto, Return
<1>11. ASSUME NEW p \in Procs, CloseLooks(p)
      PROVE  left' \in [Procs -> SUBSET Ids] /\ found' \in [Procs -> SUBSET Ids]
  BY <1>0, <1>11, LeftKind, FoundKind DEF CloseLooks, Goto
<1>12. ASSUME NEW p \in Procs, CloseSkips(p)
      PROVE  left' \in [Procs -> SUBSET Ids] /\ found' \in [Procs -> SUBSET Ids]
  BY <1>0, <1>r, <1>12 DEF CloseSkips
<1>13. ASSUME NEW p \in Procs, CloseMarks(p)
      PROVE  left' \in [Procs -> SUBSET Ids] /\ found' \in [Procs -> SUBSET Ids]
  BY <1>0, <1>r, <1>13 DEF CloseMarks
<1>14. ASSUME NEW p \in Procs, CloseKills(p)
      PROVE  left' \in [Procs -> SUBSET Ids] /\ found' \in [Procs -> SUBSET Ids]
  BY <1>0, <1>r, <1>14 DEF CloseKills
<1>15. ASSUME CloseAll
      PROVE  left' \in [Procs -> SUBSET Ids] /\ found' \in [Procs -> SUBSET Ids]
  BY <1>0, <1>15, LeftKind, FoundKind DEF CloseAll, Goto
<1>16. ASSUME ReapStarts
      PROVE  left' \in [Procs -> SUBSET Ids] /\ found' \in [Procs -> SUBSET Ids]
  BY <1>0, <1>16, LeftKind, FoundKind DEF ReapStarts, Goto
<1>17. ASSUME ReapStops
      PROVE  left' \in [Procs -> SUBSET Ids] /\ found' \in [Procs -> SUBSET Ids]
  BY <1>0, <1>17 DEF table, ReapStops, Goto
<1>18. ASSUME ReapLooks
      PROVE  left' \in [Procs -> SUBSET Ids] /\ found' \in [Procs -> SUBSET Ids]
  <2> PICK j \in left[Reaper] : /\ left' = [left EXCEPT ![Reaper] = left[Reaper] \ {j}]
                               /\ \/ found' = [found EXCEPT ![Reaper] = found[Reaper] \cup {j}]
                                  \/ found' = found
    BY <1>18 DEF ReapLooks
  <2>1. left[Reaper] \ {j} \in SUBSET Ids /\ found[Reaper] \cup {j} \in SUBSET Ids
    BY <1>0
  <2>2. QED
    BY <1>0, <2>1, LeftKind, FoundKind
<1>19. ASSUME ReapUnlocks
      PROVE  left' \in [Procs -> SUBSET Ids] /\ found' \in [Procs -> SUBSET Ids]
  BY <1>0, <1>19, LeftKind, FoundKind DEF ReapUnlocks, Goto
<1>20. ASSUME NEW i \in Ids, Live(i)
      PROVE  left' \in [Procs -> SUBSET Ids] /\ found' \in [Procs -> SUBSET Ids]
  BY <1>0, <1>20 DEF table, Live, Prints, ShellEnds, SetExit, Quiet, Expires
<1>21. QED
  BY <1>1, <1>2, <1>3, <1>4, <1>5, <1>6, <1>7, <1>8, <1>9, <1>10, <1>11, <1>12, <1>13, <1>14, <1>15, <1>16, <1>17, <1>18, <1>19, <1>20 DEF Next, OpenStep, UseStep, CloseStarts, CloseStep, Reap

\* What the steps do to a session keeps it a session.
LEMMA FieldKinds ==
  ASSUME NEW x \in Items
  PROVE  /\ \A v \in {"none", "alive", "dead"} : [x EXCEPT !.shell = v] \in Items
         /\ \A v \in 0 .. 2 : [x EXCEPT !.age = v] \in Items
         /\ [x EXCEPT !.closed = TRUE] \in Items /\ [x EXCEPT !.exited = TRUE] \in Items
         /\ [x EXCEPT !.closed = TRUE, !.age = 0] \in Items
         /\ [x EXCEPT !.exited = TRUE, !.age = 0] \in Items
<1>1. \A v \in {"none", "alive", "dead"} : [x EXCEPT !.shell = v] \in Items
  BY DEF Items
<1>2. \A v \in 0 .. 2 : [x EXCEPT !.age = v] \in Items
  BY DEF Items
<1>3. [x EXCEPT !.closed = TRUE] \in Items /\ [x EXCEPT !.exited = TRUE] \in Items
  BY DEF Items
<1>4. /\ [x EXCEPT !.closed = TRUE, !.age = 0] = [[x EXCEPT !.closed = TRUE] EXCEPT !.age = 0]
      /\ [x EXCEPT !.exited = TRUE, !.age = 0] = [[x EXCEPT !.exited = TRUE] EXCEPT !.age = 0]
  BY DEF Items
<1>5. ASSUME NEW y \in Items PROVE [y EXCEPT !.age = 0] \in Items
  BY DEF Items
<1>6. [[x EXCEPT !.closed = TRUE] EXCEPT !.age = 0] \in Items
  BY <1>3, <1>5
<1>7. [[x EXCEPT !.exited = TRUE] EXCEPT !.age = 0] \in Items
  BY <1>3, <1>5
<1>8. QED
  BY <1>1, <1>2, <1>3, <1>4, <1>6, <1>7

LEMMA StartedKind ==
  ASSUME NEW o \in Owners \cup {None}
  PROVE  Started(o) \in Items
BY DEF Started, Items

LEMMA ItemKind ==
  ASSUME item \in [Ids -> Items], NEW i, NEW x \in Items, item' = [item EXCEPT ![i] = x]
  PROVE  item' \in [Ids -> Items]
OBVIOUS

\* The sessions are sessions.
LEMMA ItemKindStep ==
  ASSUME ManagerInv, Next
  PROVE  item' \in [Ids -> Items]
<1> USE ProcFacts
<1>0. item \in [Ids -> Items] /\ for \in [Procs -> Aims] /\ sessions \subseteq Ids /\ opens \in Nat
  BY TablesKnown DEF ManagerInv, TypeOK, Kinds
<1>t. AimsAreKnown
  BY DEF ManagerInv
<1>d. ASSUME NEW i \in Ids, NEW v \in {"none", "alive", "dead"}, item' = [item EXCEPT ![i].shell = v]
      PROVE  item' \in [Ids -> Items]
  BY <1>0, <1>d, FieldKinds, ItemKind
<1>e. ASSUME NEW i \in Ids, NEW v \in 0 .. 2, item' = [item EXCEPT ![i].age = v]
      PROVE  item' \in [Ids -> Items]
  BY <1>0, <1>e, FieldKinds, ItemKind
<1>1. ASSUME NEW p \in Callers, OpenStarts(p)
      PROVE  item' \in [Ids -> Items]
  BY <1>0, <1>1 DEF table, OpenStarts, Goto
<1>2. ASSUME NEW p \in Callers, OpenLocks(p)
      PROVE  item' \in [Ids -> Items]
  BY <1>0, <1>2 DEF table, OpenLocks, Goto, Return
<1>3. ASSUME NEW p \in Callers, OpenCounts(p)
      PROVE  item' \in [Ids -> Items]
  BY <1>0, <1>3 DEF table, OpenCounts
<1>4. ASSUME NEW p \in Callers, OpenRefuses(p)
      PROVE  item' \in [Ids -> Items]
  BY <1>0, <1>4 DEF table, OpenRefuses, Goto, Return
<1>5. ASSUME NEW p \in Callers, OpenForks(p)
      PROVE  item' \in [Ids -> Items]
  <2>1. opens + 1 \in Ids /\ for[p].owner \in Owners \cup {None}
    BY <1>0, <1>5, BoundFacts DEF OpenForks, Ids, Aims
  <2>2. Started(for[p].owner) \in Items
    BY <2>1, StartedKind
  <2>3. QED
    BY <1>0, <1>5, <2>2, ItemKind DEF OpenForks
<1>6. ASSUME NEW p \in Callers, OpenInserts(p)
      PROVE  item' \in [Ids -> Items]
  <2>1. for[p].id \in Ids
    BY <1>t, <1>6 DEF AimsAreKnown, OpenInserts
  <2>2. item' = item \/ item' = [item EXCEPT ![for[p].id].shell = "dead"]
    BY <1>6 DEF OpenInserts, Set
  <2>3. QED
    BY <1>0, <1>d, <2>1, <2>2
<1>7. ASSUME NEW p \in Callers, NEW what \in {"touch", "input", "mark"}, Ask(p, what)
      PROVE  item' \in [Ids -> Items]
  BY <1>0, <1>7 DEF table, Ask, Goto
<1>8. ASSUME NEW p \in Callers, Touch(p)
      PROVE  item' \in [Ids -> Items]
  <2>1. for[p].id \in Ids
    BY <1>t, <1>8 DEF AimsAreKnown, Touch
  <2>2. Fresh(for[p].id) \in 0 .. 2
    BY DEF Fresh
  <2>3. item' = item \/ item' = [item EXCEPT ![for[p].id].age = Fresh(for[p].id)]
    BY <1>8 DEF Touch
  <2>4. QED
    BY <1>0, <1>e, <2>1, <2>2, <2>3
<1>9. ASSUME NEW p \in Callers, InputLocks(p)
      PROVE  item' \in [Ids -> Items]
  BY <1>0, <1>9 DEF table, InputLocks, Goto
<1>10. ASSUME NEW p \in Callers, InputReturns(p)
      PROVE  item' \in [Ids -> Items]
  <2>1. for[p].id \in Ids
    BY <1>t, <1>10 DEF AimsAreKnown, InputReturns
  <2>2. Fresh(for[p].id) \in 0 .. 2
    BY DEF Fresh
  <2>3. item' = [item EXCEPT ![for[p].id].age = Fresh(for[p].id)]
    BY <1>10 DEF InputReturns
  <2>4. QED
    BY <1>0, <1>e, <2>1, <2>2, <2>3
<1>11. ASSUME NEW p \in Procs, CloseLooks(p)
      PROVE  item' \in [Ids -> Items]
  BY <1>0, <1>11 DEF table, CloseLooks, Goto
<1>12. ASSUME NEW p \in Procs, CloseSkips(p)
      PROVE  item' \in [Ids -> Items]
  BY <1>0, <1>12 DEF table, CloseSkips
<1>13. ASSUME NEW p \in Procs, CloseMarks(p)
      PROVE  item' \in [Ids -> Items]
  <2>1. for[p].id \in Ids
    BY <1>t, <1>13 DEF AimsAreKnown, CloseMarks
  <2>2. [item[for[p].id] EXCEPT !.closed = TRUE, !.age = 0] \in Items
    BY <1>0, <2>1, FieldKinds
  <2>3. \/ item' = item
        \/ item' = [item EXCEPT ![for[p].id] = [item[for[p].id] EXCEPT !.closed = TRUE, !.age = 0]]
    BY <1>0, <2>1, <1>13 DEF CloseMarks
  <2>4. QED
    BY <1>0, <2>2, <2>3, ItemKind
<1>14. ASSUME NEW p \in Procs, CloseKills(p)
      PROVE  item' \in [Ids -> Items]
  <2>1. for[p].id \in Ids
    BY <1>t, <1>14 DEF AimsAreKnown, CloseKills
  <2>2. item' = [item EXCEPT ![for[p].id].shell = "dead"]
    BY <1>14 DEF CloseKills, Set
  <2>3. QED
    BY <1>d, <2>1, <2>2
<1>15. ASSUME CloseAll
      PROVE  item' \in [Ids -> Items]
  BY <1>0, <1>15 DEF table, CloseAll, Goto
<1>16. ASSUME ReapStarts
      PROVE  item' \in [Ids -> Items]
  BY <1>0, <1>16 DEF table, ReapStarts, Goto
<1>17. ASSUME ReapStops
      PROVE  item' \in [Ids -> Items]
  BY <1>0, <1>17 DEF table, ReapStops, Goto
<1>18. ASSUME ReapLooks
      PROVE  item' \in [Ids -> Items]
  BY <1>0, <1>18 DEF table, ReapLooks
<1>19. ASSUME ReapUnlocks
      PROVE  item' \in [Ids -> Items]
  BY <1>0, <1>19 DEF table, ReapUnlocks, Goto
<1>20. ASSUME NEW i \in Ids, Live(i)
      PROVE  item' \in [Ids -> Items]
  <2>1. CASE Prints(i)
    <3>1. item' = [item EXCEPT ![i].age = 0]
      BY <2>1 DEF Prints, Set
    <3>2. 0 \in 0 .. 2
      OBVIOUS
    <3>3. QED
      BY <1>e, <3>1, <3>2
  <2>2. CASE ShellEnds(i)
    BY <1>d, <2>2 DEF ShellEnds, Set
  <2>3. CASE SetExit(i)
    <3>1. [item[i] EXCEPT !.exited = TRUE, !.age = 0] \in Items
      BY <1>0, FieldKinds
    <3>2. item' = [item EXCEPT ![i] = [item[i] EXCEPT !.exited = TRUE, !.age = 0]]
      BY <1>0, <2>3 DEF SetExit
    <3>3. QED
      BY <1>0, <3>1, <3>2, ItemKind
  <2>4. CASE Quiet(i)
    <3>1. item' = [item EXCEPT ![i].age = 1]
      BY <2>4 DEF Quiet, Set
    <3>2. 1 \in 0 .. 2
      OBVIOUS
    <3>3. QED
      BY <1>e, <3>1, <3>2
  <2>5. CASE Expires(i)
    <3>1. item' = [item EXCEPT ![i].age = 2]
      BY <2>5 DEF Expires, Set
    <3>2. 2 \in 0 .. 2
      OBVIOUS
    <3>3. QED
      BY <1>e, <3>1, <3>2
  <2>6. QED
    BY <1>20, <2>1, <2>2, <2>3, <2>4, <2>5 DEF Live
<1>21. QED
  BY <1>1, <1>2, <1>3, <1>4, <1>5, <1>6, <1>7, <1>8, <1>9, <1>10, <1>11, <1>12, <1>13, <1>14, <1>15, <1>16, <1>17, <1>18, <1>19, <1>20 DEF Next, OpenStep, UseStep, CloseStarts, CloseStep, Reap

\* Only requests hold a session over a call.
LEMMA HoldKindStep ==
  ASSUME ManagerInv, Next
  PROVE  hold' \in [Ids -> Callers \cup {Free}]
<1> USE ProcFacts
<1>0. hold \in [Ids -> Callers \cup {Free}]
  BY DEF ManagerInv, TypeOK, Kinds
<1>1. ASSUME NEW p \in Callers, OpenStarts(p)
      PROVE  hold' \in [Ids -> Callers \cup {Free}]
  BY <1>0, <1>1 DEF table, OpenStarts, Goto
<1>2. ASSUME NEW p \in Callers, OpenLocks(p)
      PROVE  hold' \in [Ids -> Callers \cup {Free}]
  BY <1>0, <1>2 DEF table, OpenLocks, Goto, Return
<1>3. ASSUME NEW p \in Callers, OpenCounts(p)
      PROVE  hold' \in [Ids -> Callers \cup {Free}]
  BY <1>0, <1>3 DEF table, OpenCounts
<1>4. ASSUME NEW p \in Callers, OpenRefuses(p)
      PROVE  hold' \in [Ids -> Callers \cup {Free}]
  BY <1>0, <1>4 DEF table, OpenRefuses, Goto, Return
<1>5. ASSUME NEW p \in Callers, OpenForks(p)
      PROVE  hold' \in [Ids -> Callers \cup {Free}]
  BY <1>0, <1>5 DEF table, OpenForks, Goto
<1>6. ASSUME NEW p \in Callers, OpenInserts(p)
      PROVE  hold' \in [Ids -> Callers \cup {Free}]
  BY <1>0, <1>6 DEF table, OpenInserts, Goto, Return
<1>7. ASSUME NEW p \in Callers, NEW what \in {"touch", "input", "mark"}, Ask(p, what)
      PROVE  hold' \in [Ids -> Callers \cup {Free}]
  BY <1>0, <1>7 DEF table, Ask, Goto
<1>8. ASSUME NEW p \in Callers, Touch(p)
      PROVE  hold' \in [Ids -> Callers \cup {Free}]
  BY <1>0, <1>8 DEF table, Touch, Goto, Return
<1>9. ASSUME NEW p \in Callers, InputLocks(p)
      PROVE  hold' \in [Ids -> Callers \cup {Free}]
  BY <1>0, <1>9 DEF InputLocks
<1>10. ASSUME NEW p \in Callers, InputReturns(p)
      PROVE  hold' \in [Ids -> Callers \cup {Free}]
  BY <1>0, <1>10 DEF InputReturns
<1>11. ASSUME NEW p \in Procs, CloseLooks(p)
      PROVE  hold' \in [Ids -> Callers \cup {Free}]
  BY <1>0, <1>11 DEF table, CloseLooks, Goto
<1>12. ASSUME NEW p \in Procs, CloseSkips(p)
      PROVE  hold' \in [Ids -> Callers \cup {Free}]
  BY <1>0, <1>12 DEF table, CloseSkips
<1>13. ASSUME NEW p \in Procs, CloseMarks(p)
      PROVE  hold' \in [Ids -> Callers \cup {Free}]
  BY <1>0, <1>13 DEF table, CloseMarks
<1>14. ASSUME NEW p \in Procs, CloseKills(p)
      PROVE  hold' \in [Ids -> Callers \cup {Free}]
  BY <1>0, <1>14 DEF table, CloseKills
<1>15. ASSUME CloseAll
      PROVE  hold' \in [Ids -> Callers \cup {Free}]
  BY <1>0, <1>15 DEF table, CloseAll, Goto
<1>16. ASSUME ReapStarts
      PROVE  hold' \in [Ids -> Callers \cup {Free}]
  BY <1>0, <1>16 DEF table, ReapStarts, Goto
<1>17. ASSUME ReapStops
      PROVE  hold' \in [Ids -> Callers \cup {Free}]
  BY <1>0, <1>17 DEF table, ReapStops, Goto
<1>18. ASSUME ReapLooks
      PROVE  hold' \in [Ids -> Callers \cup {Free}]
  BY <1>0, <1>18 DEF table, ReapLooks
<1>19. ASSUME ReapUnlocks
      PROVE  hold' \in [Ids -> Callers \cup {Free}]
  BY <1>0, <1>19 DEF table, ReapUnlocks, Goto
<1>20. ASSUME NEW i \in Ids, Live(i)
      PROVE  hold' \in [Ids -> Callers \cup {Free}]
  BY <1>0, <1>20 DEF table, Live, Prints, ShellEnds, SetExit, Quiet, Expires
<1>21. QED
  BY <1>1, <1>2, <1>3, <1>4, <1>5, <1>6, <1>7, <1>8, <1>9, <1>10, <1>11, <1>12, <1>13, <1>14, <1>15, <1>16, <1>17, <1>18, <1>19, <1>20 DEF Next, OpenStep, UseStep, CloseStarts, CloseStep, Reap

\* The table and the counters.
LEMMA TableKindStep ==
  ASSUME ManagerInv, Next
  PROVE  /\ mu' \in Procs \cup {Free} /\ closed' \in BOOLEAN /\ opens' \in 0 .. MaxOpens
         /\ sessions' \subseteq 1 .. opens' /\ uses' \in 0 .. MaxUses
<1>0. /\ mu \in Procs \cup {Free} /\ closed \in BOOLEAN /\ uses \in 0 .. MaxUses
      /\ opens \in Nat /\ opens <= MaxOpens /\ sessions \subseteq 1 .. opens
  BY TablesKnown DEF ManagerInv, TypeOK, Kinds
<1>u. uses \in 0 .. MaxUses
  BY <1>0
<1>s. ASSUME UNCHANGED <<mu, closed, sessions, opens, uses>> PROVE 
      /\ mu' \in Procs \cup {Free} /\ closed' \in BOOLEAN /\ opens' \in 0 .. MaxOpens
      /\ sessions' \subseteq 1 .. opens' /\ uses' \in 0 .. MaxUses
  BY <1>0, <1>s, BoundFacts
<1>1. ASSUME NEW p \in Callers, OpenStarts(p)
      PROVE  /\ mu' \in Procs \cup {Free} /\ closed' \in BOOLEAN /\ opens' \in 0 .. MaxOpens
         /\ sessions' \subseteq 1 .. opens' /\ uses' \in 0 .. MaxUses
  BY ProcFacts, <1>s, <1>1 DEF OpenStarts, table
<1>2. ASSUME NEW p \in Callers, OpenLocks(p)
      PROVE  /\ mu' \in Procs \cup {Free} /\ closed' \in BOOLEAN /\ opens' \in 0 .. MaxOpens
         /\ sessions' \subseteq 1 .. opens' /\ uses' \in 0 .. MaxUses
  BY ProcFacts, <1>0, <1>2, BoundFacts DEF OpenLocks, table
<1>3. ASSUME NEW p \in Callers, OpenCounts(p)
      PROVE  /\ mu' \in Procs \cup {Free} /\ closed' \in BOOLEAN /\ opens' \in 0 .. MaxOpens
         /\ sessions' \subseteq 1 .. opens' /\ uses' \in 0 .. MaxUses
  BY ProcFacts, <1>s, <1>3 DEF OpenCounts, table
<1>4. ASSUME NEW p \in Callers, OpenRefuses(p)
      PROVE  /\ mu' \in Procs \cup {Free} /\ closed' \in BOOLEAN /\ opens' \in 0 .. MaxOpens
         /\ sessions' \subseteq 1 .. opens' /\ uses' \in 0 .. MaxUses
  BY ProcFacts, <1>0, <1>4, BoundFacts DEF OpenRefuses, table
<1>5. ASSUME NEW p \in Callers, OpenForks(p)
      PROVE  /\ mu' \in Procs \cup {Free} /\ closed' \in BOOLEAN /\ opens' \in 0 .. MaxOpens
         /\ sessions' \subseteq 1 .. opens' /\ uses' \in 0 .. MaxUses
  BY ProcFacts, <1>0, <1>5, BoundFacts DEF OpenForks, table
<1>6. ASSUME NEW p \in Callers, OpenInserts(p)
      PROVE  /\ mu' \in Procs \cup {Free} /\ closed' \in BOOLEAN /\ opens' \in 0 .. MaxOpens
         /\ sessions' \subseteq 1 .. opens' /\ uses' \in 0 .. MaxUses
  <2>1. AimsAreKnown /\ CountIsComplete
    BY DEF ManagerInv
  <2>2. for[p].id \in 1 .. opens
    <3>1. at[p] = "insert"
      BY <1>6 DEF OpenInserts
    <3>2. for[p].id \in Ids
      BY ProcFacts, <2>1, <3>1 DEF AimsAreKnown
    <3>3. for[p].id = opens
      BY <2>1, <3>1 DEF CountIsComplete, Counted
    <3>4. QED
      BY <1>0, <3>2, <3>3 DEF Ids
  <2>3. sessions' \subseteq 1 .. opens'
    BY <1>0, <1>6, <2>2 DEF OpenInserts
  <2>4. mu' \in Procs \cup {Free} /\ UNCHANGED <<closed, opens, uses>>
    BY <1>0, <1>6 DEF OpenInserts, Unlock
  <2>5. QED
    BY <1>0, <2>3, <2>4, BoundFacts
<1>7. ASSUME NEW p \in Callers, NEW what \in {"touch", "input", "mark"}, Ask(p, what)
      PROVE  /\ mu' \in Procs \cup {Free} /\ closed' \in BOOLEAN /\ opens' \in 0 .. MaxOpens
         /\ sessions' \subseteq 1 .. opens' /\ uses' \in 0 .. MaxUses
  <2>1. uses < MaxUses /\ uses' = uses + 1 /\ UNCHANGED <<mu, closed, sessions, opens>>
    BY <1>7 DEF Ask, table
  <2>2. uses' \in 0 .. MaxUses
    BY <1>u, <2>1, BoundFacts
  <2>3. opens' \in 0 .. MaxOpens
    BY <1>0, <2>1, BoundFacts
  <2>4. QED
    BY <1>0, <2>1, <2>2, <2>3
<1>8. ASSUME NEW p \in Callers, Touch(p)
      PROVE  /\ mu' \in Procs \cup {Free} /\ closed' \in BOOLEAN /\ opens' \in 0 .. MaxOpens
         /\ sessions' \subseteq 1 .. opens' /\ uses' \in 0 .. MaxUses
  BY ProcFacts, <1>s, <1>8 DEF Touch, table
<1>9. ASSUME NEW p \in Callers, InputLocks(p)
      PROVE  /\ mu' \in Procs \cup {Free} /\ closed' \in BOOLEAN /\ opens' \in 0 .. MaxOpens
         /\ sessions' \subseteq 1 .. opens' /\ uses' \in 0 .. MaxUses
  BY ProcFacts, <1>s, <1>9 DEF InputLocks, table
<1>10. ASSUME NEW p \in Callers, InputReturns(p)
      PROVE  /\ mu' \in Procs \cup {Free} /\ closed' \in BOOLEAN /\ opens' \in 0 .. MaxOpens
         /\ sessions' \subseteq 1 .. opens' /\ uses' \in 0 .. MaxUses
  BY ProcFacts, <1>s, <1>10 DEF InputReturns, table
<1>11. ASSUME NEW p \in Procs, CloseLooks(p)
      PROVE  /\ mu' \in Procs \cup {Free} /\ closed' \in BOOLEAN /\ opens' \in 0 .. MaxOpens
         /\ sessions' \subseteq 1 .. opens' /\ uses' \in 0 .. MaxUses
  BY ProcFacts, <1>s, <1>11 DEF CloseLooks, table
<1>12. ASSUME NEW p \in Procs, CloseSkips(p)
      PROVE  /\ mu' \in Procs \cup {Free} /\ closed' \in BOOLEAN /\ opens' \in 0 .. MaxOpens
         /\ sessions' \subseteq 1 .. opens' /\ uses' \in 0 .. MaxUses
  BY ProcFacts, <1>s, <1>12 DEF CloseSkips, table
<1>13. ASSUME NEW p \in Procs, CloseMarks(p)
      PROVE  /\ mu' \in Procs \cup {Free} /\ closed' \in BOOLEAN /\ opens' \in 0 .. MaxOpens
         /\ sessions' \subseteq 1 .. opens' /\ uses' \in 0 .. MaxUses
  BY ProcFacts, <1>s, <1>13 DEF CloseMarks, table
<1>14. ASSUME NEW p \in Procs, CloseKills(p)
      PROVE  /\ mu' \in Procs \cup {Free} /\ closed' \in BOOLEAN /\ opens' \in 0 .. MaxOpens
         /\ sessions' \subseteq 1 .. opens' /\ uses' \in 0 .. MaxUses
  BY ProcFacts, <1>s, <1>14 DEF CloseKills, table
<1>15. ASSUME CloseAll
      PROVE  /\ mu' \in Procs \cup {Free} /\ closed' \in BOOLEAN /\ opens' \in 0 .. MaxOpens
         /\ sessions' \subseteq 1 .. opens' /\ uses' \in 0 .. MaxUses
  BY ProcFacts, <1>0, <1>15, BoundFacts DEF CloseAll, table
<1>16. ASSUME ReapStarts
      PROVE  /\ mu' \in Procs \cup {Free} /\ closed' \in BOOLEAN /\ opens' \in 0 .. MaxOpens
         /\ sessions' \subseteq 1 .. opens' /\ uses' \in 0 .. MaxUses
  BY ProcFacts, <1>0, <1>16, BoundFacts DEF ReapStarts, table
<1>17. ASSUME ReapStops
      PROVE  /\ mu' \in Procs \cup {Free} /\ closed' \in BOOLEAN /\ opens' \in 0 .. MaxOpens
         /\ sessions' \subseteq 1 .. opens' /\ uses' \in 0 .. MaxUses
  BY ProcFacts, <1>s, <1>17 DEF ReapStops, table
<1>18. ASSUME ReapLooks
      PROVE  /\ mu' \in Procs \cup {Free} /\ closed' \in BOOLEAN /\ opens' \in 0 .. MaxOpens
         /\ sessions' \subseteq 1 .. opens' /\ uses' \in 0 .. MaxUses
  <2>1. sessions' \subseteq sessions
    BY <1>18 DEF ReapLooks
  <2>2. UNCHANGED <<mu, closed, opens, uses>>
    BY <1>18 DEF ReapLooks
  <2>3. QED
    BY <1>0, <2>1, <2>2, BoundFacts
<1>19. ASSUME ReapUnlocks
      PROVE  /\ mu' \in Procs \cup {Free} /\ closed' \in BOOLEAN /\ opens' \in 0 .. MaxOpens
         /\ sessions' \subseteq 1 .. opens' /\ uses' \in 0 .. MaxUses
  BY <1>0, <1>19, BoundFacts DEF ReapUnlocks, Unlock
<1>20. ASSUME NEW i \in Ids, Live(i)
      PROVE  /\ mu' \in Procs \cup {Free} /\ closed' \in BOOLEAN /\ opens' \in 0 .. MaxOpens
         /\ sessions' \subseteq 1 .. opens' /\ uses' \in 0 .. MaxUses
  BY <1>s, <1>20 DEF Live, Prints, ShellEnds, SetExit, Quiet, Expires, table
<1>21. QED
  BY <1>1, <1>2, <1>3, <1>4, <1>5, <1>6, <1>7, <1>8, <1>9, <1>10, <1>11, <1>12, <1>13, <1>14, <1>15, <1>16, <1>17, <1>18, <1>19, <1>20 DEF Next, OpenStep, UseStep, CloseStarts, CloseStep, Reap

LEMMA KindsStep ==
  ASSUME ManagerInv, Next
  PROVE  Kinds'
BY StageKindStep, AimKindStep, ListKindsStep, ItemKindStep, HoldKindStep, TableKindStep DEF Kinds

\* The manager's mutex is held by the call that took it.
LEMMA MutexStep ==
  ASSUME ManagerInv, Next
  PROVE  ManagerMutex'
<1> USE ProcFacts
<1>0. at \in [Procs -> AllStages] /\ ManagerMutex /\ StagesAreOwn
  BY DEF ManagerInv, TypeOK, Kinds
<1>n. ASSUME NEW p \in Procs, NEW s, mu' = mu, at' = [at EXCEPT ![p] = s],
             at[p] \notin {"count", "insert", "look"}, s \notin {"count", "insert", "look"}
      PROVE  ManagerMutex'
  BY <1>0, <1>n DEF ManagerMutex
<1>g. ASSUME NEW p \in Procs, mu = Free, mu' = p, NEW s \in {"count", "insert", "look"},
             at' = [at EXCEPT ![p] = s]
      PROVE  ManagerMutex'
  BY <1>0, <1>g DEF ManagerMutex
<1>f. ASSUME NEW p \in Procs, at[p] \in {"count", "insert", "look"}, mu' = Free,
             NEW s, s \notin {"count", "insert", "look"}, at' = [at EXCEPT ![p] = s]
      PROVE  ManagerMutex'
  BY <1>0, <1>f DEF ManagerMutex
<1>1. ASSUME NEW p \in Callers, OpenStarts(p)
      PROVE  ManagerMutex'
  BY <1>n, <1>1 DEF table, OpenStarts, Goto
<1>2. ASSUME NEW p \in Callers, OpenLocks(p)
      PROVE  ManagerMutex'
  <2>1. CASE closed
    BY <2>1, <1>n, <1>2 DEF OpenLocks, Goto, Return
  <2>2. CASE ~closed
    BY <2>2, <1>g, <1>2 DEF OpenLocks, Goto
  <2>3. QED
    BY <2>1, <2>2
<1>3. ASSUME NEW p \in Callers, OpenCounts(p)
      PROVE  ManagerMutex'
  BY <1>0, <1>3 DEF ManagerMutex, table, OpenCounts
<1>4. ASSUME NEW p \in Callers, OpenRefuses(p)
      PROVE  ManagerMutex'
  BY <1>f, <1>4 DEF OpenRefuses, Goto, Return
<1>5. ASSUME NEW p \in Callers, OpenForks(p)
      PROVE  ManagerMutex'
  BY <1>0, <1>5 DEF ManagerMutex, table, OpenForks, Goto
<1>6. ASSUME NEW p \in Callers, OpenInserts(p)
      PROVE  ManagerMutex'
  BY <1>0, <1>f, <1>6 DEF OpenInserts, Unlock, Goto, Return, ManagerMutex
<1>7. ASSUME NEW p \in Callers, NEW what \in {"touch", "input", "mark"}, Ask(p, what)
      PROVE  ManagerMutex'
  BY <1>n, <1>7 DEF table, Ask, Goto
<1>8. ASSUME NEW p \in Callers, Touch(p)
      PROVE  ManagerMutex'
  BY <1>n, <1>8 DEF table, Touch, Goto, Return
<1>9. ASSUME NEW p \in Callers, InputLocks(p)
      PROVE  ManagerMutex'
  BY <1>n, <1>9 DEF table, InputLocks, Goto
<1>10. ASSUME NEW p \in Callers, InputReturns(p)
      PROVE  ManagerMutex'
  BY <1>n, <1>10 DEF table, InputReturns, Goto, Return
<1>11. ASSUME NEW p \in Procs, CloseLooks(p)
      PROVE  ManagerMutex'
  BY <1>n, <1>11 DEF table, CloseLooks, Goto
<1>12. ASSUME NEW p \in Procs, CloseSkips(p)
      PROVE  ManagerMutex'
  BY <1>n, <1>12, ResumeGoes DEF CloseSkips, table
<1>13. ASSUME NEW p \in Procs, CloseMarks(p)
      PROVE  ManagerMutex'
  <2>1. CASE Resume(p)
    BY <2>1, <1>n, <1>13, ResumeGoes DEF CloseMarks, table
  <2>2. CASE Goto(p, "kill")
    BY <2>2, <1>n, <1>13 DEF CloseMarks, table, Goto
  <2>3. QED
    BY <1>13, <2>1, <2>2 DEF CloseMarks
<1>14. ASSUME NEW p \in Procs, CloseKills(p)
      PROVE  ManagerMutex'
  BY <1>n, <1>14, ResumeGoes DEF CloseKills, table
<1>15. ASSUME CloseAll
      PROVE  ManagerMutex'
  BY <1>n, <1>15 DEF table, CloseAll, Goto
<1>16. ASSUME ReapStarts
      PROVE  ManagerMutex'
  BY <1>g, <1>16 DEF ReapStarts, Goto
<1>17. ASSUME ReapStops
      PROVE  ManagerMutex'
  BY <1>n, <1>17 DEF table, ReapStops, Goto
<1>18. ASSUME ReapLooks
      PROVE  ManagerMutex'
  BY <1>0, <1>18 DEF ManagerMutex, table, ReapLooks
<1>19. ASSUME ReapUnlocks
      PROVE  ManagerMutex'
  BY <1>0, <1>f, <1>19 DEF ReapUnlocks, Unlock, Goto, ManagerMutex
<1>20. ASSUME NEW i \in Ids, Live(i)
      PROVE  ManagerMutex'
  BY <1>0, <1>20 DEF ManagerMutex, table, Live, Prints, ShellEnds, SetExit, Quiet, Expires
<1>21. QED
  BY <1>1, <1>2, <1>3, <1>4, <1>5, <1>6, <1>7, <1>8, <1>9, <1>10, <1>11, <1>12, <1>13, <1>14, <1>15, <1>16, <1>17, <1>18, <1>19, <1>20 DEF Next, OpenStep, UseStep, CloseStarts, CloseStep, Reap

\* A session's mutex is held by the request that writes to it.
LEMMA SessionMutexStep ==
  ASSUME ManagerInv, Next
  PROVE  SessionMutexes'
<1> USE ProcFacts
<1>0. /\ at \in [Procs -> AllStages] /\ for \in [Procs -> Aims] /\ hold \in [Ids -> Callers \cup {Free}]
      /\ SessionMutexes /\ StagesAreOwn
  BY DEF ManagerInv, TypeOK, Kinds
<1>n. ASSUME hold' = hold,
             \A c \in Callers : \/ at'[c] = at[c] /\ for'[c] = for[c]
                                \/ at'[c] # "write" /\ at[c] # "write"
      PROVE  SessionMutexes'
  BY <1>0, <1>n DEF SessionMutexes
<1>p. ASSUME hold' = hold, NEW p \in Procs, NEW s, at' = [at EXCEPT ![p] = s], s # "write", at[p] # "write",
             NEW x, for' = for \/ for' = [for EXCEPT ![p] = x]
      PROVE  SessionMutexes'
  BY <1>0, <1>n, <1>p
<1>1. ASSUME NEW p \in Callers, OpenStarts(p)
      PROVE  SessionMutexes'
  BY <1>p, <1>1 DEF table, OpenStarts, Goto
<1>2. ASSUME NEW p \in Callers, OpenLocks(p)
      PROVE  SessionMutexes'
  BY <1>p, <1>2 DEF table, OpenLocks, Goto, Return
<1>3. ASSUME NEW p \in Callers, OpenCounts(p)
      PROVE  SessionMutexes'
  BY <1>0, <1>n, <1>3 DEF table, OpenCounts
<1>4. ASSUME NEW p \in Callers, OpenRefuses(p)
      PROVE  SessionMutexes'
  BY <1>p, <1>4 DEF table, OpenRefuses, Goto, Return
<1>5. ASSUME NEW p \in Callers, OpenForks(p)
      PROVE  SessionMutexes'
  BY <1>0, <1>n, <1>5 DEF table, OpenForks, Goto
<1>6. ASSUME NEW p \in Callers, OpenInserts(p)
      PROVE  SessionMutexes'
  BY <1>p, <1>6 DEF table, OpenInserts, Goto, Return
<1>7. ASSUME NEW p \in Callers, NEW what \in {"touch", "input", "mark"}, Ask(p, what)
      PROVE  SessionMutexes'
  BY <1>p, <1>7 DEF table, Ask, Goto
<1>8. ASSUME NEW p \in Callers, Touch(p)
      PROVE  SessionMutexes'
  BY <1>p, <1>8 DEF table, Touch, Goto, Return
<1>9. ASSUME NEW p \in Callers, InputLocks(p)
      PROVE  SessionMutexes'
  <2>1. CASE Active(for[p].id)
    <3>1. /\ hold' = [hold EXCEPT ![for[p].id] = p] /\ at' = [at EXCEPT ![p] = "write"] /\ for' = for
          /\ hold[for[p].id] = Free /\ at[p] = "input"
      BY <1>9, <2>1 DEF InputLocks, Goto
    <3>2. QED
      BY <1>0, <3>1 DEF SessionMutexes
  <2>2. CASE ~Active(for[p].id)
    BY <1>p, <1>9, <2>2 DEF InputLocks, Goto
  <2>3. QED
    BY <2>1, <2>2
<1>10. ASSUME NEW p \in Callers, InputReturns(p)
      PROVE  SessionMutexes'
  <2>1. /\ hold' = [hold EXCEPT ![for[p].id] = Free] /\ at' = [at EXCEPT ![p] = "idle"]
        /\ for' = [for EXCEPT ![p] = Nobody] /\ at[p] = "write"
    BY <1>10 DEF InputReturns, Return, Goto
  <2>2. QED
    BY <1>0, <2>1 DEF SessionMutexes
<1>11. ASSUME NEW p \in Procs, CloseLooks(p)
      PROVE  SessionMutexes'
  BY <1>p, <1>11 DEF table, CloseLooks, Goto
<1>12. ASSUME NEW p \in Procs, CloseSkips(p)
      PROVE  SessionMutexes'
  BY <1>p, <1>12 DEF CloseSkips, table, Resume, Return, Goto
<1>13. ASSUME NEW p \in Procs, CloseMarks(p)
      PROVE  SessionMutexes'
  BY <1>p, <1>13 DEF CloseMarks, table, Resume, Return, Goto
<1>14. ASSUME NEW p \in Procs, CloseKills(p)
      PROVE  SessionMutexes'
  BY <1>p, <1>14 DEF CloseKills, table, Resume, Return, Goto
<1>15. ASSUME CloseAll
      PROVE  SessionMutexes'
  BY <1>p, <1>15 DEF table, CloseAll, Goto
<1>16. ASSUME ReapStarts
      PROVE  SessionMutexes'
  BY <1>p, <1>16 DEF table, ReapStarts, Goto
<1>17. ASSUME ReapStops
      PROVE  SessionMutexes'
  BY <1>p, <1>17 DEF table, ReapStops, Goto
<1>18. ASSUME ReapLooks
      PROVE  SessionMutexes'
  BY <1>0, <1>n, <1>18 DEF table, ReapLooks
<1>19. ASSUME ReapUnlocks
      PROVE  SessionMutexes'
  BY <1>p, <1>19 DEF table, ReapUnlocks, Goto
<1>20. ASSUME NEW i \in Ids, Live(i)
      PROVE  SessionMutexes'
  BY <1>0, <1>n, <1>20 DEF table, Live, Prints, ShellEnds, SetExit, Quiet, Expires
<1>21. QED
  BY <1>1, <1>2, <1>3, <1>4, <1>5, <1>6, <1>7, <1>8, <1>9, <1>10, <1>11, <1>12, <1>13, <1>14, <1>15, <1>16, <1>17, <1>18, <1>19, <1>20 DEF Next, OpenStep, UseStep, CloseStarts, CloseStep, Reap

\* Who acts on a session knows which.
LEMMA AimsStep ==
  ASSUME ManagerInv, Next
  PROVE  AimsAreKnown'
<1> USE ProcFacts
<1>0. /\ at \in [Procs -> AllStages] /\ for \in [Procs -> Aims] /\ left \in [Procs -> SUBSET Ids]
      /\ AimsAreKnown /\ sessions \subseteq Ids /\ opens \in Nat
  BY TablesKnown DEF ManagerInv, TypeOK, Kinds
<1>n. ASSUME NEW p \in Procs, NEW s, at' = [at EXCEPT ![p] = s], NEW x, for' = [for EXCEPT ![p] = x],
             s \in {"insert", "touch", "input", "write", "mark", "kill"} => x.id \in Ids
      PROVE  AimsAreKnown'
  BY <1>0, <1>n DEF AimsAreKnown
<1>i. ASSUME NEW p \in Procs, NEW s, at' = [at EXCEPT ![p] = s], NEW x, for' = [for EXCEPT ![p] = x],
             s \notin {"insert", "touch", "input", "write", "mark", "kill"}
      PROVE  AimsAreKnown'
  BY <1>0, <1>i DEF AimsAreKnown
<1>j. ASSUME NEW p \in Procs, NEW s \in {"idle", "done"}, Return(p, s)
      PROVE  AimsAreKnown'
  <2>1. at' = [at EXCEPT ![p] = s] /\ for' = [for EXCEPT ![p] = Nobody]
    BY <1>j DEF Return, Goto
  <2>2. QED
    BY <1>i, <2>1
<1>k. ASSUME NEW p \in Procs, NEW s, at' = [at EXCEPT ![p] = s], for' = for,
             s \in {"insert", "touch", "input", "write", "mark", "kill"} => for[p].id \in Ids
      PROVE  AimsAreKnown'
  BY <1>0, <1>k DEF AimsAreKnown
<1>s. ASSUME at' = at, for' = for
      PROVE  AimsAreKnown'
  BY <1>0, <1>s DEF AimsAreKnown
<1>r. ASSUME NEW p \in Procs, Resume(p)
      PROVE  AimsAreKnown'
  BY <1>j, <1>k, <1>r DEF Resume, Goto
<1>1. ASSUME NEW p \in Callers, OpenStarts(p)
      PROVE  AimsAreKnown'
  <2> PICK o \in Owners : for' = [for EXCEPT ![p] = [owner |-> o, id |-> None]]
    BY <1>1 DEF OpenStarts
  <2>1. at' = [at EXCEPT ![p] = "open"]
    BY <1>1 DEF OpenStarts, Goto
  <2>2. QED
    BY <1>0, <2>1 DEF AimsAreKnown
<1>2. ASSUME NEW p \in Callers, OpenLocks(p)
      PROVE  AimsAreKnown'
  BY <1>j, <1>k, <1>2 DEF OpenLocks, Goto
<1>3. ASSUME NEW p \in Callers, OpenCounts(p)
      PROVE  AimsAreKnown'
  BY <1>s, <1>3 DEF OpenCounts
<1>4. ASSUME NEW p \in Callers, OpenRefuses(p)
      PROVE  AimsAreKnown'
  BY <1>j, <1>4 DEF OpenRefuses
<1>5. ASSUME NEW p \in Callers, OpenForks(p)
      PROVE  AimsAreKnown'
  <2>1. opens + 1 \in Ids
    BY <1>0, <1>5, BoundFacts DEF OpenForks, Ids
  <2>2. for' = [for EXCEPT ![p] = [for[p] EXCEPT !.id = opens + 1]] /\ at' = [at EXCEPT ![p] = "insert"]
    BY <1>5 DEF OpenForks, Goto
  <2>3. [for[p] EXCEPT !.id = opens + 1].id = opens + 1
    BY <1>0 DEF Aims
  <2>4. QED
    BY <1>n, <2>1, <2>2, <2>3
<1>6. ASSUME NEW p \in Callers, OpenInserts(p)
      PROVE  AimsAreKnown'
  BY <1>j, <1>6 DEF OpenInserts
<1>7. ASSUME NEW p \in Callers, NEW what \in {"touch", "input", "mark"}, Ask(p, what)
      PROVE  AimsAreKnown'
  BY <1>0, <1>n, <1>7 DEF Ask, Goto
<1>8. ASSUME NEW p \in Callers, Touch(p)
      PROVE  AimsAreKnown'
  BY <1>j, <1>8 DEF Touch
<1>9. ASSUME NEW p \in Callers, InputLocks(p)
      PROVE  AimsAreKnown'
  <2>1. for[p].id \in Ids
    BY <1>0, <1>9 DEF InputLocks, AimsAreKnown
  <2>2. QED
    BY <1>i, <1>k, <1>9, <2>1 DEF InputLocks, Goto
<1>10. ASSUME NEW p \in Callers, InputReturns(p)
      PROVE  AimsAreKnown'
  BY <1>j, <1>10 DEF InputReturns
<1>11. ASSUME NEW p \in Procs, CloseLooks(p)
      PROVE  AimsAreKnown'
  <2> PICK j \in left[p] :
         /\ for' = [for EXCEPT ![p] = [owner |-> item[j].owner, id |-> j]]
         /\ at' = [at EXCEPT ![p] = IF j \in sessions THEN "mark" ELSE "skip"]
    BY <1>11 DEF CloseLooks, Goto
  <2>1. j \in Ids
    BY <1>0
  <2>2. QED
    BY <1>n, <2>1
<1>12. ASSUME NEW p \in Procs, CloseSkips(p)
      PROVE  AimsAreKnown'
  BY <1>r, <1>12 DEF CloseSkips
<1>13. ASSUME NEW p \in Procs, CloseMarks(p)
      PROVE  AimsAreKnown'
  <2>1. CASE Resume(p)
    BY <1>r, <2>1
  <2>2. CASE Goto(p, "kill") /\ for' = for
    BY <1>0, <1>k, <1>13, <2>2 DEF CloseMarks, Goto, AimsAreKnown
  <2>3. QED
    BY <1>13, <2>1, <2>2 DEF CloseMarks
<1>14. ASSUME NEW p \in Procs, CloseKills(p)
      PROVE  AimsAreKnown'
  BY <1>r, <1>14 DEF CloseKills
<1>15. ASSUME CloseAll
      PROVE  AimsAreKnown'
  BY <1>k, <1>15 DEF CloseAll, Goto
<1>16. ASSUME ReapStarts
      PROVE  AimsAreKnown'
  BY <1>k, <1>16 DEF ReapStarts, Goto
<1>17. ASSUME ReapStops
      PROVE  AimsAreKnown'
  BY <1>k, <1>17 DEF ReapStops, Goto
<1>18. ASSUME ReapLooks
      PROVE  AimsAreKnown'
  BY <1>s, <1>18 DEF ReapLooks
<1>19. ASSUME ReapUnlocks
      PROVE  AimsAreKnown'
  BY <1>k, <1>19 DEF ReapUnlocks, Goto
<1>20. ASSUME NEW i \in Ids, Live(i)
      PROVE  AimsAreKnown'
  BY <1>s, <1>20 DEF Live, Prints, ShellEnds, SetExit, Quiet, Expires
<1>21. QED
  BY <1>1, <1>2, <1>3, <1>4, <1>5, <1>6, <1>7, <1>8, <1>9, <1>10, <1>11, <1>12, <1>13, <1>14, <1>15, <1>16, <1>17, <1>18, <1>19, <1>20 DEF Next, OpenStep, UseStep, CloseStarts, CloseStep, Reap

\* A session keeps its owner, and never runs again.
Calm ==
  \A i \in Ids :
    /\ item'[i].owner = item[i].owner
    /\ (item[i].closed => item'[i].closed) /\ (item[i].exited => item'[i].exited)
    /\ (item'[i].shell = "alive" => item[i].shell = "alive")

LEMMA CalmFacts ==
  ASSUME item \in [Ids -> Items], NEW j \in Ids
  PROVE  /\ item' = item => Calm
         /\ \A v : item' = [item EXCEPT ![j].age = v] => Calm
         /\ item' = [item EXCEPT ![j].shell = "dead"] => Calm
         /\ item' = [item EXCEPT ![j].closed = TRUE, ![j].age = 0] => Calm
         /\ item' = [item EXCEPT ![j].exited = TRUE, ![j].age = 0] => Calm
<1>0. item[j] \in Items
  OBVIOUS
<1>1. item' = item => Calm
  BY DEF Calm
<1>2. \A v : item' = [item EXCEPT ![j].age = v] => Calm
  BY <1>0 DEF Calm, Items
<1>3. item' = [item EXCEPT ![j].shell = "dead"] => Calm
  BY <1>0 DEF Calm, Items
<1>4. item' = [item EXCEPT ![j].closed = TRUE, ![j].age = 0] => Calm
  <2> SUFFICES ASSUME item' = [item EXCEPT ![j].closed = TRUE, ![j].age = 0] PROVE Calm
    OBVIOUS
  <2>1. item' = [item EXCEPT ![j] = [item[j] EXCEPT !.closed = TRUE, !.age = 0]]
    OBVIOUS
  <2>2. /\ [item[j] EXCEPT !.closed = TRUE, !.age = 0].owner = item[j].owner
        /\ [item[j] EXCEPT !.closed = TRUE, !.age = 0].closed = TRUE
        /\ [item[j] EXCEPT !.closed = TRUE, !.age = 0].exited = item[j].exited
        /\ [item[j] EXCEPT !.closed = TRUE, !.age = 0].shell = item[j].shell
    BY <1>0 DEF Items
  <2>3. QED
    BY <2>1, <2>2 DEF Calm
<1>5. item' = [item EXCEPT ![j].exited = TRUE, ![j].age = 0] => Calm
  <2> SUFFICES ASSUME item' = [item EXCEPT ![j].exited = TRUE, ![j].age = 0] PROVE Calm
    OBVIOUS
  <2>1. item' = [item EXCEPT ![j] = [item[j] EXCEPT !.exited = TRUE, !.age = 0]]
    OBVIOUS
  <2>2. /\ [item[j] EXCEPT !.exited = TRUE, !.age = 0].owner = item[j].owner
        /\ [item[j] EXCEPT !.exited = TRUE, !.age = 0].exited = TRUE
        /\ [item[j] EXCEPT !.exited = TRUE, !.age = 0].closed = item[j].closed
        /\ [item[j] EXCEPT !.exited = TRUE, !.age = 0].shell = item[j].shell
    BY <1>0 DEF Items
  <2>3. QED
    BY <2>1, <2>2 DEF Calm
<1>6. QED
  BY <1>1, <1>2, <1>3, <1>4, <1>5

\* All steps are calm but the start of a shell.
LEMMA CalmStep ==
  ASSUME ManagerInv, Next, opens' = opens
  PROVE  Calm
<1> USE ProcFacts
<1>0. item \in [Ids -> Items] /\ AimsAreKnown /\ opens \in Nat /\ opens' = opens
  BY TablesKnown DEF ManagerInv, TypeOK, Kinds
<1>s. item' = item => Calm
  BY DEF Calm
<1>1. ASSUME NEW p \in Callers, OpenStarts(p)
      PROVE  Calm
  BY <1>s, <1>1 DEF OpenStarts, table
<1>2. ASSUME NEW p \in Callers, OpenLocks(p)
      PROVE  Calm
  BY <1>s, <1>2 DEF OpenLocks, table
<1>3. ASSUME NEW p \in Callers, OpenCounts(p)
      PROVE  Calm
  BY <1>s, <1>3 DEF OpenCounts, table
<1>4. ASSUME NEW p \in Callers, OpenRefuses(p)
      PROVE  Calm
  BY <1>s, <1>4 DEF OpenRefuses, table
<1>5. ASSUME NEW p \in Callers, OpenForks(p)
      PROVE  Calm
  BY <1>0, <1>5 DEF OpenForks
<1>6. ASSUME NEW p \in Callers, OpenInserts(p)
      PROVE  Calm
  <2>1. for[p].id \in Ids
    BY <1>0, <1>6 DEF AimsAreKnown, OpenInserts
  <2>2. QED
    BY <1>0, <1>6, <2>1, CalmFacts DEF OpenInserts, Set
<1>7. ASSUME NEW p \in Callers, NEW what \in {"touch", "input", "mark"}, Ask(p, what)
      PROVE  Calm
  BY <1>s, <1>7 DEF Ask, table
<1>8. ASSUME NEW p \in Callers, Touch(p)
      PROVE  Calm
  <2>1. for[p].id \in Ids
    BY <1>0, <1>8 DEF AimsAreKnown, Touch
  <2>2. QED
    BY <1>0, <1>8, <2>1, CalmFacts DEF Touch, Set
<1>9. ASSUME NEW p \in Callers, InputLocks(p)
      PROVE  Calm
  BY <1>s, <1>9 DEF InputLocks, table
<1>10. ASSUME NEW p \in Callers, InputReturns(p)
      PROVE  Calm
  <2>1. for[p].id \in Ids
    BY <1>0, <1>10 DEF AimsAreKnown, InputReturns
  <2>2. QED
    BY <1>0, <1>10, <2>1, CalmFacts DEF InputReturns, Set
<1>11. ASSUME NEW p \in Procs, CloseLooks(p)
      PROVE  Calm
  BY <1>s, <1>11 DEF CloseLooks, table
<1>12. ASSUME NEW p \in Procs, CloseSkips(p)
      PROVE  Calm
  BY <1>s, <1>12 DEF CloseSkips, table
<1>13. ASSUME NEW p \in Procs, CloseMarks(p)
      PROVE  Calm
  <2>1. for[p].id \in Ids
    BY <1>0, <1>13 DEF AimsAreKnown, CloseMarks
  <2>2. QED
    BY <1>0, <1>13, <2>1, CalmFacts DEF CloseMarks, Set
<1>14. ASSUME NEW p \in Procs, CloseKills(p)
      PROVE  Calm
  <2>1. for[p].id \in Ids
    BY <1>0, <1>14 DEF AimsAreKnown, CloseKills
  <2>2. QED
    BY <1>0, <1>14, <2>1, CalmFacts DEF CloseKills, Set
<1>15. ASSUME CloseAll
      PROVE  Calm
  BY <1>s, <1>15 DEF CloseAll, table
<1>16. ASSUME ReapStarts
      PROVE  Calm
  BY <1>s, <1>16 DEF ReapStarts, table
<1>17. ASSUME ReapStops
      PROVE  Calm
  BY <1>s, <1>17 DEF ReapStops, table
<1>18. ASSUME ReapLooks
      PROVE  Calm
  BY <1>s, <1>18 DEF ReapLooks, table
<1>19. ASSUME ReapUnlocks
      PROVE  Calm
  BY <1>s, <1>19 DEF ReapUnlocks, table
<1>20. ASSUME NEW i \in Ids, Live(i)
      PROVE  Calm
  BY <1>0, <1>20, CalmFacts DEF Live, Prints, ShellEnds, SetExit, Quiet, Expires, Set
<1>21. QED
  BY <1>1, <1>2, <1>3, <1>4, <1>5, <1>6, <1>7, <1>8, <1>9, <1>10, <1>11, <1>12, <1>13, <1>14, <1>15, <1>16, <1>17, <1>18, <1>19, <1>20 DEF Next, OpenStep, UseStep, CloseStarts, CloseStep, Reap

\* Nothing is added to what runs unless a session is started or entered.
LEMMA RunningFacts ==
  ASSUME Calm, sessions \subseteq Ids, sessions' \subseteq sessions
  PROVE  Running' \subseteq Running
BY DEF Calm, Running, Active

\* A count is disturbed neither by sessions that end nor by other calls.
LEMMA CountFrame ==
  ASSUME ManagerInv, Calm, sessions' = sessions, opens' = opens, NEW c \in Callers,
         found'[c] = found[c],
         (at'[c] \in {"count", "insert"} \/ at[c] \in {"count", "insert"}) =>
           at'[c] = at[c] /\ for'[c] = for[c] /\ left'[c] = left[c]
  PROVE  Counted(c)'
<1>0. /\ Counted(c) /\ AimsAreKnown /\ sessions \subseteq Ids /\ opens \in Nat /\ c \in Procs
      /\ found \in [Procs -> SUBSET Ids]
  BY TablesKnown, ProcFacts DEF ManagerInv, TypeOK, Kinds, CountIsComplete
<1>1. Running' \subseteq Running
  BY <1>0, RunningFacts
<1>2. at'[c] \notin {"count", "insert"} => found'[c] = {}
  BY <1>0 DEF Counted
<1>3. at'[c] = "count" => left'[c] \cup found'[c] \subseteq sessions' /\ Running' \subseteq left'[c] \cup found'[c]
  BY <1>0, <1>1 DEF Counted
<1>4. ASSUME at'[c] = "insert"
      PROVE  /\ for'[c].id = opens' /\ item'[opens'].owner = for'[c].owner
             /\ found'[c] \subseteq 1 .. (opens' - 1) /\ Running' \subseteq found'[c]
             /\ Cardinality(found'[c]) < MaxSessions
             /\ Cardinality({i \in found'[c] : item'[i].owner = for'[c].owner}) < MaxOwnerSessions
  <2>0. at[c] = "insert" /\ for'[c] = for[c] /\ found'[c] = found[c]
    BY <1>4
  <2>1. /\ for[c].id = opens /\ item[opens].owner = for[c].owner
        /\ found[c] \subseteq 1 .. (opens - 1) /\ Running \subseteq found[c]
        /\ Cardinality(found[c]) < MaxSessions
        /\ Cardinality({i \in found[c] : item[i].owner = for[c].owner}) < MaxOwnerSessions
    BY <1>0, <2>0 DEF Counted
  <2>2. opens \in Ids
    BY <1>0, <2>0, <2>1 DEF AimsAreKnown
  <2>3. {i \in found'[c] : item'[i].owner = for'[c].owner} = {i \in found[c] : item[i].owner = for[c].owner}
    BY <1>0, <2>0 DEF Calm
  <2>4. item'[opens].owner = item[opens].owner
    BY <2>2 DEF Calm
  <2>5. QED
    BY <1>1, <2>0, <2>1, <2>3, <2>4
<1>5. QED
  BY <1>2, <1>3, <1>4 DEF Counted

\* Who neither counts nor enters has counted nothing.
LEMMA CountIdle ==
  ASSUME NEW c \in Callers, at'[c] \notin {"count", "insert"}, found'[c] = {}
  PROVE  Counted(c)'
BY DEF Counted

\* One call at a time holds the manager's mutex.
LEMMA Alone ==
  ASSUME ManagerMutex, NEW p \in Procs, NEW q \in Procs,
         at[p] \in {"count", "insert", "look"}, at[q] \in {"count", "insert", "look"}
  PROVE  p = q
BY DEF ManagerMutex

\* Whoever opens knows of every session that is active.
LEMMA CountStep ==
  ASSUME ManagerInv, Next
  PROVE  CountIsComplete'
<1> USE ProcFacts
<1>0. /\ at \in [Procs -> AllStages] /\ for \in [Procs -> Aims] /\ left \in [Procs -> SUBSET Ids]
      /\ found \in [Procs -> SUBSET Ids] /\ sessions \subseteq 1 .. opens /\ sessions \subseteq Ids
      /\ opens \in Nat /\ opens <= MaxOpens /\ item \in [Ids -> Items]
  BY TablesKnown DEF ManagerInv, TypeOK, Kinds
<1>c. CountIsComplete /\ AimsAreKnown /\ ManagerMutex
  BY DEF ManagerInv, TypeOK
<1>e. \A c \in Callers : at[c] \notin {"count", "insert"} => found[c] = {}
  BY <1>c DEF CountIsComplete, Counted
<1>n. ASSUME sessions' = sessions, opens' = opens, NEW p \in Procs, NEW s,
             at' = [at EXCEPT ![p] = s], s \notin {"count", "insert"}, at[p] \notin {"count", "insert"},
             \A q \in Procs : q # p => for'[q] = for[q] /\ left'[q] = left[q] /\ found'[q] = found[q],
             found' = found \/ found'[p] = {} \/ p \notin Callers
      PROVE  CountIsComplete'
  <2>1. \A c \in Callers : /\ found'[c] = found[c]
                           /\ (at'[c] \in {"count", "insert"} \/ at[c] \in {"count", "insert"}) =>
                                at'[c] = at[c] /\ for'[c] = for[c] /\ left'[c] = left[c]
    BY <1>0, <1>e, <1>n
  <2>2. QED
    BY <1>n, <2>1, CalmStep, CountFrame DEF CountIsComplete
<1>k. ASSUME NEW p \in Procs, sessions' = sessions, opens' = opens, for' = for, left' = left, found' = found,
             \A q \in Procs : q # p => at'[q] = at[q],
             at'[p] \notin {"count", "insert"}, at[p] \notin {"count", "insert"}
      PROVE  CountIsComplete'
  <2>1. \A c \in Callers : /\ found'[c] = found[c]
                           /\ (at'[c] \in {"count", "insert"} \/ at[c] \in {"count", "insert"}) =>
                                at'[c] = at[c] /\ for'[c] = for[c] /\ left'[c] = left[c]
    BY <1>k
  <2>2. QED
    BY <1>k, <2>1, CalmStep, CountFrame DEF CountIsComplete
<1>t. ASSUME sessions' = sessions, opens' = opens, NEW p \in Procs, NEW s \in {"idle", "done"},
             Return(p, s), at[p] \notin {"count", "insert"}
      PROVE  CountIsComplete'
  <2>1. /\ at' = [at EXCEPT ![p] = s] /\ for' = [for EXCEPT ![p] = Nobody]
        /\ left' = [left EXCEPT ![p] = {}] /\ found' = [found EXCEPT ![p] = {}]
    BY <1>t DEF Return, Goto
  <2>2. \A q \in Procs : q # p => for'[q] = for[q] /\ left'[q] = left[q] /\ found'[q] = found[q]
    BY <1>0, <2>1
  <2>3. found'[p] = {}
    BY <1>0, <2>1
  <2>4. s \notin {"count", "insert"}
    BY <1>t
  <2>5. QED
    BY <1>n, <1>t, <2>1, <2>2, <2>3, <2>4
<1>r. ASSUME sessions' = sessions, opens' = opens, NEW p \in Procs, Resume(p), at[p] \notin {"count", "insert"}
      PROVE  CountIsComplete'
  <2>1. CASE left[p] # {}
    <3>1. at' = [at EXCEPT ![p] = "close"] /\ for' = for /\ left' = left /\ found' = found
      BY <1>r, <2>1 DEF Resume, Goto
    <3>2. at'[p] = "close" /\ \A q \in Procs : q # p => at'[q] = at[q]
      BY <1>0, <3>1
    <3>3. QED
      BY <1>k, <1>r, <3>1, <3>2
  <2>2. CASE left[p] = {}
    BY <1>r, <1>t, <2>2 DEF Resume
  <2>3. QED
    BY <2>1, <2>2
<1>1. ASSUME NEW p \in Callers, OpenStarts(p)
      PROVE  CountIsComplete'
  <2>1. \A q \in Procs : q # p => for'[q] = for[q] /\ left'[q] = left[q] /\ found'[q] = found[q]
    BY <1>0, <1>1 DEF OpenStarts
  <2>2. QED
    BY <1>n, <1>1, <2>1 DEF OpenStarts, Goto, table
<1>2. ASSUME NEW p \in Callers, OpenLocks(p)
      PROVE  CountIsComplete'
  <2>1. CASE closed
    BY <1>t, <1>2, <2>1 DEF OpenLocks
  <2>2. CASE ~closed
    <3>0. /\ at' = [at EXCEPT ![p] = "count"] /\ left' = [left EXCEPT ![p] = sessions]
          /\ UNCHANGED <<sessions, opens, for, found, item>> /\ at[p] = "open"
      BY <1>2, <2>2 DEF OpenLocks, Goto
    <3>1. Calm
      BY <3>0, CalmStep
    <3>2. \A c \in Callers : c # p => Counted(c)'
      BY <1>0, <3>0, <3>1, CountFrame
    <3>3. Counted(p)'
      <4>1. at'[p] = "count" /\ left'[p] = sessions /\ found'[p] = {}
        BY <1>0, <1>e, <3>0
      <4>2. Running' \subseteq sessions
        BY <3>0 DEF Running
      <4>3. QED
        BY <3>0, <4>1, <4>2 DEF Counted
    <3>4. QED
      BY <3>2, <3>3 DEF CountIsComplete
  <2>3. QED
    BY <2>1, <2>2
<1>3. ASSUME NEW p \in Callers, OpenCounts(p)
      PROVE  CountIsComplete'
  <2>1. \A c \in Callers : c # p => at[c] \notin {"count", "insert"}
    BY <1>c, <1>3, Alone DEF OpenCounts
  <2>2. \A c \in Callers : c # p => at'[c] = at[c] /\ found'[c] = found[c]
    BY <1>0, <1>3 DEF OpenCounts, Goto, Return
  <2>3. \A c \in Callers : c # p => Counted(c)'
    BY <1>e, <2>1, <2>2, CountIdle
  <2>4. Counted(p)'
    <3> PICK j \in left[p] :
           /\ left' = [left EXCEPT ![p] = left[p] \ {j}]
           /\ found' = IF Active(j) THEN [found EXCEPT ![p] = found[p] \cup {j}] ELSE found
      BY <1>3 DEF OpenCounts
    <3>1. UNCHANGED <<sessions, opens, item, at>> /\ at[p] = "count"
      BY <1>3 DEF OpenCounts, table
    <3>2. left[p] \cup found[p] \subseteq sessions /\ Running \subseteq left[p] \cup found[p]
      BY <1>c, <3>1 DEF CountIsComplete, Counted
    <3>3. Running' = Running
      BY <3>1 DEF Running, Active
    <3>4. /\ left'[p] = left[p] \ {j}
          /\ found'[p] = IF Active(j) THEN found[p] \cup {j} ELSE found[p]
      BY <1>0
    <3>5. left'[p] \cup found'[p] \subseteq sessions
      BY <3>2, <3>4
    <3>6. Running \subseteq left'[p] \cup found'[p]
      BY <3>2, <3>4 DEF Running
    <3>7. QED
      BY <3>1, <3>3, <3>5, <3>6 DEF Counted
  <2>5. QED
    BY <2>3, <2>4 DEF CountIsComplete
<1>4. ASSUME NEW p \in Callers, OpenRefuses(p)
      PROVE  CountIsComplete'
  <2>1. \A c \in Callers : c # p => at[c] \notin {"count", "insert"}
    BY <1>c, <1>4, Alone DEF OpenRefuses
  <2>2. \A c \in Callers : c # p => at'[c] = at[c] /\ found'[c] = found[c]
    BY <1>0, <1>4 DEF OpenRefuses, Goto, Return
  <2>3. \A c \in Callers : c # p => Counted(c)'
    BY <1>e, <2>1, <2>2, CountIdle
  <2>4. Counted(p)'
    <3>1. at'[p] = "idle" /\ found'[p] = {}
      BY <1>0, <1>4 DEF OpenRefuses, Goto, Return
    <3>2. QED
      BY <3>1, CountIdle
  <2>5. QED
    BY <2>3, <2>4 DEF CountIsComplete
<1>5. ASSUME NEW p \in Callers, OpenForks(p)
      PROVE  CountIsComplete'
  <2>1. \A c \in Callers : c # p => at[c] \notin {"count", "insert"}
    BY <1>c, <1>5, Alone DEF OpenForks
  <2>2. \A c \in Callers : c # p => at'[c] = at[c] /\ found'[c] = found[c]
    BY <1>0, <1>5 DEF OpenForks, Goto, Return
  <2>3. \A c \in Callers : c # p => Counted(c)'
    BY <1>e, <2>1, <2>2, CountIdle
  <2>4. Counted(p)'
    <3>1. /\ at[p] = "count" /\ left[p] = {} /\ ~Full(p) /\ opens < MaxOpens /\ opens' = opens + 1
          /\ item' = [item EXCEPT ![opens + 1] = Started(for[p].owner)]
          /\ for' = [for EXCEPT ![p].id = opens + 1] /\ at' = [at EXCEPT ![p] = "insert"]
          /\ UNCHANGED <<sessions, found>>
      BY <1>5 DEF OpenForks, Goto
    <3>2. found[p] \subseteq sessions /\ Running \subseteq found[p]
      BY <1>c, <3>1 DEF CountIsComplete, Counted
    <3>3. for'[p].id = opens' /\ for'[p].owner = for[p].owner
      BY <1>0, <3>1 DEF Aims
    <3>4. item'[opens'].owner = for[p].owner
      BY <1>0, <3>1, BoundFacts DEF Ids, Started
    <3>5. \A k \in sessions : item'[k] = item[k]
      BY <1>0, <3>1
    <3>6. Running' = Running
      BY <3>1, <3>5 DEF Running, Active
    <3>7. found[p] \subseteq 1 .. (opens' - 1)
      BY <1>0, <3>1, <3>2
    <3>8. IsFiniteSet(found[p]) /\ IsFiniteSet({k \in found[p] : item[k].owner = for[p].owner})
      <4>1. IsFiniteSet(1 .. opens)
        BY <1>0, FS_Interval
      <4>2. found[p] \subseteq 1 .. opens
        BY <1>0, <3>2
      <4>3. QED
        BY <4>1, <4>2, FS_Subset
    <3>9. /\ Cardinality(found[p]) < MaxSessions
          /\ Cardinality({k \in found[p] : item[k].owner = for[p].owner}) < MaxOwnerSessions
      BY <3>1, <3>8, BoundFacts, FS_CardinalityType DEF Full
    <3>10. {k \in found[p] : item'[k].owner = for'[p].owner} = {k \in found[p] : item[k].owner = for[p].owner}
      BY <3>2, <3>3, <3>5
    <3>11. at'[p] = "insert" /\ found'[p] = found[p]
      BY <1>0, <3>1
    <3>12. QED
      BY <3>2, <3>3, <3>4, <3>6, <3>7, <3>9, <3>10, <3>11 DEF Counted
  <2>5. QED
    BY <2>3, <2>4 DEF CountIsComplete
<1>6. ASSUME NEW p \in Callers, OpenInserts(p)
      PROVE  CountIsComplete'
  <2>1. \A c \in Callers : c # p => at[c] \notin {"count", "insert"}
    BY <1>c, <1>6, Alone DEF OpenInserts
  <2>2. \A c \in Callers : c # p => at'[c] = at[c] /\ found'[c] = found[c]
    BY <1>0, <1>6 DEF OpenInserts, Goto, Return
  <2>3. \A c \in Callers : c # p => Counted(c)'
    BY <1>e, <2>1, <2>2, CountIdle
  <2>4. Counted(p)'
    <3>1. at'[p] = "idle" /\ found'[p] = {}
      BY <1>0, <1>6 DEF OpenInserts, Goto, Return
    <3>2. QED
      BY <3>1, CountIdle
  <2>5. QED
    BY <2>3, <2>4 DEF CountIsComplete
<1>7. ASSUME NEW p \in Callers, NEW what \in {"touch", "input", "mark"}, Ask(p, what)
      PROVE  CountIsComplete'
  <2>1. \A q \in Procs : q # p => for'[q] = for[q] /\ left'[q] = left[q] /\ found'[q] = found[q]
    BY <1>0, <1>7 DEF Ask
  <2>2. QED
    BY <1>n, <1>7, <2>1 DEF Ask, Goto, table
<1>8. ASSUME NEW p \in Callers, Touch(p)
      PROVE  CountIsComplete'
  BY <1>t, <1>8 DEF Touch, table
<1>9. ASSUME NEW p \in Callers, InputLocks(p)
      PROVE  CountIsComplete'
  <2>1. \A q \in Procs : q # p => for'[q] = for[q] /\ left'[q] = left[q] /\ found'[q] = found[q]
    BY <1>0, <1>9 DEF InputLocks
  <2>2. at' = [at EXCEPT ![p] = "write"] \/ at' = [at EXCEPT ![p] = "idle"]
    BY <1>9 DEF InputLocks, Goto
  <2>3. QED
    BY <1>n, <1>9, <2>1, <2>2 DEF InputLocks, table
<1>10. ASSUME NEW p \in Callers, InputReturns(p)
      PROVE  CountIsComplete'
  BY <1>t, <1>10 DEF InputReturns, table
<1>11. ASSUME NEW p \in Procs, CloseLooks(p)
      PROVE  CountIsComplete'
  <2>1. \A q \in Procs : q # p => for'[q] = for[q] /\ left'[q] = left[q] /\ found'[q] = found[q]
    BY <1>0, <1>11 DEF CloseLooks
  <2>2. at' = [at EXCEPT ![p] = "mark"] \/ at' = [at EXCEPT ![p] = "skip"]
    BY <1>11 DEF CloseLooks, Goto
  <2>3. sessions' = sessions /\ opens' = opens /\ found' = found /\ at[p] = "close"
    BY <1>11 DEF CloseLooks, table
  <2>4. QED
    BY <1>n, <2>1, <2>2, <2>3
<1>12. ASSUME NEW p \in Procs, CloseSkips(p)
      PROVE  CountIsComplete'
  BY <1>r, <1>12 DEF CloseSkips, table
<1>13. ASSUME NEW p \in Procs, CloseMarks(p)
      PROVE  CountIsComplete'
  <2>1. CASE Resume(p)
    BY <1>r, <1>13, <2>1 DEF CloseMarks, table
  <2>2. CASE Goto(p, "kill") /\ UNCHANGED <<for, left, found>>
    <3>1. /\ at' = [at EXCEPT ![p] = "kill"] /\ for' = for /\ left' = left /\ found' = found
          /\ sessions' = sessions /\ opens' = opens /\ at[p] = "mark"
      BY <1>13, <2>2 DEF CloseMarks, table, Goto
    <3>2. at'[p] = "kill" /\ \A q \in Procs : q # p => at'[q] = at[q]
      BY <1>0, <3>1
    <3>3. QED
      BY <1>k, <3>1, <3>2
  <2>3. QED
    BY <1>13, <2>1, <2>2 DEF CloseMarks
<1>14. ASSUME NEW p \in Procs, CloseKills(p)
      PROVE  CountIsComplete'
  BY <1>r, <1>14 DEF CloseKills, table
<1>15. ASSUME CloseAll
      PROVE  CountIsComplete'
  <2>1. \A q \in Procs : q # Shutdown => for'[q] = for[q] /\ left'[q] = left[q] /\ found'[q] = found[q]
    BY <1>0, <1>15 DEF CloseAll
  <2>2. QED
    BY <1>n, <1>15, <2>1 DEF CloseAll, Goto, table
<1>16. ASSUME ReapStarts
      PROVE  CountIsComplete'
  <2>1. \A q \in Procs : q # Reaper => for'[q] = for[q] /\ left'[q] = left[q] /\ found'[q] = found[q]
    BY <1>0, <1>16 DEF ReapStarts
  <2>2. QED
    BY <1>n, <1>16, <2>1 DEF ReapStarts, Goto, table
<1>17. ASSUME ReapStops
      PROVE  CountIsComplete'
  <2>1. /\ at' = [at EXCEPT ![Reaper] = "done"] /\ for' = for /\ left' = left /\ found' = found
        /\ sessions' = sessions /\ opens' = opens /\ at[Reaper] = "idle"
    BY <1>17 DEF ReapStops, table, Goto
  <2>2. at'[Reaper] = "done" /\ \A q \in Procs : q # Reaper => at'[q] = at[q]
    BY <1>0, <2>1
  <2>3. QED
    BY <1>k, <2>1, <2>2
<1>18. ASSUME ReapLooks
      PROVE  CountIsComplete'
  <2>1. \A c \in Callers : at[c] \notin {"count", "insert"}
    BY <1>c, <1>18, Alone DEF ReapLooks
  <2>2. \A c \in Callers : at'[c] = at[c] /\ found'[c] = found[c]
    BY <1>0, <1>18 DEF ReapLooks
  <2>3. QED
    BY <1>e, <2>1, <2>2, CountIdle DEF CountIsComplete
<1>19. ASSUME ReapUnlocks
      PROVE  CountIsComplete'
  <2>1. \A q \in Procs : q # Reaper => for'[q] = for[q] /\ left'[q] = left[q] /\ found'[q] = found[q]
    BY <1>0, <1>19 DEF ReapUnlocks
  <2>2. QED
    BY <1>n, <1>19, <2>1 DEF ReapUnlocks, Goto, table
<1>20. ASSUME NEW i \in Ids, Live(i)
      PROVE  CountIsComplete'
  BY <1>20, CalmStep, CountFrame DEF CountIsComplete, Live, Prints, ShellEnds, SetExit, Quiet, Expires, table
<1>21. QED
  BY <1>1, <1>2, <1>3, <1>4, <1>5, <1>6, <1>7, <1>8, <1>9, <1>10, <1>11, <1>12, <1>13, <1>14, <1>15, <1>16, <1>17, <1>18, <1>19, <1>20 DEF Next, OpenStep, UseStep, CloseStarts, CloseStep, Reap

\* What a step of one call leaves of all others.
Apart(p) ==
  \A q \in Procs : q # p => at'[q] = at[q] /\ for'[q] = for[q] /\ left'[q] = left[q]

LEMMA ResumeApart ==
  ASSUME ManagerInv, NEW p \in Procs, Resume(p)
  PROVE  /\ Apart(p) /\ at'[p] \in {"close", "idle", "done"}
         /\ p = Shutdown => at'[p] # "idle"
         /\ left'[p] = left[p] /\ (at'[p] = "done" => left[p] = {})
<1>0. /\ at \in [Procs -> AllStages] /\ for \in [Procs -> Aims] /\ left \in [Procs -> SUBSET Ids]
  BY DEF ManagerInv, TypeOK, Kinds
<1>1. CASE left[p] # {}
  BY <1>0, <1>1 DEF Resume, Goto, Apart
<1>2. CASE left[p] = {}
  <2>1. /\ at' = [at EXCEPT ![p] = IF p = Shutdown THEN "done" ELSE "idle"]
        /\ for' = [for EXCEPT ![p] = Nobody] /\ left' = [left EXCEPT ![p] = {}]
    BY <1>2 DEF Resume, Goto, Return
  <2>2. QED
    BY <1>0, <1>2, <2>1 DEF Apart
<1>3. QED
  BY <1>1, <1>2

LEMMA CallApart ==
  ASSUME ManagerInv, NEW p \in Callers,
         \/ OpenStarts(p) \/ OpenStep(p) \/ UseStep(p) \/ InputReturns(p)
         \/ \E what \in {"touch", "input", "mark"} : Ask(p, what)
  PROVE  Apart(p)
<1>0. /\ at \in [Procs -> AllStages] /\ for \in [Procs -> Aims] /\ left \in [Procs -> SUBSET Ids]
  BY DEF ManagerInv, TypeOK, Kinds
<1>1. CASE OpenStarts(p)
  BY <1>0, <1>1 DEF Apart, OpenStarts, Goto, table
<1>2. CASE OpenLocks(p)
  BY <1>0, <1>2 DEF Apart, OpenLocks, Goto, Return, table
<1>3. CASE OpenCounts(p)
  BY <1>0, <1>3 DEF Apart, OpenCounts, table
<1>4. CASE OpenRefuses(p)
  BY <1>0, <1>4 DEF Apart, OpenRefuses, Goto, Return, table
<1>5. CASE OpenForks(p)
  BY <1>0, <1>5 DEF Apart, OpenForks, Goto, table
<1>6. CASE OpenInserts(p)
  BY <1>0, <1>6 DEF Apart, OpenInserts, Goto, Return, table
<1>7. CASE Touch(p)
  BY <1>0, <1>7 DEF Apart, Touch, Goto, Return, table
<1>8. CASE InputLocks(p)
  BY <1>0, <1>8 DEF Apart, InputLocks, Goto, table
<1>9. CASE InputReturns(p)
  BY <1>0, <1>9 DEF Apart, InputReturns, Goto, Return, table
<1>10. CASE \E what \in {"touch", "input", "mark"} : Ask(p, what)
  BY <1>0, <1>10 DEF Apart, Ask, Goto, table
<1>11. QED
  BY <1>1, <1>2, <1>3, <1>4, <1>5, <1>6, <1>7, <1>8, <1>9, <1>10 DEF OpenStep, UseStep

LEMMA CloseApart ==
  ASSUME ManagerInv
  PROVE  /\ \A p \in Procs : CloseStep(p) => Apart(p)
         /\ CloseAll => Apart(Shutdown)
         /\ Reap => Apart(Reaper)
<1>0. /\ at \in [Procs -> AllStages] /\ for \in [Procs -> Aims] /\ left \in [Procs -> SUBSET Ids]
  BY DEF ManagerInv, TypeOK, Kinds
<1>1. ASSUME NEW p \in Procs, CloseStep(p) PROVE Apart(p)
  <2>1. CASE CloseLooks(p)
    BY <1>0, <2>1 DEF Apart, CloseLooks, Goto, table
  <2>2. CASE CloseSkips(p) \/ CloseKills(p)
    BY <2>2, ResumeApart DEF CloseSkips, CloseKills
  <2>3. CASE CloseMarks(p)
    <3>1. CASE Resume(p)
      BY <3>1, ResumeApart
    <3>2. CASE Goto(p, "kill") /\ UNCHANGED <<for, left, found>>
      BY <1>0, <3>2 DEF Goto, Apart
    <3>3. QED
      BY <2>3, <3>1, <3>2 DEF CloseMarks
  <2>4. QED
    BY <1>1, <2>1, <2>2, <2>3 DEF CloseStep
<1>2. CloseAll => Apart(Shutdown)
  BY <1>0 DEF CloseAll, Apart, Goto
<1>3. ASSUME Reap PROVE Apart(Reaper)
  <2>1. CASE ReapStarts
    BY <1>0, <2>1, ProcFacts DEF Apart, ReapStarts, Goto
  <2>2. CASE ReapStops
    BY <1>0, <2>2, ProcFacts DEF Apart, ReapStops, Goto
  <2>3. CASE ReapLooks
    BY <1>0, <2>3, ProcFacts DEF Apart, ReapLooks
  <2>4. CASE ReapUnlocks
    BY <1>0, <2>4, ProcFacts DEF Apart, ReapUnlocks, Goto
  <2>5. QED
    BY <1>3, <2>1, <2>2, <2>3, <2>4 DEF Reap
<1>4. QED
  BY <1>1, <1>2, <1>3

\* Once CloseAll has begun nobody opens.
LEMMA FinalStep ==
  ASSUME ManagerInv, Next
  PROVE  ShutdownIsFinal'
<1> USE ProcFacts
<1>0. /\ at \in [Procs -> AllStages] /\ ShutdownIsFinal /\ AimsAreKnown
  BY DEF ManagerInv, TypeOK, Kinds, ShellsAreWatched
<1>f. ASSUME NEW p \in Procs, p # Shutdown, Apart(p), closed' = closed, mu' \in {mu, Free, Reaper}
      PROVE  ShutdownIsFinal'
  BY <1>0, <1>f DEF Apart, ShutdownIsFinal
<1>u. ASSUME closed' = closed, mu' = mu, at[Shutdown] # "idle", at'[Shutdown] # "idle"
      PROVE  ShutdownIsFinal'
  BY <1>0, <1>u DEF ShutdownIsFinal
<1>1. ASSUME NEW p \in Callers, OpenStarts(p)
      PROVE  ShutdownIsFinal'
  <2>1. Apart(p)
    BY <1>1, CallApart DEF OpenStep, UseStep
  <2>2. closed' = closed /\ mu' \in {mu, Free, Reaper}
    BY <1>1 DEF OpenStarts, Unlock, table
  <2>3. QED
    BY <1>f, <2>1, <2>2
<1>2. ASSUME NEW p \in Callers, OpenLocks(p)
      PROVE  ShutdownIsFinal'
  <2>1. Apart(p)
    BY <1>2, CallApart DEF OpenStep, UseStep
  <2>2. CASE closed
    <3>1. closed' = closed /\ mu' = mu
      BY <1>2, <2>2 DEF OpenLocks
    <3>2. QED
      BY <1>f, <2>1, <3>1
  <2>3. CASE ~closed
    <3>1. closed' = closed
      BY <1>2 DEF OpenLocks
    <3>2. at'[Shutdown] = at[Shutdown]
      BY <2>1 DEF Apart
    <3>3. QED
      BY <1>0, <2>3, <3>1, <3>2 DEF ShutdownIsFinal
  <2>4. QED
    BY <2>2, <2>3
<1>3. ASSUME NEW p \in Callers, OpenCounts(p)
      PROVE  ShutdownIsFinal'
  <2>1. Apart(p)
    BY <1>3, CallApart DEF OpenStep, UseStep
  <2>2. closed' = closed /\ mu' \in {mu, Free, Reaper}
    BY <1>3 DEF OpenCounts, Unlock, table
  <2>3. QED
    BY <1>f, <2>1, <2>2
<1>4. ASSUME NEW p \in Callers, OpenRefuses(p)
      PROVE  ShutdownIsFinal'
  <2>1. Apart(p)
    BY <1>4, CallApart DEF OpenStep, UseStep
  <2>2. closed' = closed /\ mu' \in {mu, Free, Reaper}
    BY <1>4 DEF OpenRefuses, Unlock, table
  <2>3. QED
    BY <1>f, <2>1, <2>2
<1>5. ASSUME NEW p \in Callers, OpenForks(p)
      PROVE  ShutdownIsFinal'
  <2>1. Apart(p)
    BY <1>5, CallApart DEF OpenStep, UseStep
  <2>2. closed' = closed /\ mu' \in {mu, Free, Reaper}
    BY <1>5 DEF OpenForks, Unlock, table
  <2>3. QED
    BY <1>f, <2>1, <2>2
<1>6. ASSUME NEW p \in Callers, OpenInserts(p)
      PROVE  ShutdownIsFinal'
  <2>1. Apart(p)
    BY <1>6, CallApart DEF OpenStep, UseStep
  <2>2. closed' = closed /\ mu' \in {mu, Free, Reaper}
    BY <1>6 DEF OpenInserts, Unlock, table
  <2>3. QED
    BY <1>f, <2>1, <2>2
<1>7. ASSUME NEW p \in Callers, NEW what \in {"touch", "input", "mark"}, Ask(p, what)
      PROVE  ShutdownIsFinal'
  <2>1. Apart(p)
    BY <1>7, CallApart DEF OpenStep, UseStep
  <2>2. closed' = closed /\ mu' \in {mu, Free, Reaper}
    BY <1>7 DEF Ask, Unlock, table
  <2>3. QED
    BY <1>f, <2>1, <2>2
<1>8. ASSUME NEW p \in Callers, Touch(p)
      PROVE  ShutdownIsFinal'
  <2>1. Apart(p)
    BY <1>8, CallApart DEF OpenStep, UseStep
  <2>2. closed' = closed /\ mu' \in {mu, Free, Reaper}
    BY <1>8 DEF Touch, Unlock, table
  <2>3. QED
    BY <1>f, <2>1, <2>2
<1>9. ASSUME NEW p \in Callers, InputLocks(p)
      PROVE  ShutdownIsFinal'
  <2>1. Apart(p)
    BY <1>9, CallApart DEF OpenStep, UseStep
  <2>2. closed' = closed /\ mu' \in {mu, Free, Reaper}
    BY <1>9 DEF InputLocks, Unlock, table
  <2>3. QED
    BY <1>f, <2>1, <2>2
<1>10. ASSUME NEW p \in Callers, InputReturns(p)
      PROVE  ShutdownIsFinal'
  <2>1. Apart(p)
    BY <1>10, CallApart DEF OpenStep, UseStep
  <2>2. closed' = closed /\ mu' \in {mu, Free, Reaper}
    BY <1>10 DEF InputReturns, Unlock, table
  <2>3. QED
    BY <1>f, <2>1, <2>2
<1>11. ASSUME NEW p \in Procs, CloseLooks(p)
      PROVE  ShutdownIsFinal'
  <2>1. Apart(p)
    BY <1>11, CloseApart DEF CloseStep
  <2>2. closed' = closed /\ mu' = mu /\ at[p] \in {"close", "skip", "mark", "kill"}
    BY <1>11 DEF CloseLooks, table
  <2>3. p = Shutdown => at'[p] # "idle"
    BY <1>0, <1>11 DEF CloseLooks, Goto
  <2>4. QED
    BY <1>f, <1>u, <2>1, <2>2, <2>3
<1>12. ASSUME NEW p \in Procs, CloseSkips(p)
      PROVE  ShutdownIsFinal'
  <2>1. Apart(p)
    BY <1>12, CloseApart DEF CloseStep
  <2>2. closed' = closed /\ mu' = mu /\ at[p] \in {"close", "skip", "mark", "kill"}
    BY <1>12 DEF CloseSkips, table
  <2>3. p = Shutdown => at'[p] # "idle"
    BY <1>12, ResumeApart DEF CloseSkips
  <2>4. QED
    BY <1>f, <1>u, <2>1, <2>2, <2>3
<1>13. ASSUME NEW p \in Procs, CloseMarks(p)
      PROVE  ShutdownIsFinal'
  <2>1. Apart(p)
    BY <1>13, CloseApart DEF CloseStep
  <2>2. closed' = closed /\ mu' = mu /\ at[p] \in {"close", "skip", "mark", "kill"}
    BY <1>13 DEF CloseMarks, table
  <2>3. p = Shutdown => at'[p] # "idle"
    <3>1. CASE Resume(p)
      BY <3>1, ResumeApart
    <3>2. CASE Goto(p, "kill")
      BY <1>0, <3>2 DEF Goto
    <3>3. QED
      BY <1>13, <3>1, <3>2 DEF CloseMarks
  <2>4. QED
    BY <1>f, <1>u, <2>1, <2>2, <2>3
<1>14. ASSUME NEW p \in Procs, CloseKills(p)
      PROVE  ShutdownIsFinal'
  <2>1. Apart(p)
    BY <1>14, CloseApart DEF CloseStep
  <2>2. closed' = closed /\ mu' = mu /\ at[p] \in {"close", "skip", "mark", "kill"}
    BY <1>14 DEF CloseKills, table
  <2>3. p = Shutdown => at'[p] # "idle"
    BY <1>14, ResumeApart DEF CloseKills
  <2>4. QED
    BY <1>f, <1>u, <2>1, <2>2, <2>3
<1>15. ASSUME CloseAll
      PROVE  ShutdownIsFinal'
  BY <1>0, <1>15 DEF CloseAll, Goto, ShutdownIsFinal
<1>16. ASSUME ReapStarts
      PROVE  ShutdownIsFinal'
  <2>1. Apart(Reaper)
    BY <1>16, CloseApart DEF Reap
  <2>2. closed' = closed /\ mu' \in {mu, Free, Reaper}
    BY <1>16 DEF ReapStarts, Unlock, table
  <2>3. QED
    BY <1>f, <2>1, <2>2
<1>17. ASSUME ReapStops
      PROVE  ShutdownIsFinal'
  <2>1. Apart(Reaper)
    BY <1>17, CloseApart DEF Reap
  <2>2. closed' = closed /\ mu' \in {mu, Free, Reaper}
    BY <1>17 DEF ReapStops, Unlock, table
  <2>3. QED
    BY <1>f, <2>1, <2>2
<1>18. ASSUME ReapLooks
      PROVE  ShutdownIsFinal'
  <2>1. Apart(Reaper)
    BY <1>18, CloseApart DEF Reap
  <2>2. closed' = closed /\ mu' \in {mu, Free, Reaper}
    BY <1>18 DEF ReapLooks, Unlock, table
  <2>3. QED
    BY <1>f, <2>1, <2>2
<1>19. ASSUME ReapUnlocks
      PROVE  ShutdownIsFinal'
  <2>1. Apart(Reaper)
    BY <1>19, CloseApart DEF Reap
  <2>2. closed' = closed /\ mu' \in {mu, Free, Reaper}
    BY <1>19 DEF ReapUnlocks, Unlock, table
  <2>3. QED
    BY <1>f, <2>1, <2>2
<1>20. ASSUME NEW i \in Ids, Live(i)
      PROVE  ShutdownIsFinal'
  BY <1>0, <1>20 DEF ShutdownIsFinal, Live, Prints, ShellEnds, SetExit, Quiet, Expires, table
<1>21. QED
  BY <1>1, <1>2, <1>3, <1>4, <1>5, <1>6, <1>7, <1>8, <1>9, <1>10, <1>11, <1>12, <1>13, <1>14, <1>15, <1>16, <1>17, <1>18, <1>19, <1>20 DEF Next, OpenStep, UseStep, CloseStarts, CloseStep, Reap

\* A step that does not mark a session leaves the marks as they are.
SameMarks == \A i \in Ids : item'[i].closed = item[i].closed

LEMMA MarkFacts ==
  ASSUME item \in [Ids -> Items], NEW j \in Ids
  PROVE  /\ item' = item => SameMarks
         /\ \A v : item' = [item EXCEPT ![j].age = v] => SameMarks
         /\ \A v : item' = [item EXCEPT ![j].shell = v] => SameMarks
         /\ item' = [item EXCEPT ![j].exited = TRUE, ![j].age = 0] => SameMarks
<1>0. item[j] \in Items
  OBVIOUS
<1>1. item' = item => SameMarks
  BY DEF SameMarks
<1>2. \A v : item' = [item EXCEPT ![j].age = v] => SameMarks
  BY <1>0 DEF SameMarks, Items
<1>3. \A v : item' = [item EXCEPT ![j].shell = v] => SameMarks
  BY <1>0 DEF SameMarks, Items
<1>4. item' = [item EXCEPT ![j].exited = TRUE, ![j].age = 0] => SameMarks
  <2> SUFFICES ASSUME item' = [item EXCEPT ![j].exited = TRUE, ![j].age = 0] PROVE SameMarks
    OBVIOUS
  <2>1. item' = [item EXCEPT ![j] = [item[j] EXCEPT !.exited = TRUE, !.age = 0]]
    OBVIOUS
  <2>2. [item[j] EXCEPT !.exited = TRUE, !.age = 0].closed = item[j].closed
    BY <1>0 DEF Items
  <2>3. QED
    BY <2>1, <2>2 DEF SameMarks
<1>5. QED
  BY <1>1, <1>2, <1>3, <1>4

\* Who marks a session closed is there to kill its shell.
LEMMA KilledStep ==
  ASSUME ManagerInv, Next
  PROVE  ClosedAreKilled'
<1> USE ProcFacts
<1>0. /\ item \in [Ids -> Items] /\ at \in [Procs -> AllStages] /\ for \in [Procs -> Aims]
      /\ opens \in Nat /\ sessions \subseteq 1 .. opens
      /\ ClosedAreKilled /\ AimsAreKnown
  BY TablesKnown DEF ManagerInv, TypeOK, Kinds, ShellsAreWatched
<1>f. ASSUME NEW p \in Procs, at[p] # "kill", Apart(p), opens' = opens, SameMarks
      PROVE  ClosedAreKilled'
  <2>1. Calm
    BY <1>f, CalmStep
  <2>2. QED
    BY <1>0, <1>f, <2>1 DEF ClosedAreKilled, Calm, SameMarks, Apart
<1>s. item' = item => SameMarks
  BY DEF SameMarks
<1>1. ASSUME NEW p \in Callers, OpenStarts(p)
      PROVE  ClosedAreKilled'
  <2>1. Apart(p)
    BY <1>1, CallApart DEF OpenStep, UseStep
  <2>2. at[p] # "kill" /\ opens' = opens
    BY <1>0, <1>1 DEF OpenStarts, table
  <2>3. SameMarks
    BY <1>s, <1>1 DEF OpenStarts, table
  <2>4. QED
    BY <1>f, <2>1, <2>2, <2>3
<1>2. ASSUME NEW p \in Callers, OpenLocks(p)
      PROVE  ClosedAreKilled'
  <2>1. Apart(p)
    BY <1>2, CallApart DEF OpenStep, UseStep
  <2>2. at[p] # "kill" /\ opens' = opens
    BY <1>0, <1>2 DEF OpenLocks, table
  <2>3. SameMarks
    BY <1>s, <1>2 DEF OpenLocks, table
  <2>4. QED
    BY <1>f, <2>1, <2>2, <2>3
<1>3. ASSUME NEW p \in Callers, OpenCounts(p)
      PROVE  ClosedAreKilled'
  <2>1. Apart(p)
    BY <1>3, CallApart DEF OpenStep, UseStep
  <2>2. at[p] # "kill" /\ opens' = opens
    BY <1>0, <1>3 DEF OpenCounts, table
  <2>3. SameMarks
    BY <1>s, <1>3 DEF OpenCounts, table
  <2>4. QED
    BY <1>f, <2>1, <2>2, <2>3
<1>4. ASSUME NEW p \in Callers, OpenRefuses(p)
      PROVE  ClosedAreKilled'
  <2>1. Apart(p)
    BY <1>4, CallApart DEF OpenStep, UseStep
  <2>2. at[p] # "kill" /\ opens' = opens
    BY <1>0, <1>4 DEF OpenRefuses, table
  <2>3. SameMarks
    BY <1>s, <1>4 DEF OpenRefuses, table
  <2>4. QED
    BY <1>f, <2>1, <2>2, <2>3
<1>5. ASSUME NEW p \in Callers, OpenForks(p)
      PROVE  ClosedAreKilled'
  <2>1. Apart(p)
    BY <1>5, CallApart DEF OpenStep, UseStep
  <2>2. /\ at[p] = "count" /\ opens + 1 \in Ids
        /\ item' = [item EXCEPT ![opens + 1] = Started(for[p].owner)]
    BY <1>0, <1>5, BoundFacts DEF OpenForks, Ids
  <2>3. \A k \in Ids : item'[k].closed => item'[k] = item[k]
    BY <1>0, <2>2 DEF Started
  <2>4. QED
    BY <1>0, <2>1, <2>2, <2>3 DEF ClosedAreKilled, Apart
<1>6. ASSUME NEW p \in Callers, OpenInserts(p)
      PROVE  ClosedAreKilled'
  <2>1. Apart(p)
    BY <1>6, CallApart DEF OpenStep, UseStep
  <2>2. at[p] # "kill" /\ opens' = opens
    BY <1>0, <1>6 DEF OpenInserts, table
  <2>3. SameMarks
    <3>1. for[p].id \in Ids
      BY <1>0, <1>6 DEF AimsAreKnown, OpenInserts
    <3>2. QED
      BY <1>0, <1>6, <3>1, MarkFacts DEF OpenInserts, Set
  <2>4. QED
    BY <1>f, <2>1, <2>2, <2>3
<1>7. ASSUME NEW p \in Callers, NEW what \in {"touch", "input", "mark"}, Ask(p, what)
      PROVE  ClosedAreKilled'
  <2>1. Apart(p)
    BY <1>7, CallApart DEF OpenStep, UseStep
  <2>2. at[p] # "kill" /\ opens' = opens
    BY <1>0, <1>7 DEF Ask, table
  <2>3. SameMarks
    BY <1>s, <1>7 DEF Ask, table
  <2>4. QED
    BY <1>f, <2>1, <2>2, <2>3
<1>8. ASSUME NEW p \in Callers, Touch(p)
      PROVE  ClosedAreKilled'
  <2>1. Apart(p)
    BY <1>8, CallApart DEF OpenStep, UseStep
  <2>2. at[p] # "kill" /\ opens' = opens
    BY <1>0, <1>8 DEF Touch, table
  <2>3. SameMarks
    <3>1. for[p].id \in Ids
      BY <1>0, <1>8 DEF AimsAreKnown, Touch
    <3>2. QED
      BY <1>0, <1>8, <3>1, MarkFacts DEF Touch, Set
  <2>4. QED
    BY <1>f, <2>1, <2>2, <2>3
<1>9. ASSUME NEW p \in Callers, InputLocks(p)
      PROVE  ClosedAreKilled'
  <2>1. Apart(p)
    BY <1>9, CallApart DEF OpenStep, UseStep
  <2>2. at[p] # "kill" /\ opens' = opens
    BY <1>0, <1>9 DEF InputLocks, table
  <2>3. SameMarks
    BY <1>s, <1>9 DEF InputLocks, table
  <2>4. QED
    BY <1>f, <2>1, <2>2, <2>3
<1>10. ASSUME NEW p \in Callers, InputReturns(p)
      PROVE  ClosedAreKilled'
  <2>1. Apart(p)
    BY <1>10, CallApart DEF OpenStep, UseStep
  <2>2. at[p] # "kill" /\ opens' = opens
    BY <1>0, <1>10 DEF InputReturns, table
  <2>3. SameMarks
    <3>1. for[p].id \in Ids
      BY <1>0, <1>10 DEF AimsAreKnown, InputReturns
    <3>2. QED
      BY <1>0, <1>10, <3>1, MarkFacts DEF InputReturns, Set
  <2>4. QED
    BY <1>f, <2>1, <2>2, <2>3
<1>11. ASSUME NEW p \in Procs, CloseLooks(p)
      PROVE  ClosedAreKilled'
  <2>1. Apart(p)
    BY <1>11, CloseApart DEF CloseStep
  <2>2. at[p] # "kill" /\ opens' = opens
    BY <1>0, <1>11 DEF CloseLooks, table
  <2>3. SameMarks
    BY <1>s, <1>11 DEF CloseLooks, table
  <2>4. QED
    BY <1>f, <2>1, <2>2, <2>3
<1>12. ASSUME NEW p \in Procs, CloseSkips(p)
      PROVE  ClosedAreKilled'
  <2>1. Apart(p)
    BY <1>12, CloseApart DEF CloseStep
  <2>2. at[p] # "kill" /\ opens' = opens
    BY <1>0, <1>12 DEF CloseSkips, table
  <2>3. SameMarks
    BY <1>s, <1>12 DEF CloseSkips, table
  <2>4. QED
    BY <1>f, <2>1, <2>2, <2>3
<1>13. ASSUME NEW p \in Procs, CloseMarks(p)
      PROVE  ClosedAreKilled'
  <2>1. Apart(p)
    BY <1>13, CloseApart DEF CloseStep
  <2>2. at[p] = "mark" /\ for[p].id \in Ids /\ opens' = opens
    BY <1>0, <1>13 DEF CloseMarks, table, AimsAreKnown
  <2>3. CASE item' = item
    BY <1>f, <1>s, <2>1, <2>2, <2>3
  <2>4. CASE item' = [item EXCEPT ![for[p].id].closed = TRUE, ![for[p].id].age = 0] /\ Goto(p, "kill") /\ for' = for
    <3>1. item' = [item EXCEPT ![for[p].id] = [item[for[p].id] EXCEPT !.closed = TRUE, !.age = 0]]
      BY <2>4
    <3>2. \A k \in Ids : k # for[p].id => item'[k] = item[k]
      BY <1>0, <3>1
    <3>3. at'[p] = "kill" /\ for'[p] = for[p]
      BY <1>0, <2>4 DEF Goto
    <3>4. QED
      BY <1>0, <2>1, <2>2, <3>2, <3>3 DEF ClosedAreKilled, Apart
  <2>5. QED
    BY <1>13, <2>3, <2>4 DEF CloseMarks
<1>14. ASSUME NEW p \in Procs, CloseKills(p)
      PROVE  ClosedAreKilled'
  <2>1. Apart(p)
    BY <1>14, CloseApart DEF CloseStep
  <2>2. /\ at[p] = "kill" /\ for[p].id \in Ids
        /\ item' = [item EXCEPT ![for[p].id].shell = "dead"]
    BY <1>0, <1>14 DEF CloseKills, Set, AimsAreKnown
  <2>3. \A k \in Ids : k # for[p].id => item'[k] = item[k]
    BY <1>0, <2>2
  <2>4. item'[for[p].id].shell = "dead"
    BY <1>0, <2>2 DEF Items
  <2>5. QED
    BY <1>0, <2>1, <2>2, <2>3, <2>4 DEF ClosedAreKilled, Apart
<1>15. ASSUME CloseAll
      PROVE  ClosedAreKilled'
  <2>1. Apart(Shutdown)
    BY <1>15, CloseApart
  <2>2. at[Shutdown] # "kill" /\ opens' = opens
    BY <1>0, <1>15 DEF CloseAll, table
  <2>3. SameMarks
    BY <1>s, <1>15 DEF CloseAll, table
  <2>4. QED
    BY <1>f, <2>1, <2>2, <2>3
<1>16. ASSUME ReapStarts
      PROVE  ClosedAreKilled'
  <2>1. Apart(Reaper)
    BY <1>16, CloseApart DEF Reap
  <2>2. at[Reaper] # "kill" /\ opens' = opens
    BY <1>0, <1>16 DEF ReapStarts, table
  <2>3. SameMarks
    BY <1>s, <1>16 DEF ReapStarts, table
  <2>4. QED
    BY <1>f, <2>1, <2>2, <2>3
<1>17. ASSUME ReapStops
      PROVE  ClosedAreKilled'
  <2>1. Apart(Reaper)
    BY <1>17, CloseApart DEF Reap
  <2>2. at[Reaper] # "kill" /\ opens' = opens
    BY <1>0, <1>17 DEF ReapStops, table
  <2>3. SameMarks
    BY <1>s, <1>17 DEF ReapStops, table
  <2>4. QED
    BY <1>f, <2>1, <2>2, <2>3
<1>18. ASSUME ReapLooks
      PROVE  ClosedAreKilled'
  <2>1. Apart(Reaper)
    BY <1>18, CloseApart DEF Reap
  <2>2. at[Reaper] # "kill" /\ opens' = opens
    BY <1>0, <1>18 DEF ReapLooks, table
  <2>3. SameMarks
    BY <1>s, <1>18 DEF ReapLooks, table
  <2>4. QED
    BY <1>f, <2>1, <2>2, <2>3
<1>19. ASSUME ReapUnlocks
      PROVE  ClosedAreKilled'
  <2>1. Apart(Reaper)
    BY <1>19, CloseApart DEF Reap
  <2>2. at[Reaper] # "kill" /\ opens' = opens
    BY <1>0, <1>19 DEF ReapUnlocks, table
  <2>3. SameMarks
    BY <1>s, <1>19 DEF ReapUnlocks, table
  <2>4. QED
    BY <1>f, <2>1, <2>2, <2>3
<1>20. ASSUME NEW i \in Ids, Live(i)
      PROVE  ClosedAreKilled'
  <2>1. at' = at /\ for' = for /\ opens' = opens
    BY <1>20 DEF Live, Prints, ShellEnds, SetExit, Quiet, Expires, table
  <2>2. SameMarks
    BY <1>0, <1>20, MarkFacts DEF Live, Prints, ShellEnds, SetExit, Quiet, Expires, Set
  <2>3. Calm
    BY <2>1, CalmStep
  <2>4. QED
    BY <1>0, <2>1, <2>2, <2>3 DEF ClosedAreKilled, Calm, SameMarks
<1>21. QED
  BY <1>1, <1>2, <1>3, <1>4, <1>5, <1>6, <1>7, <1>8, <1>9, <1>10, <1>11, <1>12, <1>13, <1>14, <1>15, <1>16, <1>17, <1>18, <1>19, <1>20 DEF Next, OpenStep, UseStep, CloseStarts, CloseStep, Reap

\* A shell that runs is in the table, or on its way there or out of it.
LEMMA EnteredStep ==
  ASSUME ManagerInv, Next
  PROVE  OthersAreEntered'
<1> USE ProcFacts
<1>0. /\ item \in [Ids -> Items] /\ at \in [Procs -> AllStages] /\ for \in [Procs -> Aims]
      /\ opens \in Nat /\ sessions \subseteq 1 .. opens
      /\ OthersAreEntered /\ AimsAreKnown
  BY TablesKnown DEF ManagerInv, TypeOK, Kinds, ShellsAreWatched
<1>f. ASSUME NEW p \in Procs, at[p] # "insert", Apart(p), opens' = opens, sessions' = sessions
      PROVE  OthersAreEntered'
  <2>1. Calm
    BY <1>f, CalmStep
  <2>2. QED
    BY <1>0, <1>f, <2>1 DEF OthersAreEntered, Calm, Apart
<1>1. ASSUME NEW p \in Callers, OpenStarts(p)
      PROVE  OthersAreEntered'
  <2>1. Apart(p)
    BY <1>1, CallApart DEF OpenStep, UseStep
  <2>2. at[p] # "insert" /\ opens' = opens /\ sessions' = sessions
    BY <1>0, <1>1 DEF OpenStarts, table
  <2>3. QED
    BY <1>f, <2>1, <2>2
<1>2. ASSUME NEW p \in Callers, OpenLocks(p)
      PROVE  OthersAreEntered'
  <2>1. Apart(p)
    BY <1>2, CallApart DEF OpenStep, UseStep
  <2>2. at[p] # "insert" /\ opens' = opens /\ sessions' = sessions
    BY <1>0, <1>2 DEF OpenLocks, table
  <2>3. QED
    BY <1>f, <2>1, <2>2
<1>3. ASSUME NEW p \in Callers, OpenCounts(p)
      PROVE  OthersAreEntered'
  <2>1. Apart(p)
    BY <1>3, CallApart DEF OpenStep, UseStep
  <2>2. at[p] # "insert" /\ opens' = opens /\ sessions' = sessions
    BY <1>0, <1>3 DEF OpenCounts, table
  <2>3. QED
    BY <1>f, <2>1, <2>2
<1>4. ASSUME NEW p \in Callers, OpenRefuses(p)
      PROVE  OthersAreEntered'
  <2>1. Apart(p)
    BY <1>4, CallApart DEF OpenStep, UseStep
  <2>2. at[p] # "insert" /\ opens' = opens /\ sessions' = sessions
    BY <1>0, <1>4 DEF OpenRefuses, table
  <2>3. QED
    BY <1>f, <2>1, <2>2
<1>5. ASSUME NEW p \in Callers, OpenForks(p)
      PROVE  OthersAreEntered'
  <2>1. Apart(p)
    BY <1>5, CallApart DEF OpenStep, UseStep
  <2>2. /\ at[p] = "count" /\ sessions' = sessions
        /\ item' = [item EXCEPT ![opens + 1] = Started(for[p].owner)]
        /\ for' = [for EXCEPT ![p].id = opens + 1] /\ at' = [at EXCEPT ![p] = "insert"]
    BY <1>5 DEF OpenForks, Goto
  <2>3. at'[p] = "insert" /\ for'[p].id = opens + 1
    BY <1>0, <2>2 DEF Aims
  <2>4. \A k \in Ids : k # opens + 1 => item'[k] = item[k]
    BY <1>0, <2>2
  <2>5. QED
    BY <1>0, <2>1, <2>2, <2>3, <2>4 DEF OthersAreEntered, Apart
<1>6. ASSUME NEW p \in Callers, OpenInserts(p)
      PROVE  OthersAreEntered'
  <2>1. Apart(p)
    BY <1>6, CallApart DEF OpenStep, UseStep
  <2>2. at[p] = "insert" /\ for[p].id \in Ids
    BY <1>0, <1>6 DEF OpenInserts, AimsAreKnown
  <2>3. Calm
    BY <1>6, CalmStep DEF OpenInserts
  <2>4. CASE sessions' = sessions \cup {for[p].id} /\ item' = item
    BY <1>0, <2>1, <2>2, <2>3, <2>4 DEF OthersAreEntered, Calm, Apart
  <2>5. CASE sessions' = sessions /\ item' = [item EXCEPT ![for[p].id].shell = "dead"]
    <3>1. item'[for[p].id].shell = "dead"
      BY <1>0, <2>2, <2>5 DEF Items
    <3>2. QED
      BY <1>0, <2>1, <2>2, <2>3, <2>5, <3>1 DEF OthersAreEntered, Calm, Apart
  <2>6. QED
    BY <1>6, <2>4, <2>5 DEF OpenInserts, Set
<1>7. ASSUME NEW p \in Callers, NEW what \in {"touch", "input", "mark"}, Ask(p, what)
      PROVE  OthersAreEntered'
  <2>1. Apart(p)
    BY <1>7, CallApart DEF OpenStep, UseStep
  <2>2. at[p] # "insert" /\ opens' = opens /\ sessions' = sessions
    BY <1>0, <1>7 DEF Ask, table
  <2>3. QED
    BY <1>f, <2>1, <2>2
<1>8. ASSUME NEW p \in Callers, Touch(p)
      PROVE  OthersAreEntered'
  <2>1. Apart(p)
    BY <1>8, CallApart DEF OpenStep, UseStep
  <2>2. at[p] # "insert" /\ opens' = opens /\ sessions' = sessions
    BY <1>0, <1>8 DEF Touch, table
  <2>3. QED
    BY <1>f, <2>1, <2>2
<1>9. ASSUME NEW p \in Callers, InputLocks(p)
      PROVE  OthersAreEntered'
  <2>1. Apart(p)
    BY <1>9, CallApart DEF OpenStep, UseStep
  <2>2. at[p] # "insert" /\ opens' = opens /\ sessions' = sessions
    BY <1>0, <1>9 DEF InputLocks, table
  <2>3. QED
    BY <1>f, <2>1, <2>2
<1>10. ASSUME NEW p \in Callers, InputReturns(p)
      PROVE  OthersAreEntered'
  <2>1. Apart(p)
    BY <1>10, CallApart DEF OpenStep, UseStep
  <2>2. at[p] # "insert" /\ opens' = opens /\ sessions' = sessions
    BY <1>0, <1>10 DEF InputReturns, table
  <2>3. QED
    BY <1>f, <2>1, <2>2
<1>11. ASSUME NEW p \in Procs, CloseLooks(p)
      PROVE  OthersAreEntered'
  <2>1. Apart(p)
    BY <1>11, CloseApart DEF CloseStep
  <2>2. at[p] # "insert" /\ opens' = opens /\ sessions' = sessions
    BY <1>0, <1>11 DEF CloseLooks, table
  <2>3. QED
    BY <1>f, <2>1, <2>2
<1>12. ASSUME NEW p \in Procs, CloseSkips(p)
      PROVE  OthersAreEntered'
  <2>1. Apart(p)
    BY <1>12, CloseApart DEF CloseStep
  <2>2. at[p] # "insert" /\ opens' = opens /\ sessions' = sessions
    BY <1>0, <1>12 DEF CloseSkips, table
  <2>3. QED
    BY <1>f, <2>1, <2>2
<1>13. ASSUME NEW p \in Procs, CloseMarks(p)
      PROVE  OthersAreEntered'
  <2>1. Apart(p)
    BY <1>13, CloseApart DEF CloseStep
  <2>2. at[p] # "insert" /\ opens' = opens /\ sessions' = sessions
    BY <1>0, <1>13 DEF CloseMarks, table
  <2>3. QED
    BY <1>f, <2>1, <2>2
<1>14. ASSUME NEW p \in Procs, CloseKills(p)
      PROVE  OthersAreEntered'
  <2>1. Apart(p)
    BY <1>14, CloseApart DEF CloseStep
  <2>2. at[p] # "insert" /\ opens' = opens /\ sessions' = sessions
    BY <1>0, <1>14 DEF CloseKills, table
  <2>3. QED
    BY <1>f, <2>1, <2>2
<1>15. ASSUME CloseAll
      PROVE  OthersAreEntered'
  <2>1. Apart(Shutdown)
    BY <1>15, CloseApart
  <2>2. at[Shutdown] # "insert" /\ opens' = opens /\ sessions' = sessions
    BY <1>0, <1>15 DEF CloseAll, table
  <2>3. QED
    BY <1>f, <2>1, <2>2
<1>16. ASSUME ReapStarts
      PROVE  OthersAreEntered'
  <2>1. Apart(Reaper)
    BY <1>16, CloseApart DEF Reap
  <2>2. at[Reaper] # "insert" /\ opens' = opens /\ sessions' = sessions
    BY <1>0, <1>16 DEF ReapStarts, table
  <2>3. QED
    BY <1>f, <2>1, <2>2
<1>17. ASSUME ReapStops
      PROVE  OthersAreEntered'
  <2>1. Apart(Reaper)
    BY <1>17, CloseApart DEF Reap
  <2>2. at[Reaper] # "insert" /\ opens' = opens /\ sessions' = sessions
    BY <1>0, <1>17 DEF ReapStops, table
  <2>3. QED
    BY <1>f, <2>1, <2>2
<1>18. ASSUME ReapLooks
      PROVE  OthersAreEntered'
  <2>1. at' = at /\ for' = for /\ item' = item /\ opens' = opens
    BY <1>18 DEF ReapLooks
  <2>2. \A k \in sessions : k \in sessions' \/ item[k].closed \/ item[k].exited
    BY <1>18 DEF ReapLooks, Finished
  <2>3. QED
    BY <1>0, <2>1, <2>2 DEF OthersAreEntered
<1>19. ASSUME ReapUnlocks
      PROVE  OthersAreEntered'
  <2>1. Apart(Reaper)
    BY <1>19, CloseApart DEF Reap
  <2>2. at[Reaper] # "insert" /\ opens' = opens /\ sessions' = sessions
    BY <1>0, <1>19 DEF ReapUnlocks, table
  <2>3. QED
    BY <1>f, <2>1, <2>2
<1>20. ASSUME NEW i \in Ids, Live(i)
      PROVE  OthersAreEntered'
  <2>1. at' = at /\ for' = for /\ opens' = opens /\ sessions' = sessions
    BY <1>20 DEF Live, Prints, ShellEnds, SetExit, Quiet, Expires, table
  <2>2. Calm
    BY <2>1, CalmStep
  <2>3. QED
    BY <1>0, <2>1, <2>2 DEF OthersAreEntered, Calm
<1>21. QED
  BY <1>1, <1>2, <1>3, <1>4, <1>5, <1>6, <1>7, <1>8, <1>9, <1>10, <1>11, <1>12, <1>13, <1>14, <1>15, <1>16, <1>17, <1>18, <1>19, <1>20 DEF Next, OpenStep, UseStep, CloseStarts, CloseStep, Reap

\* CloseAll forgets no session.
LEMMA CompleteStep ==
  ASSUME ManagerInv, Next
  PROVE  ShutdownIsComplete'
<1> USE ProcFacts
<1>0. /\ item \in [Ids -> Items] /\ at \in [Procs -> AllStages] /\ for \in [Procs -> Aims]
      /\ left \in [Procs -> SUBSET Ids] /\ opens \in Nat /\ sessions \subseteq 1 .. opens /\ sessions \subseteq Ids
      /\ ShutdownIsComplete /\ AimsAreKnown /\ ShutdownIsFinal /\ ManagerMutex
  BY TablesKnown DEF ManagerInv, TypeOK, Kinds, ShellsAreWatched
<1>f. ASSUME NEW p \in Procs, p # Shutdown, Apart(p), closed' = closed, Calm, sessions' \subseteq sessions
      PROVE  ShutdownIsComplete'
  BY <1>0, <1>f DEF ShutdownIsComplete, Apart, Calm, Active
<1>u. ASSUME closed' = closed, Calm, sessions' = sessions,
             at[Shutdown] # "mark", left'[Shutdown] = left[Shutdown],
             at'[Shutdown] = "done" => left[Shutdown] = {}
      PROVE  ShutdownIsComplete'
  BY <1>0, <1>u DEF ShutdownIsComplete, Calm, Active
<1>1. ASSUME NEW p \in Callers, OpenStarts(p)
      PROVE  ShutdownIsComplete'
  <2>1. Apart(p)
    BY <1>1, CallApart DEF OpenStep, UseStep
  <2>2. closed' = closed /\ sessions' \subseteq sessions /\ opens' = opens
    BY <1>1 DEF OpenStarts, table
  <2>3. Calm
    BY <2>2, CalmStep
  <2>4. QED
    BY <1>f, <2>1, <2>2, <2>3
<1>2. ASSUME NEW p \in Callers, OpenLocks(p)
      PROVE  ShutdownIsComplete'
  <2>1. Apart(p)
    BY <1>2, CallApart DEF OpenStep, UseStep
  <2>2. closed' = closed /\ sessions' \subseteq sessions /\ opens' = opens
    BY <1>2 DEF OpenLocks, table
  <2>3. Calm
    BY <2>2, CalmStep
  <2>4. QED
    BY <1>f, <2>1, <2>2, <2>3
<1>3. ASSUME NEW p \in Callers, OpenCounts(p)
      PROVE  ShutdownIsComplete'
  <2>1. Apart(p)
    BY <1>3, CallApart DEF OpenStep, UseStep
  <2>2. closed' = closed /\ sessions' \subseteq sessions /\ opens' = opens
    BY <1>3 DEF OpenCounts, table
  <2>3. Calm
    BY <2>2, CalmStep
  <2>4. QED
    BY <1>f, <2>1, <2>2, <2>3
<1>4. ASSUME NEW p \in Callers, OpenRefuses(p)
      PROVE  ShutdownIsComplete'
  <2>1. Apart(p)
    BY <1>4, CallApart DEF OpenStep, UseStep
  <2>2. closed' = closed /\ sessions' \subseteq sessions /\ opens' = opens
    BY <1>4 DEF OpenRefuses, table
  <2>3. Calm
    BY <2>2, CalmStep
  <2>4. QED
    BY <1>f, <2>1, <2>2, <2>3
<1>5. ASSUME NEW p \in Callers, OpenForks(p)
      PROVE  ShutdownIsComplete'
  <2>1. Apart(p)
    BY <1>5, CallApart DEF OpenStep, UseStep
  <2>2. /\ sessions' = sessions /\ closed' = closed
        /\ item' = [item EXCEPT ![opens + 1] = Started(for[p].owner)]
    BY <1>5 DEF OpenForks
  <2>3. \A k \in sessions : item'[k] = item[k]
    BY <1>0, <2>2
  <2>4. QED
    BY <1>0, <2>1, <2>2, <2>3 DEF ShutdownIsComplete, Apart, Active
<1>6. ASSUME NEW p \in Callers, OpenInserts(p)
      PROVE  ShutdownIsComplete'
  <2>1. mu = p
    BY <1>0, <1>6 DEF OpenInserts, ManagerMutex
  <2>2. ~closed /\ closed' = closed
    BY <1>0, <1>6, <2>1 DEF OpenInserts, ShutdownIsFinal
  <2>3. QED
    BY <2>2 DEF ShutdownIsComplete
<1>7. ASSUME NEW p \in Callers, NEW what \in {"touch", "input", "mark"}, Ask(p, what)
      PROVE  ShutdownIsComplete'
  <2>1. Apart(p)
    BY <1>7, CallApart DEF OpenStep, UseStep
  <2>2. closed' = closed /\ sessions' \subseteq sessions /\ opens' = opens
    BY <1>7 DEF Ask, table
  <2>3. Calm
    BY <2>2, CalmStep
  <2>4. QED
    BY <1>f, <2>1, <2>2, <2>3
<1>8. ASSUME NEW p \in Callers, Touch(p)
      PROVE  ShutdownIsComplete'
  <2>1. Apart(p)
    BY <1>8, CallApart DEF OpenStep, UseStep
  <2>2. closed' = closed /\ sessions' \subseteq sessions /\ opens' = opens
    BY <1>8 DEF Touch, table
  <2>3. Calm
    BY <2>2, CalmStep
  <2>4. QED
    BY <1>f, <2>1, <2>2, <2>3
<1>9. ASSUME NEW p \in Callers, InputLocks(p)
      PROVE  ShutdownIsComplete'
  <2>1. Apart(p)
    BY <1>9, CallApart DEF OpenStep, UseStep
  <2>2. closed' = closed /\ sessions' \subseteq sessions /\ opens' = opens
    BY <1>9 DEF InputLocks, table
  <2>3. Calm
    BY <2>2, CalmStep
  <2>4. QED
    BY <1>f, <2>1, <2>2, <2>3
<1>10. ASSUME NEW p \in Callers, InputReturns(p)
      PROVE  ShutdownIsComplete'
  <2>1. Apart(p)
    BY <1>10, CallApart DEF OpenStep, UseStep
  <2>2. closed' = closed /\ sessions' \subseteq sessions /\ opens' = opens
    BY <1>10 DEF InputReturns, table
  <2>3. Calm
    BY <2>2, CalmStep
  <2>4. QED
    BY <1>f, <2>1, <2>2, <2>3
<1>11. ASSUME NEW p \in Procs, CloseLooks(p)
      PROVE  ShutdownIsComplete'
  <2>1. Apart(p)
    BY <1>11, CloseApart DEF CloseStep
  <2>2. closed' = closed /\ sessions' = sessions /\ opens' = opens /\ item' = item /\ at[p] = "close"
    BY <1>11 DEF CloseLooks, table
  <2>3. Calm
    BY <2>2, CalmStep
  <2>4. CASE p # Shutdown
    BY <1>f, <2>1, <2>2, <2>3, <2>4
  <2>5. CASE p = Shutdown
    <3> PICK j \in left[p] :
           /\ left' = [left EXCEPT ![p] = left[p] \ {j}]
           /\ for' = [for EXCEPT ![p] = [owner |-> item[j].owner, id |-> j]]
           /\ at' = [at EXCEPT ![p] = IF j \in sessions THEN "mark" ELSE "skip"]
      BY <1>11 DEF CloseLooks, Goto
    <3>1. /\ left'[p] = left[p] \ {j} /\ for'[p].id = j
          /\ at'[p] = IF j \in sessions THEN "mark" ELSE "skip"
      BY <1>0
    <3>2. QED
      BY <1>0, <2>2, <2>5, <3>1 DEF ShutdownIsComplete, Active
  <2>6. QED
    BY <2>4, <2>5
<1>12. ASSUME NEW p \in Procs, CloseSkips(p)
      PROVE  ShutdownIsComplete'
  <2>1. Apart(p)
    BY <1>12, CloseApart DEF CloseStep
  <2>2. /\ closed' = closed /\ sessions' = sessions /\ opens' = opens /\ at[p] \in {"skip", "kill"} /\ Resume(p)
    BY <1>12 DEF CloseSkips, table
  <2>3. Calm
    BY <2>2, CalmStep
  <2>4. CASE p # Shutdown
    BY <1>f, <2>1, <2>2, <2>3, <2>4
  <2>5. CASE p = Shutdown
    BY <1>u, <2>2, <2>3, <2>5, ResumeApart
  <2>6. QED
    BY <2>4, <2>5
<1>13. ASSUME NEW p \in Procs, CloseMarks(p)
      PROVE  ShutdownIsComplete'
  <2>1. Apart(p)
    BY <1>13, CloseApart DEF CloseStep
  <2>2. /\ closed' = closed /\ sessions' = sessions /\ opens' = opens /\ at[p] = "mark"
        /\ for[p].id \in Ids
    BY <1>0, <1>13 DEF CloseMarks, table, AimsAreKnown
  <2>3. Calm
    BY <2>2, CalmStep
  <2>4. CASE p # Shutdown
    BY <1>f, <2>1, <2>2, <2>3, <2>4
  <2>5. CASE p = Shutdown
    <3>1. item'[for[p].id].closed
      <4>1. CASE item[for[p].id].closed
        BY <2>2, <2>3, <4>1 DEF Calm
      <4>2. CASE ~item[for[p].id].closed
        <5>1. item' = [item EXCEPT ![for[p].id] = [item[for[p].id] EXCEPT !.closed = TRUE, !.age = 0]]
          BY <1>13, <4>2 DEF CloseMarks
        <5>2. [item[for[p].id] EXCEPT !.closed = TRUE, !.age = 0].closed = TRUE
          BY <1>0, <2>2 DEF Items
        <5>3. QED
          BY <1>0, <2>2, <5>1, <5>2
      <4>3. QED
        BY <4>1, <4>2
    <3>2. left'[p] = left[p] /\ (at'[p] = "done" => left[p] = {})
      <4>1. CASE Resume(p)
        BY <4>1, ResumeApart
      <4>2. CASE Goto(p, "kill") /\ left' = left
        BY <1>0, <4>2 DEF Goto
      <4>3. QED
        BY <1>13, <4>1, <4>2 DEF CloseMarks
    <3>3. QED
      BY <1>0, <2>2, <2>3, <2>5, <3>1, <3>2 DEF ShutdownIsComplete, Calm, Active
  <2>6. QED
    BY <2>4, <2>5
<1>14. ASSUME NEW p \in Procs, CloseKills(p)
      PROVE  ShutdownIsComplete'
  <2>1. Apart(p)
    BY <1>14, CloseApart DEF CloseStep
  <2>2. /\ closed' = closed /\ sessions' = sessions /\ opens' = opens /\ at[p] \in {"skip", "kill"} /\ Resume(p)
    BY <1>14 DEF CloseKills, table
  <2>3. Calm
    BY <2>2, CalmStep
  <2>4. CASE p # Shutdown
    BY <1>f, <2>1, <2>2, <2>3, <2>4
  <2>5. CASE p = Shutdown
    BY <1>u, <2>2, <2>3, <2>5, ResumeApart
  <2>6. QED
    BY <2>4, <2>5
<1>15. ASSUME CloseAll
      PROVE  ShutdownIsComplete'
  <2>1. left'[Shutdown] = sessions /\ sessions' = sessions /\ (at'[Shutdown] = "done" => sessions = {})
    BY <1>0, <1>15 DEF CloseAll, Goto
  <2>2. QED
    BY <2>1 DEF ShutdownIsComplete
<1>16. ASSUME ReapStarts
      PROVE  ShutdownIsComplete'
  <2>1. Apart(Reaper)
    BY <1>16, CloseApart DEF Reap
  <2>2. closed' = closed /\ sessions' \subseteq sessions /\ opens' = opens
    BY <1>16 DEF ReapStarts, table
  <2>3. Calm
    BY <2>2, CalmStep
  <2>4. QED
    BY <1>f, <2>1, <2>2, <2>3
<1>17. ASSUME ReapStops
      PROVE  ShutdownIsComplete'
  <2>1. Apart(Reaper)
    BY <1>17, CloseApart DEF Reap
  <2>2. closed' = closed /\ sessions' \subseteq sessions /\ opens' = opens
    BY <1>17 DEF ReapStops, table
  <2>3. Calm
    BY <2>2, CalmStep
  <2>4. QED
    BY <1>f, <2>1, <2>2, <2>3
<1>18. ASSUME ReapLooks
      PROVE  ShutdownIsComplete'
  <2>1. Apart(Reaper)
    BY <1>18, CloseApart DEF Reap
  <2>2. closed' = closed /\ sessions' \subseteq sessions /\ opens' = opens
    BY <1>18 DEF ReapLooks, table
  <2>3. Calm
    BY <2>2, CalmStep
  <2>4. QED
    BY <1>f, <2>1, <2>2, <2>3
<1>19. ASSUME ReapUnlocks
      PROVE  ShutdownIsComplete'
  <2>1. Apart(Reaper)
    BY <1>19, CloseApart DEF Reap
  <2>2. closed' = closed /\ sessions' \subseteq sessions /\ opens' = opens
    BY <1>19 DEF ReapUnlocks, table
  <2>3. Calm
    BY <2>2, CalmStep
  <2>4. QED
    BY <1>f, <2>1, <2>2, <2>3
<1>20. ASSUME NEW i \in Ids, Live(i)
      PROVE  ShutdownIsComplete'
  <2>1. /\ at' = at /\ for' = for /\ left' = left /\ opens' = opens
        /\ sessions' = sessions /\ closed' = closed
    BY <1>20 DEF Live, Prints, ShellEnds, SetExit, Quiet, Expires, table
  <2>2. Calm
    BY <2>1, CalmStep
  <2>3. QED
    BY <1>0, <2>1, <2>2 DEF ShutdownIsComplete, Calm, Active
<1>21. QED
  BY <1>1, <1>2, <1>3, <1>4, <1>5, <1>6, <1>7, <1>8, <1>9, <1>10, <1>11, <1>12, <1>13, <1>14, <1>15, <1>16, <1>17, <1>18, <1>19, <1>20 DEF Next, OpenStep, UseStep, CloseStarts, CloseStep, Reap

\* The limits hold when a session is entered.
LEMMA LimitsStep ==
  ASSUME ManagerInv, Next
  PROVE  SessionLimitsKept'
<1> USE ProcFacts
<1>0. /\ item \in [Ids -> Items] /\ for \in [Procs -> Aims] /\ found \in [Procs -> SUBSET Ids]
      /\ opens \in Nat /\ sessions \subseteq 1 .. opens /\ sessions \subseteq Ids
      /\ SessionLimitsKept /\ AimsAreKnown /\ CountIsComplete
  BY TablesKnown DEF ManagerInv, TypeOK, Kinds
<1>i. IsFiniteSet(Ids)
  BY FS_Interval, BoundFacts DEF Ids
<1>r. IsFiniteSet(Running) /\ \A o : IsFiniteSet({i \in Running : item[i].owner = o})
  BY <1>0, <1>i, FS_Subset DEF Running
<1>s. ASSUME Running' \subseteq Running, \A i \in Running' : item'[i].owner = item[i].owner
      PROVE  SessionLimitsKept'
  <2>1. Cardinality(Running') <= MaxSessions
    <3>1. Cardinality(Running') <= Cardinality(Running) /\ IsFiniteSet(Running')
      BY <1>r, <1>s, FS_Subset
    <3>2. Cardinality(Running) <= MaxSessions
      BY <1>0 DEF SessionLimitsKept
    <3>3. QED
      BY <1>r, <3>1, <3>2, FS_CardinalityType, BoundFacts
  <2>2. ASSUME NEW o \in Owners
        PROVE  Cardinality({i \in Running' : item'[i].owner = o}) <= MaxOwnerSessions
    <3> DEFINE Mine == {i \in Running : item[i].owner = o}
               Later == {i \in Running' : item'[i].owner = o}
    <3>1. Later \subseteq Mine
      BY <1>s
    <3>2. IsFiniteSet(Mine)
      BY <1>r
    <3>3. Cardinality(Mine) <= MaxOwnerSessions
      BY <1>0 DEF SessionLimitsKept
    <3> HIDE DEF Mine, Later
    <3>4. Cardinality(Later) <= Cardinality(Mine) /\ IsFiniteSet(Later)
      BY <3>1, <3>2, FS_Subset
    <3>5. Cardinality(Later) <= MaxOwnerSessions
      BY <3>2, <3>3, <3>4, FS_CardinalityType, BoundFacts
    <3>6. QED
      BY <3>5 DEF Later
  <2>3. QED
    BY <2>1, <2>2 DEF SessionLimitsKept
<1>c. ASSUME opens' = opens, sessions' \subseteq sessions
      PROVE  SessionLimitsKept'
  <2>1. Calm
    BY <1>c, CalmStep
  <2>2. Running' \subseteq Running
    BY <1>0, <1>c, <2>1, RunningFacts
  <2>3. QED
    BY <1>0, <1>s, <2>1, <2>2 DEF Calm, Running
<1>1. ASSUME NEW p \in Callers, OpenStarts(p)
      PROVE  SessionLimitsKept'
  BY <1>c, <1>1 DEF OpenStarts, Goto, table
<1>2. ASSUME NEW p \in Callers, OpenLocks(p)
      PROVE  SessionLimitsKept'
  BY <1>c, <1>2 DEF OpenLocks, Goto, Return, table
<1>3. ASSUME NEW p \in Callers, OpenCounts(p)
      PROVE  SessionLimitsKept'
  BY <1>c, <1>3 DEF OpenCounts, table
<1>4. ASSUME NEW p \in Callers, OpenRefuses(p)
      PROVE  SessionLimitsKept'
  BY <1>c, <1>4 DEF OpenRefuses, Goto, Return, table
<1>5. ASSUME NEW p \in Callers, OpenForks(p)
      PROVE  SessionLimitsKept'
  <2>1. sessions' = sessions /\ item' = [item EXCEPT ![opens + 1] = Started(for[p].owner)]
    BY <1>5 DEF OpenForks
  <2>2. \A k \in sessions : item'[k] = item[k]
    BY <1>0, <2>1
  <2>3. Running' = Running
    BY <2>1, <2>2 DEF Running, Active
  <2>4. QED
    BY <1>s, <2>2, <2>3 DEF Running
<1>6. ASSUME NEW p \in Callers, OpenInserts(p)
      PROVE  SessionLimitsKept'
  <2>0. /\ at[p] = "insert" /\ sessions' \subseteq sessions \cup {for[p].id} /\ opens' = opens
    BY <1>6 DEF OpenInserts
  <2>1. /\ for[p].id = opens /\ item[opens].owner = for[p].owner /\ opens \in Ids
        /\ found[p] \subseteq 1 .. (opens - 1) /\ Running \subseteq found[p]
        /\ Cardinality(found[p]) < MaxSessions
        /\ Cardinality({k \in found[p] : item[k].owner = for[p].owner}) < MaxOwnerSessions
    BY <1>0, <2>0 DEF CountIsComplete, Counted, AimsAreKnown
  <2>2. Calm
    BY <2>0, CalmStep
  <2>3. Running' \subseteq Running \cup {opens} /\ \A k \in Running' : item'[k].owner = item[k].owner
    BY <1>0, <2>0, <2>1, <2>2 DEF Running, Active, Calm
  <2>4. IsFiniteSet(found[p]) /\ opens \notin found[p]
    BY <1>0, <1>i, <2>1, FS_Subset
  <2>5. Cardinality(Running') <= MaxSessions
    <3>1. Cardinality(found[p] \cup {opens}) = Cardinality(found[p]) + 1 /\ IsFiniteSet(found[p] \cup {opens})
      BY <2>4, FS_AddElement
    <3>2. Running' \subseteq found[p] \cup {opens}
      BY <2>1, <2>3
    <3>3. Cardinality(Running') <= Cardinality(found[p] \cup {opens}) /\ IsFiniteSet(Running')
      BY <3>1, <3>2, FS_Subset
    <3>4. Cardinality(found[p]) \in Nat /\ Cardinality(Running') \in Nat
      BY <2>4, <3>3, FS_CardinalityType
    <3>5. QED
      BY <2>1, <3>1, <3>3, <3>4, BoundFacts
  <2>6. ASSUME NEW o \in Owners
        PROVE  Cardinality({k \in Running' : item'[k].owner = o}) <= MaxOwnerSessions
    <3>1. CASE o # for[p].owner
      <4> DEFINE Mine == {k \in Running : item[k].owner = o}
                 Later == {k \in Running' : item'[k].owner = o}
      <4>1. Later \subseteq Mine
        BY <2>1, <2>3, <3>1
      <4>2. IsFiniteSet(Mine) /\ Cardinality(Mine) <= MaxOwnerSessions
        BY <1>0, <1>r DEF SessionLimitsKept
      <4> HIDE DEF Mine, Later
      <4>3. Cardinality(Later) <= Cardinality(Mine) /\ IsFiniteSet(Later)
        BY <4>1, <4>2, FS_Subset
      <4>4. Cardinality(Later) <= MaxOwnerSessions
        BY <4>2, <4>3, FS_CardinalityType, BoundFacts
      <4>5. QED
        BY <4>4 DEF Later
    <3>2. CASE o = for[p].owner
      <4> DEFINE Mine == {k \in found[p] : item[k].owner = for[p].owner}
                 Later == {k \in Running' : item'[k].owner = o}
      <4>1. Later \subseteq Mine \cup {opens} /\ opens \notin Mine
        BY <2>1, <2>3, <2>4, <3>2
      <4>2. IsFiniteSet(Mine) /\ Cardinality(Mine) < MaxOwnerSessions
        BY <2>1, <2>4, FS_Subset
      <4> HIDE DEF Mine, Later
      <4>3. Cardinality(Mine \cup {opens}) = Cardinality(Mine) + 1 /\ IsFiniteSet(Mine \cup {opens})
        BY <4>1, <4>2, FS_AddElement
      <4>4. Cardinality(Later) <= Cardinality(Mine \cup {opens}) /\ IsFiniteSet(Later)
        BY <4>1, <4>3, FS_Subset
      <4>5. Cardinality(Mine) \in Nat /\ Cardinality(Later) \in Nat
        BY <4>2, <4>4, FS_CardinalityType
      <4>6. Cardinality(Later) <= MaxOwnerSessions
        BY <4>2, <4>3, <4>4, <4>5, BoundFacts
      <4>7. QED
        BY <4>6 DEF Later
    <3>3. QED
      BY <3>1, <3>2
  <2>7. QED
    BY <2>5, <2>6 DEF SessionLimitsKept
<1>7. ASSUME NEW p \in Callers, NEW what \in {"touch", "input", "mark"}, Ask(p, what)
      PROVE  SessionLimitsKept'
  BY <1>c, <1>7 DEF Ask, Goto, table
<1>8. ASSUME NEW p \in Callers, Touch(p)
      PROVE  SessionLimitsKept'
  BY <1>c, <1>8 DEF Touch, Goto, Return, table
<1>9. ASSUME NEW p \in Callers, InputLocks(p)
      PROVE  SessionLimitsKept'
  BY <1>c, <1>9 DEF InputLocks, Goto, table
<1>10. ASSUME NEW p \in Callers, InputReturns(p)
      PROVE  SessionLimitsKept'
  BY <1>c, <1>10 DEF InputReturns, Goto, Return, table
<1>11. ASSUME NEW p \in Procs, CloseLooks(p)
      PROVE  SessionLimitsKept'
  BY <1>c, <1>11 DEF CloseLooks, Goto, table
<1>12. ASSUME NEW p \in Procs, CloseSkips(p)
      PROVE  SessionLimitsKept'
  BY <1>c, <1>12 DEF CloseSkips, table
<1>13. ASSUME NEW p \in Procs, CloseMarks(p)
      PROVE  SessionLimitsKept'
  BY <1>c, <1>13 DEF CloseMarks, table
<1>14. ASSUME NEW p \in Procs, CloseKills(p)
      PROVE  SessionLimitsKept'
  BY <1>c, <1>14 DEF CloseKills, table
<1>15. ASSUME CloseAll
      PROVE  SessionLimitsKept'
  BY <1>c, <1>15 DEF CloseAll, Goto, table
<1>16. ASSUME ReapStarts
      PROVE  SessionLimitsKept'
  BY <1>c, <1>16 DEF ReapStarts, Goto, table
<1>17. ASSUME ReapStops
      PROVE  SessionLimitsKept'
  BY <1>c, <1>17 DEF ReapStops, Goto, table
<1>18. ASSUME ReapLooks
      PROVE  SessionLimitsKept'
  BY <1>c, <1>18 DEF ReapLooks, table
<1>19. ASSUME ReapUnlocks
      PROVE  SessionLimitsKept'
  BY <1>c, <1>19 DEF ReapUnlocks, Goto, table
<1>20. ASSUME NEW i \in Ids, Live(i)
      PROVE  SessionLimitsKept'
  BY <1>c, <1>20 DEF Live, Prints, ShellEnds, SetExit, Quiet, Expires, table
<1>21. QED
  BY <1>1, <1>2, <1>3, <1>4, <1>5, <1>6, <1>7, <1>8, <1>9, <1>10, <1>11, <1>12, <1>13, <1>14, <1>15, <1>16, <1>17, <1>18, <1>19, <1>20 DEF Next, OpenStep, UseStep, CloseStarts, CloseStep, Reap

-----------------------------------------------------------------------------
\* No session has been opened.
LEMMA InitInv == Init => ManagerInv
<1> SUFFICES ASSUME Init PROVE ManagerInv
  OBVIOUS
<1> USE ProcFacts, BoundFacts
<1>1. NoItem \in Items /\ Nobody \in Aims /\ "idle" \in AllStages
  BY DEF NoItem, Items, Nobody, Aims, AllStages, Closing
<1>2. /\ mu \in Procs \cup {Free} /\ closed \in BOOLEAN /\ opens \in 0 .. MaxOpens
      /\ sessions \subseteq 1 .. opens /\ uses \in 0 .. MaxUses
  <2>1. mu = Free /\ closed = FALSE /\ sessions = {} /\ opens = 0 /\ uses = 0
    BY DEF Init
  <2>2. 0 \in 0 .. MaxOpens /\ 0 \in 0 .. MaxUses
    BY BoundFacts
  <2>3. QED
    BY <2>1, <2>2
<1>3. /\ item \in [Ids -> Items] /\ hold \in [Ids -> Callers \cup {Free}]
      /\ at \in [Procs -> AllStages] /\ for \in [Procs -> Aims]
      /\ left \in [Procs -> SUBSET Ids] /\ found \in [Procs -> SUBSET Ids]
  BY <1>1 DEF Init
<1>4. ManagerMutex /\ SessionMutexes /\ StagesAreOwn
  BY DEF Init, ManagerMutex, SessionMutexes, StagesAreOwn, Asking
<1>5. AimsAreKnown /\ CountIsComplete
  BY DEF Init, AimsAreKnown, CountIsComplete, Counted
<1>6. ShellsAreWatched
  BY DEF Init, NoItem, ShellsAreWatched, ShutdownIsFinal, ClosedAreKilled, OthersAreEntered, ShutdownIsComplete
<1>7. Running = {} /\ \A o \in Owners : {i \in Running : item[i].owner = o} = {}
  BY DEF Init, Running
<1>8. SessionLimitsKept
  BY <1>7, FS_EmptySet DEF SessionLimitsKept
<1>9. QED
  BY <1>2, <1>3, <1>4, <1>5, <1>6, <1>8 DEF ManagerInv, TypeOK, Kinds

\* Nothing changes.
LEMMA StutterInv == ASSUME ManagerInv, UNCHANGED vars PROVE ManagerInv'
<1>1. Kinds' /\ StagesAreOwn'
  BY DEF ManagerInv, TypeOK, Kinds, StagesAreOwn, vars, table
<1>2. ManagerMutex' /\ SessionMutexes' /\ AimsAreKnown'
  BY DEF ManagerInv, TypeOK, ManagerMutex, SessionMutexes, AimsAreKnown, vars, table
<1>3. Running' = Running
  BY DEF Running, Active, vars, table
<1>4. CountIsComplete'
  BY <1>3 DEF ManagerInv, CountIsComplete, Counted, vars, table
<1>5. ShutdownIsFinal' /\ ClosedAreKilled' /\ OthersAreEntered'
  BY DEF ManagerInv, ShellsAreWatched, ShutdownIsFinal, ClosedAreKilled, OthersAreEntered, vars, table
<1>6. ShutdownIsComplete'
  BY DEF ManagerInv, ShellsAreWatched, ShutdownIsComplete, Active, vars, table
<1>7. SessionLimitsKept'
  BY <1>3 DEF ManagerInv, SessionLimitsKept, vars, table
<1>8. QED
  BY <1>1, <1>2, <1>4, <1>5, <1>6, <1>7 DEF ManagerInv, TypeOK, ShellsAreWatched

LEMMA StepInv == ASSUME ManagerInv, [Next]_vars PROVE ManagerInv'
<1>1. CASE Next
  BY <1>1, KindsStep, StagesStep, MutexStep, SessionMutexStep, AimsStep, CountStep, FinalStep,
     KilledStep, EnteredStep, CompleteStep, LimitsStep DEF ManagerInv, TypeOK, ShellsAreWatched
<1>2. CASE UNCHANGED vars
  BY <1>2, StutterInv
<1>3. QED
  BY <1>1, <1>2

\* The inductive invariant: what the requests, the reaper and CloseAll rely on when one
\* of them holds a mutex (Manager, session).
THEOREM ManagerInvariant == Spec => []ManagerInv
BY InitInv, StepInv, PTL DEF Spec

\* Every variable keeps its kind, and a mutex is held by the call that is between taking
\* it and giving it back, on every return of open, reap and Input.
THEOREM ManagerTypeTheorem == Spec => []TypeOK
<1>1. ManagerInv => TypeOK
  BY DEF ManagerInv
<1>2. QED
  BY <1>1, ManagerInvariant, PTL

\* Never more active sessions than MaxSessions in all and MaxOwnerSessions of one owner,
\* although they are counted one by one while others end (open).
THEOREM LimitsTheorem == Spec => []SessionLimitsKept
<1>1. ManagerInv => SessionLimitsKept
  BY DEF ManagerInv
<1>2. QED
  BY <1>1, ManagerInvariant, PTL

\* A shell that runs is in the table, about to be entered, about to be killed, or was
\* reported ended; once CloseAll has returned there is none in the table (open, reap, Close, CloseAll).
THEOREM ShellsTheorem == Spec => []NoShellIsLost
<1>1. ManagerInv => NoShellIsLost
  <2> SUFFICES ASSUME ManagerInv, NEW i \in Ids, item[i].shell = "alive"
               PROVE  \/ i \in sessions /\ at[Shutdown] # "done"
                      \/ \E p \in Procs : for[p].id = i /\ (at[p] = "kill" \/ (at[p] = "insert" /\ mu = p))
                      \/ item[i].exited
    BY DEF NoShellIsLost
  <2>0. /\ ManagerMutex /\ ShutdownIsFinal /\ ClosedAreKilled /\ OthersAreEntered /\ ShutdownIsComplete
        /\ Callers \subseteq Procs
    BY ProcFacts DEF ManagerInv, TypeOK, ShellsAreWatched
  <2>1. CASE item[i].closed
    BY <2>0, <2>1 DEF ClosedAreKilled
  <2>2. CASE \E p \in Callers : at[p] = "insert" /\ for[p].id = i
    BY <2>0, <2>2 DEF ManagerMutex
  <2>3. CASE i \in sessions /\ ~item[i].closed /\ ~item[i].exited
    BY <2>0, <2>3 DEF ShutdownIsFinal, ShutdownIsComplete, Active
  <2>4. QED
    BY <2>0, <2>1, <2>2, <2>3 DEF OthersAreEntered
<1>2. QED
  BY <1>1, ManagerInvariant, PTL

-----------------------------------------------------------------------------
(* The refinement of SessionTable.                                          *)

\* What a session shows of itself: its owner, and whether it has ended.
SameFates ==
  \A i \in Ids : item'[i].owner = item[i].owner /\ (Active(i)' <=> Active(i))

LEMMA FateFacts ==
  ASSUME item \in [Ids -> Items], NEW j \in Ids
  PROVE  /\ item' = item => SameFates
         /\ \A v : item' = [item EXCEPT ![j].age = v] => SameFates
         /\ \A v : item' = [item EXCEPT ![j].shell = v] => SameFates
<1>0. item[j] \in Items
  OBVIOUS
<1>1. item' = item => SameFates
  BY DEF SameFates, Active
<1>2. \A v : item' = [item EXCEPT ![j].age = v] => SameFates
  BY <1>0 DEF SameFates, Active, Items
<1>3. \A v : item' = [item EXCEPT ![j].shell = v] => SameFates
  BY <1>0 DEF SameFates, Active, Items
<1>4. QED
  BY <1>1, <1>2, <1>3

\* A step that the table does not show: at most, sessions that have ended leave the map.
Quietly ==
  /\ SameFates /\ closed' = closed /\ opens' = opens
  /\ sessions' \subseteq sessions /\ \A i \in sessions \ sessions' : ~Active(i)

\* A step by which one session ends.
Ends(i) ==
  /\ i \in sessions /\ Active(i) /\ ~Active(i)'
  /\ item'[i].owner = item[i].owner
  /\ \A k \in Ids \ {i} : item'[k] = item[k]
  /\ UNCHANGED table

Enters(p) ==
  OpenInserts(p) /\ sessions' = sessions \cup {for[p].id} /\ item' = item

Shows == (\E i \in Ids : Ends(i)) \/ CloseAll \/ \E p \in Callers : OpenForks(p) \/ Enters(p)

\* A flag that is set ends the session, unless it has ended already.
LEMMA EndFacts ==
  ASSUME item \in [Ids -> Items], NEW j \in Ids, UNCHANGED table,
         \/ item' = [item EXCEPT ![j].closed = TRUE, ![j].age = 0]
         \/ item' = [item EXCEPT ![j].exited = TRUE, ![j].age = 0]
  PROVE  IF Active(j) THEN j \in sessions => Ends(j) ELSE SameFates
<1>0. item[j] \in Items
  OBVIOUS
<1>1. PICK x \in {[[item[j] EXCEPT !.closed = TRUE] EXCEPT !.age = 0],
                  [[item[j] EXCEPT !.exited = TRUE] EXCEPT !.age = 0]} : item' = [item EXCEPT ![j] = x]
  <2>1. CASE item' = [item EXCEPT ![j].closed = TRUE, ![j].age = 0]
    BY <1>0, <2>1 DEF Items
  <2>2. CASE item' = [item EXCEPT ![j].exited = TRUE, ![j].age = 0]
    BY <1>0, <2>2 DEF Items
  <2>3. QED
    BY <2>1, <2>2
<1>2. (x.closed \/ x.exited) /\ x.owner = item[j].owner
  BY <1>0, <1>1 DEF Items
<1>3. ~Active(j)' /\ item'[j].owner = item[j].owner /\ \A k \in Ids \ {j} : item'[k] = item[k]
  BY <1>0, <1>1, <1>2 DEF Active
<1>4. QED
  BY <1>3 DEF Ends, SameFates, Active

\* Every step is one of these.
LEMMA StepShows ==
  ASSUME ManagerInv, SessionsKnown, Next
  PROVE  Quietly \/ Shows
<1> USE ProcFacts
<1>0. /\ item \in [Ids -> Items] /\ AimsAreKnown /\ opens \in Nat
      /\ at \in [Procs -> AllStages]
      /\ sessions \subseteq 1 .. opens /\ sessions \subseteq Ids
  BY TablesKnown DEF ManagerInv, TypeOK, Kinds
<1>q. ASSUME SameFates, UNCHANGED table
      PROVE  Quietly
  BY <1>q DEF Quietly, table
<1>s. item' = item => SameFates
  BY DEF SameFates, Active
<1>1. ASSUME NEW p \in Callers, OpenStep(p)
      PROVE  Quietly \/ Shows
  <2>1. CASE OpenLocks(p) \/ OpenCounts(p) \/ OpenRefuses(p)
    <3>1. item' = item /\ UNCHANGED <<closed, sessions, opens>>
      BY <2>1 DEF OpenLocks, OpenCounts, OpenRefuses, table
    <3>2. QED
      BY <1>s, <3>1 DEF Quietly
  <2>2. CASE OpenForks(p)
    BY <2>2 DEF Shows
  <2>3. CASE OpenInserts(p)
    <3>1. for[p].id \in Ids /\ UNCHANGED <<closed, opens>>
      BY <1>0, <2>3 DEF AimsAreKnown, OpenInserts
    <3>2. CASE sessions' = sessions \cup {for[p].id} /\ item' = item
      BY <2>3, <3>2 DEF Shows, Enters
    <3>3. CASE sessions' = sessions /\ item' = [item EXCEPT ![for[p].id].shell = "dead"]
      BY <1>0, <3>1, <3>3, FateFacts DEF Quietly
    <3>4. QED
      BY <2>3, <3>2, <3>3 DEF OpenInserts, Set
  <2>4. QED
    BY <1>1, <2>1, <2>2, <2>3 DEF OpenStep
<1>2. ASSUME NEW p \in Callers,
             OpenStarts(p) \/ InputLocks(p) \/ \E what \in {"touch", "input", "mark"} : Ask(p, what)
      PROVE  Quietly
  BY <1>2, <1>q, <1>s DEF OpenStarts, InputLocks, Ask
<1>3. ASSUME NEW p \in Callers, Touch(p) \/ InputReturns(p)
      PROVE  Quietly
  <2>1. for[p].id \in Ids
    BY <1>0, <1>3 DEF AimsAreKnown, Touch, InputReturns
  <2>2. SameFates
    BY <1>0, <1>3, <2>1, FateFacts DEF Touch, InputReturns
  <2>3. QED
    BY <1>3, <1>q, <2>2 DEF Touch, InputReturns
<1>4. ASSUME NEW p \in Procs, CloseLooks(p) \/ CloseSkips(p)
      PROVE  Quietly
  BY <1>4, <1>q, <1>s DEF CloseLooks, CloseSkips
<1>5. ASSUME NEW p \in Procs, CloseMarks(p)
      PROVE  Quietly \/ Shows
  <2>1. PICK j \in Ids : j = for[p].id
    BY <1>0, <1>5 DEF AimsAreKnown, CloseMarks
  <2>2. UNCHANGED table /\ (j \in sessions \/ ~Active(j))
    BY <1>5, <2>1 DEF CloseMarks, SessionsKnown
  <2>3. CASE item' = item
    BY <1>q, <1>s, <2>2, <2>3
  <2>4. CASE ~item[j].closed /\ item' = [item EXCEPT ![j].closed = TRUE, ![j].age = 0]
    <3>1. CASE Active(j)
      BY <1>0, <2>2, <2>4, <3>1, EndFacts DEF Shows
    <3>2. CASE ~Active(j)
      BY <1>0, <1>q, <2>2, <2>4, <3>2, EndFacts
    <3>3. QED
      BY <3>1, <3>2
  <2>5. QED
    BY <1>5, <2>1, <2>3, <2>4 DEF CloseMarks
<1>6. ASSUME NEW p \in Procs, CloseKills(p)
      PROVE  Quietly
  <2>1. for[p].id \in Ids
    BY <1>0, <1>6 DEF AimsAreKnown, CloseKills
  <2>2. SameFates
    BY <1>0, <1>6, <2>1, FateFacts DEF CloseKills, Set
  <2>3. QED
    BY <1>6, <1>q, <2>2 DEF CloseKills
<1>7. CASE CloseAll
  BY <1>7 DEF Shows
<1>8. CASE Reap
  <2>1. CASE ReapStarts \/ ReapStops \/ ReapUnlocks
    BY <1>s, <2>1 DEF ReapStarts, ReapStops, ReapUnlocks, Quietly, table
  <2>2. CASE ReapLooks
    <3>1. item' = item /\ UNCHANGED <<closed, opens>>
      BY <2>2 DEF ReapLooks
    <3>2. PICK i \in left[Reaper] :
            sessions' = IF Finished(i) /\ item[i].age >= 1 THEN sessions \ {i} ELSE sessions
      BY <2>2 DEF ReapLooks
    <3>3. sessions' \subseteq sessions /\ \A k \in sessions \ sessions' : ~Active(k)
      BY <3>2 DEF Finished, Active
    <3>4. QED
      BY <1>s, <3>1, <3>3 DEF Quietly
  <2>3. QED
    BY <1>8, <2>1, <2>2 DEF Reap
<1>9. ASSUME NEW i \in Ids, Live(i)
      PROVE  Quietly \/ Shows
  <2>1. UNCHANGED table
    BY <1>9 DEF Live, Prints, ShellEnds, SetExit, Quiet, Expires
  <2>2. CASE Prints(i) \/ ShellEnds(i) \/ Quiet(i) \/ Expires(i)
    <3>1. SameFates
      BY <1>0, <2>2, FateFacts DEF Prints, ShellEnds, Quiet, Expires, Set
    <3>2. QED
      BY <1>q, <2>1, <3>1
  <2>3. CASE SetExit(i)
    <3>1. CASE Active(i)
      BY <1>0, <2>1, <2>3, <3>1, EndFacts DEF SetExit, Shows
    <3>2. CASE ~Active(i)
      BY <1>0, <1>q, <2>1, <2>3, <3>2, EndFacts DEF SetExit
    <3>3. QED
      BY <3>1, <3>2
  <2>4. QED
    BY <1>9, <2>2, <2>3 DEF Live
<1>10. QED
  BY <1>1, <1>2, <1>3, <1>4, <1>5, <1>6, <1>7, <1>8, <1>9
  DEF Next, UseStep, CloseStarts, CloseStep

\* What a step does to sessions: none that has an owner loses it, and one that is in the
\* table or has ended stays there or has ended.
LEMMA FatesStep ==
  ASSUME ManagerInv, SessionsKnown, Quietly \/ Shows
  PROVE  /\ \A i \in Ids : i \in sessions \/ ~Active(i) => i \in sessions' \/ ~Active(i)'
         /\ \A i \in Ids : IF i <= opens' THEN item'[i].owner \in Owners ELSE Active(i)'
<1>0. /\ item \in [Ids -> Items] /\ opens \in Nat /\ sessions \subseteq 1 .. opens
      /\ sessions \subseteq Ids
      /\ \A i \in Ids : IF i <= opens THEN item[i].owner \in Owners ELSE Active(i)
  BY TablesKnown DEF ManagerInv, TypeOK, Kinds, SessionsKnown
<1>1. CASE Quietly
  BY <1>0, <1>1 DEF Quietly, SameFates
<1>2. ASSUME NEW i \in Ids, Ends(i)
      PROVE  /\ \A k \in Ids : k \in sessions \/ ~Active(k) => k \in sessions' \/ ~Active(k)'
             /\ \A k \in Ids : IF k <= opens' THEN item'[k].owner \in Owners ELSE Active(k)'
  <2>1. sessions' = sessions /\ opens' = opens /\ i <= opens
    BY <1>0, <1>2 DEF Ends, table
  <2>2. \A k \in Ids \ {i} : item'[k].owner = item[k].owner /\ (Active(k)' <=> Active(k))
    BY <1>2 DEF Ends, Active
  <2>3. item'[i].owner = item[i].owner /\ i \in sessions
    BY <1>2 DEF Ends
  <2>4. QED
    BY <1>0, <2>1, <2>2, <2>3
<1>3. CASE CloseAll
  BY <1>0, <1>3 DEF CloseAll, Active
<1>4. ASSUME NEW p \in Callers, OpenForks(p)
      PROVE  /\ \A k \in Ids : k \in sessions \/ ~Active(k) => k \in sessions' \/ ~Active(k)'
             /\ \A k \in Ids : IF k <= opens' THEN item'[k].owner \in Owners ELSE Active(k)'
  <2>1. /\ for[p].owner \in Owners /\ sessions' = sessions /\ opens' = opens + 1
        /\ item' = [item EXCEPT ![opens + 1] = Started(for[p].owner)]
    BY <1>4, ProcFacts DEF OpenForks, SessionsKnown
  <2>2. /\ Started(for[p].owner).owner = for[p].owner
        /\ ~Started(for[p].owner).closed /\ ~Started(for[p].owner).exited
    BY DEF Started
  <2>3. \A k \in Ids \ {opens + 1} : item'[k] = item[k]
    BY <1>0, <2>1
  <2>4. opens + 1 \in Ids => item'[opens + 1] = Started(for[p].owner)
    BY <1>0, <2>1
  <2>5. \A k \in Ids : k \in Nat
    BY DEF Ids
  <2>6. ASSUME NEW k \in Ids
        PROVE  /\ k \in sessions \/ ~Active(k) => k \in sessions' \/ ~Active(k)'
               /\ IF k <= opens' THEN item'[k].owner \in Owners ELSE Active(k)'
    <3>1. CASE k = opens + 1
      BY <1>0, <2>1, <2>2, <2>4, <3>1 DEF Active
    <3>2. CASE k # opens + 1
      <4>1. item'[k] = item[k] /\ (k <= opens + 1 <=> k <= opens)
        BY <1>0, <2>3, <2>5, <3>2
      <4>2. QED
        BY <1>0, <2>1, <4>1 DEF Active
    <3>3. QED
      BY <3>1, <3>2
  <2>7. QED
    BY <2>6
<1>5. ASSUME NEW p \in Callers, Enters(p)
      PROVE  /\ \A k \in Ids : k \in sessions \/ ~Active(k) => k \in sessions' \/ ~Active(k)'
             /\ \A k \in Ids : IF k <= opens' THEN item'[k].owner \in Owners ELSE Active(k)'
  <2>1. opens' = opens
    BY <1>5 DEF Enters, OpenInserts
  <2>2. QED
    BY <1>0, <1>5, <2>1 DEF Enters, Active
<1>6. QED
  BY <1>1, <1>2, <1>3, <1>4, <1>5 DEF Shows

\* Whom a call acts for and on, once it has gone to stage s with aim x.
Fits(s, x) ==
  /\ s \in {"open", "count", "insert"} => x.owner \in Owners
  /\ s = "mark" => x.id \in Ids /\ (x.id \in sessions \/ ~Active(x.id))

LEMMA FitsStep ==
  ASSUME ManagerInv, SessionsKnown, Next
  PROVE  \A p \in Procs :
           /\ at'[p] \in {"open", "count", "insert"} => for'[p].owner \in Owners
           /\ at'[p] = "mark" => for'[p].id \in Ids /\ (for'[p].id \in sessions \/ ~Active(for'[p].id))
<1> USE ProcFacts
<1> DEFINE Goal ==
      \A p \in Procs :
        /\ at'[p] \in {"open", "count", "insert"} => for'[p].owner \in Owners
        /\ at'[p] = "mark" => for'[p].id \in Ids /\ (for'[p].id \in sessions \/ ~Active(for'[p].id))
<1>0. /\ at \in [Procs -> AllStages] /\ for \in [Procs -> Aims] /\ left \in [Procs -> SUBSET Ids]
      /\ sessions \subseteq Ids /\ opens \in Nat
      /\ \A p \in Procs : Fits(at[p], for[p])
  BY TablesKnown DEF ManagerInv, TypeOK, Kinds, SessionsKnown, AimsAreKnown, Fits
<1>n. ASSUME NEW p \in Procs, NEW s, at' = [at EXCEPT ![p] = s], NEW x, for' = [for EXCEPT ![p] = x],
             Fits(s, x)
      PROVE  Goal
  BY <1>0, <1>n DEF Fits
<1>k. ASSUME NEW p \in Procs, NEW s, at' = [at EXCEPT ![p] = s], for' = for, Fits(s, for[p])
      PROVE  Goal
  BY <1>0, <1>k DEF Fits
<1>e. \A s, x : s \notin {"open", "count", "insert", "mark"} => Fits(s, x)
  BY DEF Fits
<1>i. ASSUME NEW p \in Procs, NEW s, at' = [at EXCEPT ![p] = s],
             s \notin {"open", "count", "insert", "mark"},
             for' = for \/ for' = [for EXCEPT ![p] = Nobody]
      PROVE  Goal
  <2>1. Fits(s, for[p]) /\ Fits(s, Nobody)
    BY <1>e, <1>i
  <2>2. QED
    BY <1>i, <1>k, <1>n, <2>1
<1>j. ASSUME NEW p \in Procs, NEW s \in {"idle", "done"}, Return(p, s)
      PROVE  Goal
  BY <1>i, <1>j DEF Return, Goto
<1>s. ASSUME at' = at, for' = for
      PROVE  Goal
  BY <1>0, <1>s DEF Fits
<1>r. ASSUME NEW p \in Procs, Resume(p)
      PROVE  Goal
  BY <1>i, <1>j, <1>r DEF Resume, Goto
<1> HIDE DEF Goal
<1>1. ASSUME NEW p \in Callers, OpenStarts(p)
      PROVE  Goal
  <2>1. PICK o \in Owners : for' = [for EXCEPT ![p] = [owner |-> o, id |-> None]]
    BY <1>1 DEF OpenStarts
  <2>2. at' = [at EXCEPT ![p] = "open"] /\ Fits("open", [owner |-> o, id |-> None])
    BY <1>1 DEF OpenStarts, Goto, Fits
  <2>3. QED
    BY <1>n, <2>1, <2>2
<1>2. ASSUME NEW p \in Callers, OpenLocks(p)
      PROVE  Goal
  <2>1. CASE Return(p, "idle")
    BY <1>j, <2>1
  <2>2. CASE Goto(p, "count") /\ for' = for
    <3>1. at[p] = "open" /\ Fits(at[p], for[p])
      BY <1>0, <1>2 DEF OpenLocks
    <3>2. Fits("count", for[p])
      BY <3>1 DEF Fits
    <3>3. QED
      BY <1>k, <2>2, <3>2 DEF Goto
  <2>3. QED
    BY <1>2, <2>1, <2>2 DEF OpenLocks
<1>3. ASSUME NEW p \in Callers, OpenCounts(p)
      PROVE  Goal
  BY <1>s, <1>3 DEF OpenCounts
<1>4. ASSUME NEW p \in Callers, OpenRefuses(p)
      PROVE  Goal
  BY <1>j, <1>4 DEF OpenRefuses
<1>5. ASSUME NEW p \in Callers, OpenForks(p)
      PROVE  Goal
  <2>1. at[p] = "count" /\ Fits(at[p], for[p]) /\ for[p] \in Aims
    BY <1>0, <1>5 DEF OpenForks
  <2>2. PICK x : x = [for[p] EXCEPT !.id = opens + 1]
    OBVIOUS
  <2>3. x.owner \in Owners
    BY <2>1, <2>2 DEF Fits, Aims
  <2>4. Fits("insert", x)
    BY <2>3 DEF Fits
  <2>5. for' = [for EXCEPT ![p] = x] /\ at' = [at EXCEPT ![p] = "insert"]
    BY <1>5, <2>2 DEF OpenForks, Goto
  <2>6. QED
    BY <1>n, <2>4, <2>5
<1>6. ASSUME NEW p \in Callers, OpenInserts(p)
      PROVE  Goal
  BY <1>j, <1>6 DEF OpenInserts
<1>7. ASSUME NEW p \in Callers, NEW what \in {"touch", "input", "mark"}, Ask(p, what)
      PROVE  Goal
  <2>1. PICK i \in sessions : for' = [for EXCEPT ![p] = [owner |-> item[i].owner, id |-> i]]
    BY <1>7 DEF Ask
  <2>2. at' = [at EXCEPT ![p] = what] /\ Fits(what, [owner |-> item[i].owner, id |-> i])
    BY <1>0, <1>7 DEF Ask, Goto, Fits
  <2>3. QED
    BY <1>n, <2>1, <2>2
<1>8. ASSUME NEW p \in Callers, Touch(p)
      PROVE  Goal
  BY <1>j, <1>8 DEF Touch
<1>9. ASSUME NEW p \in Callers, InputLocks(p)
      PROVE  Goal
  BY <1>i, <1>9 DEF InputLocks, Goto
<1>10. ASSUME NEW p \in Callers, InputReturns(p)
      PROVE  Goal
  BY <1>j, <1>10 DEF InputReturns
<1>11. ASSUME NEW p \in Procs, CloseLooks(p)
      PROVE  Goal
  <2>1. PICK j \in left[p] :
         /\ for' = [for EXCEPT ![p] = [owner |-> item[j].owner, id |-> j]]
         /\ at' = [at EXCEPT ![p] = IF j \in sessions THEN "mark" ELSE "skip"]
    BY <1>11 DEF CloseLooks, Goto
  <2>2. Fits(IF j \in sessions THEN "mark" ELSE "skip", [owner |-> item[j].owner, id |-> j])
    BY <1>0 DEF Fits
  <2>3. QED
    BY <1>n, <2>1, <2>2
<1>12. ASSUME NEW p \in Procs, CloseSkips(p)
      PROVE  Goal
  BY <1>r, <1>12 DEF CloseSkips
<1>13. ASSUME NEW p \in Procs, CloseMarks(p)
      PROVE  Goal
  BY <1>i, <1>r, <1>13 DEF CloseMarks, Goto
<1>14. ASSUME NEW p \in Procs, CloseKills(p)
      PROVE  Goal
  BY <1>r, <1>14 DEF CloseKills
<1>15. ASSUME CloseAll
      PROVE  Goal
  BY <1>i, <1>15 DEF CloseAll, Goto
<1>16. ASSUME ReapStarts
      PROVE  Goal
  BY <1>i, <1>16 DEF ReapStarts, Goto
<1>17. ASSUME ReapStops
      PROVE  Goal
  BY <1>i, <1>17 DEF ReapStops, Goto
<1>18. ASSUME ReapLooks
      PROVE  Goal
  BY <1>s, <1>18 DEF ReapLooks
<1>19. ASSUME ReapUnlocks
      PROVE  Goal
  BY <1>i, <1>19 DEF ReapUnlocks, Goto
<1>20. ASSUME NEW i \in Ids, Live(i)
      PROVE  Goal
  BY <1>s, <1>20 DEF Live, Prints, ShellEnds, SetExit, Quiet, Expires
<1>21. Goal
  BY <1>1, <1>2, <1>3, <1>4, <1>5, <1>6, <1>7, <1>8, <1>9, <1>10, <1>11, <1>12, <1>13, <1>14, <1>15, <1>16, <1>17, <1>18, <1>19, <1>20 DEF Next, OpenStep, UseStep, CloseStarts, CloseStep, Reap
<1>22. QED
  BY <1>21 DEF Goal

\* Every session has its owner, also while it is being opened, and none ends that was not
\* in the table (open, Close).
THEOREM SessionsKnownInvariant == Spec => []SessionsKnown
<1>1. Init => SessionsKnown
  <2> SUFFICES ASSUME Init PROVE SessionsKnown
    OBVIOUS
  <2>1. \A i \in Ids : i > 0 /\ i \in Nat /\ Active(i)
    BY DEF Init, Active, NoItem, Ids
  <2>2. QED
    BY <2>1 DEF Init, SessionsKnown
<1>2. ManagerInv /\ SessionsKnown /\ [Next]_vars => SessionsKnown'
  <2> SUFFICES ASSUME ManagerInv, SessionsKnown, [Next]_vars PROVE SessionsKnown'
    OBVIOUS
  <2>1. CASE UNCHANGED vars
    BY <2>1 DEF vars, table, SessionsKnown, Active
  <2>2. CASE Next
    <3>1. /\ \A i \in Ids : i \in sessions \/ ~Active(i) => i \in sessions' \/ ~Active(i)'
          /\ \A i \in Ids : IF i <= opens' THEN item'[i].owner \in Owners ELSE Active(i)'
      BY <2>2, StepShows, FatesStep
    <3>2. \A p \in Procs :
            /\ at'[p] \in {"open", "count", "insert"} => for'[p].owner \in Owners
            /\ at'[p] = "mark" => for'[p].id \in sessions' \/ ~Active(for[p].id)'
      BY <2>2, <3>1, FitsStep DEF Active
    <3>3. QED
      BY <3>1, <3>2 DEF SessionsKnown
  <2>3. QED
    BY <2>1, <2>2
<1>3. QED
  BY <1>1, <1>2, ManagerInvariant, PTL DEF Spec

-----------------------------------------------------------------------------
\* SessionTable counts with the same Cardinality.
LEMMA SameCardinality == \A S : Table!Cardinality(S) = Cardinality(S)
BY DEF Cardinality, Table!Cardinality

\* The sessions that run of one owner, as SessionTable sees them.
OfOwner(o) == {i \in Running : item[i].owner = o}

LEMMA AllAreRunning ==
  ASSUME sessions \subseteq 1 .. opens, opens \in Nat, sessions \subseteq Ids, SessionsKnown
  PROVE  Table!All = Running
<1>1. ASSUME NEW i \in Running PROVE i \in Ids /\ item[i].owner \in Owners
  BY DEF Running, SessionsKnown
<1>2. QED
  BY <1>1 DEF Table!All, Running

LEMMA NothingShown ==
  ASSUME sessions \subseteq Ids, sessions' \subseteq Ids, SameFates, closed' = closed,
         Running' = Running
  PROVE  UNCHANGED Table!vars
<1>1. \A i \in Running : item'[i].owner = item[i].owner
  BY DEF SameFates, Running
<1>2. \A o \in Owners : OfOwner(o)' = OfOwner(o)
  BY <1>1 DEF OfOwner
<1>3. [o \in Owners |-> OfOwner(o)]' = [o \in Owners |-> OfOwner(o)]
  BY <1>2
<1>4. {i \in Ids : ~Active(i)}' = {i \in Ids : ~Active(i)}
  BY DEF SameFates
<1>5. QED
  BY <1>3, <1>4 DEF Table!vars, OfOwner

LEMMA QuietRefines ==
  ASSUME sessions \subseteq Ids, Quietly
  PROVE  UNCHANGED Table!vars
<1>1. Running' = Running
  BY DEF Quietly, SameFates, Running
<1>2. QED
  BY <1>1, NothingShown DEF Quietly

LEMMA EndRefines ==
  ASSUME sessions \subseteq 1 .. opens, opens \in Nat, sessions \subseteq Ids, SessionsKnown,
         NEW i \in Ids, Ends(i)
  PROVE  Table!End(i)
<1>1. sessions' = sessions /\ closed' = closed
  BY DEF Ends, table
<1>2. \A k \in Ids : item'[k].owner = item[k].owner
  BY DEF Ends
<1>3. \A k \in Ids \ {i} : Active(k)' <=> Active(k)
  BY DEF Ends, Active
<1>4. Active(i) /\ ~Active(i)' /\ i \in sessions
  BY DEF Ends
<1>5. Running' = Running \ {i} /\ i \in Running
  BY <1>1, <1>3, <1>4 DEF Running
<1>6. \A o \in Owners : OfOwner(o)' = OfOwner(o) \ {i}
  BY <1>2, <1>5 DEF OfOwner, Running
<1>7. {k \in Ids : ~Active(k)}' = {k \in Ids : ~Active(k)} \cup {i}
  BY <1>3, <1>4
<1>8. i \in Table!All
  BY <1>5, AllAreRunning
<1>9. [o \in Owners |-> OfOwner(o)]' = [o \in Owners |-> [q \in Owners |-> OfOwner(q)][o] \ {i}]
  BY <1>6
<1>10. QED
  BY <1>1, <1>7, <1>8, <1>9 DEF Table!End, OfOwner

LEMMA ShutRefines ==
  ASSUME sessions \subseteq Ids, CloseAll
  PROVE  Table!Shut
<1>1. closed' = TRUE /\ sessions' = sessions /\ item' = item
  BY DEF CloseAll
<1>2. Running' = Running
  BY <1>1 DEF Running, Active
<1>3. QED
  BY <1>1, <1>2 DEF Table!Shut, Active

\* A shell that is started is in no table yet.
LEMMA ForkRefines ==
  ASSUME ManagerInv, SessionsKnown, NEW p \in Callers, OpenForks(p)
  PROVE  UNCHANGED Table!vars
<1>1. /\ item \in [Ids -> Items] /\ opens \in Nat /\ sessions \subseteq 1 .. opens
      /\ sessions \subseteq Ids
  BY TablesKnown DEF ManagerInv, TypeOK, Kinds
<1>2. /\ sessions' = sessions /\ closed' = closed
      /\ item' = [item EXCEPT ![opens + 1] = Started(for[p].owner)]
  BY DEF OpenForks
<1>3. \A k \in Ids \ {opens + 1} : item'[k] = item[k]
  BY <1>1, <1>2
<1>4. opens + 1 \notin sessions
  BY <1>1
<1>5. \A k \in sessions : item'[k] = item[k]
  BY <1>1, <1>3, <1>4
<1>6. Running' = Running
  BY <1>2, <1>5 DEF Running, Active
<1>7. \A k \in Ids : Active(k)' <=> Active(k)
  <2>1. opens + 1 \in Ids => Active(opens + 1) /\ item'[opens + 1] = Started(for[p].owner)
    BY <1>1, <1>2 DEF SessionsKnown
  <2>2. ~Started(for[p].owner).closed /\ ~Started(for[p].owner).exited
    BY DEF Started
  <2>3. QED
    BY <1>3, <2>1, <2>2 DEF Active
<1>8. \A o \in Owners : OfOwner(o)' = OfOwner(o)
  BY <1>5, <1>6 DEF OfOwner, Running
<1>9. [o \in Owners |-> OfOwner(o)]' = [o \in Owners |-> OfOwner(o)]
  BY <1>8
<1>10. {i \in Ids : ~Active(i)}' = {i \in Ids : ~Active(i)}
  BY <1>7
<1>11. QED
  BY <1>2, <1>9, <1>10 DEF Table!vars, OfOwner

\* A session enters the table where what was counted leaves room, although more may have
\* ended since, and not once the manager is shut down.
LEMMA EnterRefines ==
  ASSUME ManagerInv, SessionsKnown, NEW p \in Callers, Enters(p)
  PROVE  Table!Next \/ UNCHANGED Table!vars
<1> USE ProcFacts
<1>0. /\ item \in [Ids -> Items] /\ opens \in Nat /\ sessions \subseteq 1 .. opens
      /\ sessions \subseteq Ids /\ found \in [Procs -> SUBSET Ids]
      /\ at[p] = "insert" /\ Counted(p) /\ ManagerMutex /\ ShutdownIsFinal
      /\ closed \in BOOLEAN
  BY TablesKnown
  DEF ManagerInv, TypeOK, Kinds, CountIsComplete, ShellsAreWatched, Enters, OpenInserts
<1>1. PICK i \in Ids, o \in Owners : i = for[p].id /\ i = opens /\ o = for[p].owner /\ o = item[i].owner
  BY <1>0 DEF Counted, ManagerInv, AimsAreKnown, SessionsKnown
<1>2. sessions' = sessions \cup {i} /\ item' = item /\ closed' = closed
  BY <1>1 DEF Enters, OpenInserts
<1>3. /\ Running \subseteq found[p] /\ Cardinality(found[p]) < MaxSessions
      /\ Cardinality({k \in found[p] : item[k].owner = o}) < MaxOwnerSessions
  BY <1>0, <1>1 DEF Counted
<1>4. SameFates /\ {k \in Ids : ~Active(k)}' = {k \in Ids : ~Active(k)}
  BY <1>2 DEF SameFates, Active
<1>5. CASE i \in sessions \/ ~Active(i)
  <2>1. Running' = Running
    BY <1>2, <1>5 DEF Running, Active
  <2>2. QED
    BY <1>0, <1>2, <1>4, <2>1, NothingShown
<1>6. CASE i \notin sessions /\ Active(i)
  <2>1. Running' = Running \cup {i} /\ i \notin Running
    BY <1>2, <1>6 DEF Running, Active
  <2>2. ~closed
    BY <1>0 DEF ShutdownIsFinal, ManagerMutex
  <2>3. i \notin Table!All \cup {k \in Ids : ~Active(k)}
    BY <1>0, <1>6, <2>1, AllAreRunning
  <2>4. Cardinality(Table!All) < MaxSessions
    <3>1. IsFiniteSet(found[p])
      BY <1>0, FS_Interval, FS_Subset, BoundFacts DEF Ids
    <3>2. Cardinality(Running) <= Cardinality(found[p]) /\ IsFiniteSet(Running)
      BY <1>3, <3>1, FS_Subset
    <3>3. Cardinality(Running) \in Nat /\ Cardinality(found[p]) \in Nat
      BY <3>1, <3>2, FS_CardinalityType
    <3>4. QED
      BY <1>0, <1>3, <3>2, <3>3, AllAreRunning, BoundFacts
  <2>5. Cardinality(OfOwner(o)) < MaxOwnerSessions
    <3> DEFINE Mine == {k \in found[p] : item[k].owner = o}
    <3>1. IsFiniteSet(Mine)
      BY <1>0, FS_Interval, FS_Subset, BoundFacts DEF Ids
    <3>2. OfOwner(o) \subseteq Mine
      BY <1>3 DEF OfOwner
    <3>3. Cardinality(Mine) < MaxOwnerSessions
      BY <1>3
    <3> HIDE DEF Mine
    <3>4. Cardinality(OfOwner(o)) <= Cardinality(Mine) /\ IsFiniteSet(OfOwner(o))
      BY <3>1, <3>2, FS_Subset
    <3>5. Cardinality(OfOwner(o)) \in Nat /\ Cardinality(Mine) \in Nat
      BY <3>1, <3>4, FS_CardinalityType
    <3>6. QED
      BY <3>3, <3>4, <3>5, BoundFacts
  <2>6. \A q \in Owners : OfOwner(q)' = IF q = o THEN OfOwner(q) \cup {i} ELSE OfOwner(q)
    BY <1>1, <1>2, <2>1 DEF OfOwner
  <2>7. [q \in Owners |-> OfOwner(q)]'
          = [[q \in Owners |-> OfOwner(q)] EXCEPT ![o] = [q \in Owners |-> OfOwner(q)][o] \cup {i}]
    BY <2>6
  <2>8. Table!Cardinality(Table!All) < MaxSessions
    BY <2>4, SameCardinality
  <2>9. Table!Cardinality([q \in Owners |-> OfOwner(q)][o]) < MaxOwnerSessions
    BY <2>5, SameCardinality
  <2>10. Table!Open(i, o)
    BY <1>2, <1>4, <2>2, <2>3, <2>7, <2>8, <2>9 DEF Table!Open, OfOwner
  <2>11. QED
    BY <2>10 DEF Table!Next
<1>7. QED
  BY <1>5, <1>6

\* The map of sessions implements the table: a session is opened only where the limits
\* leave room and before the shutdown, and one that has ended never runs again, in every
\* interleaving of open, reap, Close and CloseAll.
THEOREM TableRefinement == Spec => ImplementsTable
<1>1. Init => Table!Init
  <2> SUFFICES ASSUME Init PROVE Table!Init
    OBVIOUS
  <2>1. Running = {} /\ ~closed /\ closed = FALSE /\ \A i \in Ids : Active(i)
    BY DEF Init, Running, Active, NoItem
  <2>2. QED
    BY <2>1 DEF Table!Init
<1>2. ManagerInv /\ SessionsKnown /\ [Next]_vars => [Table!Next]_(Table!vars)
  <2> SUFFICES ASSUME ManagerInv, SessionsKnown, [Next]_vars
               PROVE  Table!Next \/ UNCHANGED Table!vars
    OBVIOUS
  <2>0. opens \in Nat /\ sessions \subseteq 1 .. opens /\ sessions \subseteq Ids
    BY TablesKnown
  <2>1. CASE UNCHANGED vars
    <3>1. Quietly
      BY <2>1 DEF vars, table, Quietly, SameFates, Active
    <3>2. QED
      BY <2>0, <3>1, QuietRefines
  <2>2. CASE Next
    <3>1. CASE Quietly
      BY <2>0, <3>1, QuietRefines
    <3>2. CASE \E i \in Ids : Ends(i)
      BY <2>0, <3>2, EndRefines DEF Table!Next
    <3>3. CASE CloseAll
      BY <2>0, <3>3, ShutRefines DEF Table!Next
    <3>4. CASE \E p \in Callers : OpenForks(p)
      BY <3>4, ForkRefines
    <3>5. CASE \E p \in Callers : Enters(p)
      BY <3>5, EnterRefines
    <3>6. QED
      BY <2>2, <3>1, <3>2, <3>3, <3>4, <3>5, StepShows DEF Shows
  <2>3. QED
    BY <2>1, <2>2
<1>3. QED
  BY <1>1, <1>2, ManagerInvariant, SessionsKnownInvariant, PTL DEF Spec, ImplementsTable, Table!Spec
=============================================================================
