---------------------------- MODULE TerminalManager ----------------------------
(***************************************************************************)
(* internal/terminal/manager.go: the sessions of the manager, who opens,     *)
(* uses and closes them, the reaper, and CloseAll at the end of the agent.   *)
(* TerminalSession is the inside of one session; here a session is its       *)
(* shell, its flags and its age.  Every step is one critical section: the    *)
(* manager's mutex is held while each session's is taken in turn and while a *)
(* shell is started; Input keeps a session's over its write.                 *)
(***************************************************************************)
EXTENDS Naturals, FiniteSets

CONSTANTS
  Callers,          \* the requests
  Owners,           \* who they are made for
  MaxSessions,      \* Config.MaxSessions
  MaxOwnerSessions, \* Config.MaxOwnerSessions
  MaxOpens,         \* bound: sessions that are ever opened
  MaxUses,          \* bound: inputs and polls
  Free, None

ASSUME ManagerAssumption == {MaxSessions, MaxOwnerSessions, MaxOpens, MaxUses} \subseteq Nat

ASSUME ProcsAssumption ==
  Callers \cap {"reapLoop", "CloseAll"} = {} /\ Free \notin Callers \cup {"reapLoop", "CloseAll"}

Reaper == "reapLoop"
Shutdown == "CloseAll"
Procs == Callers \cup {Reaper, Shutdown}
Ids == 1 .. MaxOpens

VARIABLES
  mu,       \* who holds Manager.mu
  closed,   \* Manager.closed
  sessions, \* the keys of Manager.sessions
  item,     \* of each id: owner, shell, closed, exited, and age: 0, 1 (no activity for
            \* IdleTimeout, once it has ended for 5 minutes), 2 (its Lifetime is over)
  hold,     \* who holds a session's mutex over a call
  at,       \* where each process is
  for,      \* the owner a caller acts for, and the session it acts on
  left,     \* the sessions a process has still to look at or to close
  found,    \* those it has found active (Open) or stale (reap)
  opens,    \* how many sessions have been opened
  uses      \* how many uses there have been

table == <<mu, closed, sessions, opens>>
vars == <<table, item, hold, at, for, left, found, uses>>

NoItem == [owner |-> None, shell |-> "none", closed |-> FALSE, exited |-> FALSE,
           age |-> 0]

Started(o) == [owner |-> o, shell |-> "alive", closed |-> FALSE, exited |-> FALSE, age |-> 0]

Nobody == [owner |-> None, id |-> None]

Init ==
  /\ mu = Free /\ closed = FALSE /\ sessions = {} /\ opens = 0
  /\ item = [i \in Ids |-> NoItem]
  /\ hold = [i \in Ids |-> Free]
  /\ at = [p \in Procs |-> "idle"]
  /\ for = [p \in Procs |-> Nobody]
  /\ left = [p \in Procs |-> {}]
  /\ found = [p \in Procs |-> {}]
  /\ uses = 0

Goto(p, stage) == at' = [at EXCEPT ![p] = stage]

\* The call returns.
Return(p, stage) ==
  /\ Goto(p, stage)
  /\ for' = [for EXCEPT ![p] = Nobody]
  /\ left' = [left EXCEPT ![p] = {}]
  /\ found' = [found EXCEPT ![p] = {}]

\* updatedAt is now; how old the session is matters only until it has ended.
Active(i) == ~item[i].closed /\ ~item[i].exited
Fresh(i) == IF Active(i) /\ item[i].age = 2 THEN 2 ELSE 0
Set(i, field, value) == item' = [item EXCEPT ![i][field] = value]
Unlock(p) == mu' = IF mu = p THEN Free ELSE mu

-----------------------------------------------------------------------------
\* open.

OpenStarts(c) ==
  /\ at[c] = "idle"
  /\ \E o \in Owners : for' = [for EXCEPT ![c] = [owner |-> o, id |-> None]]
  /\ Goto(c, "open")
  /\ UNCHANGED <<table, item, hold, left, found, uses>>

OpenLocks(c) ==
  /\ at[c] = "open" /\ mu = Free
  /\ IF closed THEN Return(c, "idle") /\ mu' = mu
     ELSE /\ mu' = c
          /\ left' = [left EXCEPT ![c] = sessions]
          /\ Goto(c, "count")
          /\ UNCHANGED <<for, found>>
  /\ UNCHANGED <<closed, sessions, opens, item, hold, uses>>

\* isActive of one session, in any order, with the manager's mutex held.
OpenCounts(c) ==
  /\ at[c] = "count"
  /\ \E i \in left[c] :
       /\ hold[i] = Free
       /\ left' = [left EXCEPT ![c] = @ \ {i}]
       /\ found' = IF Active(i) THEN [found EXCEPT ![c] = @ \cup {i}] ELSE found
  /\ UNCHANGED <<table, item, hold, at, for, uses>>

Full(c) ==
  \/ Cardinality(found[c]) >= MaxSessions
  \/ Cardinality({i \in found[c] : item[i].owner = for[c].owner}) >= MaxOwnerSessions

\* Mutant: the early return keeps the mutex.
OpenRefusesLocked(c) ==
  /\ at[c] = "count" /\ left[c] = {}
  /\ Return(c, "idle")
  /\ UNCHANGED <<table, item, hold, uses>>

\* The limits; then the shell, which may not start.
OpenRefuses(c) ==
  /\ at[c] = "count" /\ left[c] = {}
  /\ mu' = Free
  /\ Return(c, "idle")
  /\ UNCHANGED <<closed, sessions, opens, item, hold, uses>>

\* Mutant: the manager's mutex is not held while the shell is started.
OpenForksUnlocked(c) ==
  /\ at[c] = "count" /\ left[c] = {} /\ ~Full(c) /\ opens < MaxOpens
  /\ mu' = Free
  /\ opens' = opens + 1
  /\ item' = [item EXCEPT ![opens + 1] = Started(for[c].owner)]
  /\ for' = [for EXCEPT ![c].id = opens + 1]
  /\ Goto(c, "insert")
  /\ UNCHANGED <<closed, sessions, hold, left, found, uses>>

OpenForks(c) ==
  /\ at[c] = "count" /\ left[c] = {} /\ ~Full(c) /\ opens < MaxOpens
  /\ opens' = opens + 1
  /\ item' = [item EXCEPT ![opens + 1] = Started(for[c].owner)]
  /\ for' = [for EXCEPT ![c].id = opens + 1]
  /\ Goto(c, "insert")
  /\ UNCHANGED <<mu, closed, sessions, hold, left, found, uses>>

\* The session gets its id and its place; without an id the shell is killed.
OpenInserts(c) ==
  /\ at[c] = "insert"
  /\ Unlock(c)
  /\ \/ sessions' = sessions \cup {for[c].id} /\ item' = item
     \/ sessions' = sessions /\ Set(for[c].id, "shell", "dead")
  /\ Return(c, "idle")
  /\ UNCHANGED <<closed, opens, hold, uses>>

-----------------------------------------------------------------------------
\* Output, Resize and Input of one session: lookup, then the session's mutex.
Ask(c, what) ==
  /\ at[c] = "idle" /\ mu = Free
  /\ uses < MaxUses /\ uses' = uses + 1
  /\ \E i \in sessions : for' = [for EXCEPT ![c] = [owner |-> item[i].owner, id |-> i]]
  /\ Goto(c, what)
  /\ UNCHANGED <<table, item, hold, left, found>>

\* Output is activity, also of a session that has ended; Resize only of one that runs.
Touch(c) ==
  LET i == for[c].id IN
  /\ at[c] = "touch" /\ hold[i] = Free
  /\ \/ item' = [item EXCEPT ![i].age = Fresh(i)]
     \/ ~Active(i) /\ item' = item
  /\ Return(c, "idle")
  /\ UNCHANGED <<table, hold, uses>>

InputLocks(c) ==
  LET i == for[c].id IN
  /\ at[c] = "input" /\ hold[i] = Free
  /\ IF Active(i) THEN hold' = [hold EXCEPT ![i] = c] /\ Goto(c, "write") /\ for' = for
     ELSE hold' = hold /\ Goto(c, "idle") /\ for' = [for EXCEPT ![c] = Nobody]
  /\ UNCHANGED <<table, item, left, found, uses>>

\* process.Write returns once somebody reads what is in the pty.
InputReturns(c) ==
  LET i == for[c].id IN
  /\ at[c] = "write"
  /\ hold' = [hold EXCEPT ![i] = Free]
  /\ item' = [item EXCEPT ![i].age = Fresh(i)]
  /\ Return(c, "idle")
  /\ UNCHANGED <<table, uses>>

-----------------------------------------------------------------------------
\* Close, of one session (a request), of the stale ones (reap) or of all (CloseAll).
CloseStarts(c) == Ask(c, "mark")

\* The next on the list, if there is one.
Resume(p) ==
  IF left[p] # {} THEN Goto(p, "close") /\ UNCHANGED <<for, left, found>>
  ELSE Return(p, IF p = Shutdown THEN "done" ELSE "idle")

CloseLooks(p) ==
  /\ at[p] = "close" /\ mu = Free
  /\ \E i \in left[p] :
       /\ left' = [left EXCEPT ![p] = @ \ {i}]
       /\ for' = [for EXCEPT ![p] = [owner |-> item[i].owner, id |-> i]]
       /\ Goto(p, IF i \in sessions THEN "mark" ELSE "skip")
  /\ UNCHANGED <<table, item, hold, found, uses>>

CloseSkips(p) ==
  /\ at[p] = "skip"
  /\ Resume(p)
  /\ UNCHANGED <<table, item, hold, uses>>

CloseMarks(p) ==
  LET i == for[p].id IN
  /\ at[p] = "mark" /\ hold[i] = Free
  /\ IF item[i].closed THEN item' = item /\ Resume(p)
     ELSE /\ item' = [item EXCEPT ![i].closed = TRUE, ![i].age = 0]
          /\ Goto(p, "kill")
          /\ UNCHANGED <<for, left, found>>
  /\ UNCHANGED <<table, hold, uses>>

\* Mutant: closing the file is thought to be enough.
CloseForgetsKill(p) ==
  /\ at[p] = "kill"
  /\ Resume(p)
  /\ UNCHANGED <<table, item, hold, uses>>

CloseKills(p) ==
  /\ at[p] = "kill"
  /\ Set(for[p].id, "shell", "dead")
  /\ Resume(p)
  /\ UNCHANGED <<table, hold, uses>>

\* CloseAll: no session is opened any more, and the reaper is told to stop.
CloseAll ==
  /\ at[Shutdown] = "idle" /\ mu = Free
  /\ closed' = TRUE
  /\ left' = [left EXCEPT ![Shutdown] = sessions]
  /\ Goto(Shutdown, IF sessions = {} THEN "done" ELSE "close")
  /\ UNCHANGED <<mu, sessions, opens, item, hold, for, found, uses>>

-----------------------------------------------------------------------------
\* reap, once a minute until the manager stops: of a tick and the stop the select of
\* reapLoop takes either, and a tick it has taken may still wait for the mutex.
ReapStarts ==
  /\ at[Reaper] = "idle" /\ mu = Free
  /\ mu' = Reaper
  /\ left' = [left EXCEPT ![Reaper] = sessions]
  /\ Goto(Reaper, "look")
  /\ UNCHANGED <<closed, sessions, opens, item, hold, for, found, uses>>

ReapStops ==
  /\ at[Reaper] = "idle" /\ closed
  /\ Goto(Reaper, "done")
  /\ UNCHANGED <<table, item, hold, for, left, found, uses>>

Finished(i) == item[i].closed \/ item[i].exited
Inactive(i) == item[i].age >= 1

ReapLooks ==
  /\ at[Reaper] = "look"
  /\ \E i \in left[Reaper] :
       /\ hold[i] = Free
       /\ left' = [left EXCEPT ![Reaper] = @ \ {i}]
       /\ sessions' = IF Finished(i) /\ item[i].age >= 1 THEN sessions \ {i} ELSE sessions
       /\ found' = IF Inactive(i) /\ ~Finished(i) THEN [found EXCEPT ![Reaper] = @ \cup {i}]
                   ELSE found
  /\ UNCHANGED <<mu, closed, opens, item, hold, at, for, uses>>

\* The mutex is given back, and what was found is closed like by anybody else.
ReapUnlocks ==
  /\ at[Reaper] = "look" /\ left[Reaper] = {}
  /\ Unlock(Reaper)
  /\ left' = [left EXCEPT ![Reaper] = found[Reaper]]
  /\ found' = [found EXCEPT ![Reaper] = {}]
  /\ Goto(Reaper, IF found[Reaper] = {} THEN "idle" ELSE "close")
  /\ UNCHANGED <<closed, sessions, opens, item, hold, for, uses>>

-----------------------------------------------------------------------------
\* The shell prints (append), ends, and capture notices that nobody holds the slave
\* any more, or fails to read although the shell runs (setExit).
Prints(i) ==
  /\ item[i].shell = "alive" /\ i \in sessions /\ hold[i] = Free /\ item[i].age = 1
  /\ Set(i, "age", 0)
  /\ UNCHANGED <<table, hold, at, for, left, found, uses>>

ShellEnds(i) ==
  /\ item[i].shell = "alive"
  /\ Set(i, "shell", "dead")
  /\ UNCHANGED <<table, hold, at, for, left, found, uses>>

SetExit(i) ==
  /\ i \in sessions /\ ~item[i].exited /\ hold[i] = Free
  /\ item' = [item EXCEPT ![i].exited = TRUE, ![i].age = 0]
  /\ UNCHANGED <<table, hold, at, for, left, found, uses>>

\* Time, as much as a session's own clocks tell of it.
Quiet(i) ==
  /\ i \in sessions /\ item[i].age = 0
  /\ Set(i, "age", 1)
  /\ UNCHANGED <<table, hold, at, for, left, found, uses>>

Expires(i) ==
  /\ i \in sessions /\ Active(i) /\ item[i].age < 2
  /\ Set(i, "age", 2)
  /\ UNCHANGED <<table, hold, at, for, left, found, uses>>

-----------------------------------------------------------------------------
OpenStep(c) == OpenLocks(c) \/ OpenCounts(c) \/ OpenRefuses(c) \/ OpenForks(c) \/ OpenInserts(c)
CloseStep(p) == CloseLooks(p) \/ CloseSkips(p) \/ CloseMarks(p) \/ CloseKills(p)
UseStep(c) == Touch(c) \/ InputLocks(c)
Reap == ReapStarts \/ ReapStops \/ ReapLooks \/ ReapUnlocks
Live(i) == Prints(i) \/ ShellEnds(i) \/ SetExit(i) \/ Quiet(i) \/ Expires(i)

Next ==
  \/ \E c \in Callers :
       \/ OpenStarts(c) \/ OpenStep(c)
       \/ \E what \in {"touch", "input"} : Ask(c, what)
       \/ UseStep(c) \/ InputReturns(c) \/ CloseStarts(c)
  \/ \E p \in Procs : CloseStep(p)
  \/ CloseAll \/ Reap
  \/ \E i \in Ids : Live(i)

Spec == Init /\ [][Next]_vars

\* sync.Mutex hands itself to whoever waits, the scheduler runs every goroutine that
\* can run, the ticker ticks and sessions age.  That a write of Input returns is not
\* the agent's doing: it is assumed here, and TerminalSession shows what if not.
Fairness ==
  /\ \A c \in Callers : WF_vars(OpenStep(c)) /\ SF_vars(OpenLocks(c)) /\ SF_vars(OpenCounts(c))
                        /\ SF_vars(UseStep(c)) /\ WF_vars(InputReturns(c))
  /\ \A p \in Procs : WF_vars(CloseStep(p)) /\ SF_vars(CloseLooks(p)) /\ SF_vars(CloseMarks(p))
  /\ SF_vars(ReapStarts) /\ SF_vars(ReapLooks) /\ WF_vars(ReapUnlocks)
  /\ \A i \in Ids : WF_vars(Expires(i))

FairSpec == Spec /\ Fairness

-----------------------------------------------------------------------------
\* Only callers ask, only the reaper looks, and only the two others are ever done.
Closing == {"idle", "close", "skip", "mark", "kill"}
Asking == {"open", "count", "insert", "touch", "input", "write"}
AllStages == Closing \cup Asking \cup {"look", "done"}

StagesAreOwn ==
  \A p \in Procs :
    /\ at[p] \in Asking => p \in Callers
    /\ at[p] = "look" => p = Reaper
    /\ at[p] = "done" => p \notin Callers

Items == [owner : Owners \cup {None}, shell : {"none", "alive", "dead"},
          closed : BOOLEAN, exited : BOOLEAN, age : 0 .. 2]
Aims == [owner : Owners \cup {None}, id : Ids \cup {None}]

\* A mutex is held by the call that is between taking it and giving it back.
ManagerMutex == \A p \in Procs : mu = p <=> at[p] \in {"count", "insert", "look"}

SessionMutexes ==
  \A c \in Callers, i \in Ids : hold[i] = c <=> at[c] = "write" /\ for[c].id = i

Kinds ==
  /\ mu \in Procs \cup {Free} /\ closed \in BOOLEAN
  /\ opens \in 0 .. MaxOpens /\ sessions \subseteq 1 .. opens /\ uses \in 0 .. MaxUses
  /\ item \in [Ids -> Items]
  /\ hold \in [Ids -> Callers \cup {Free}]
  /\ at \in [Procs -> AllStages]
  /\ for \in [Procs -> Aims]
  /\ left \in [Procs -> SUBSET Ids] /\ found \in [Procs -> SUBSET Ids]

\* Every variable is of its kind, and so is whoever holds a mutex.
TypeOK == Kinds /\ StagesAreOwn /\ ManagerMutex /\ SessionMutexes

Running == {i \in sessions : Active(i)}

\* Although the sessions are counted one by one while others end, and several
\* requests open at once, there are never more active sessions than the manager and
\* the owner may have (open).
SessionLimitsKept ==
  /\ Cardinality(Running) <= MaxSessions
  /\ \A o \in Owners : Cardinality({i \in Running : item[i].owner = o}) <= MaxOwnerSessions

\* A shell that runs can be reached: its session is in the table, or is being put
\* there by who holds the manager's mutex, or somebody is about to kill it; unless it
\* was reported ended because reading from it failed.  Once CloseAll has returned
\* the table is no place for one any more (open, reap, CloseAll).
NoShellIsLost ==
  \A i \in Ids : item[i].shell = "alive" =>
    \/ i \in sessions /\ at[Shutdown] # "done"
    \/ \E p \in Procs : for[p].id = i /\ (at[p] = "kill" \/ (at[p] = "insert" /\ mu = p))
    \/ item[i].exited

\* Who acts on one session knows which one it is.
AimsAreKnown ==
  \A p \in Procs :
    at[p] \in {"insert", "touch", "input", "write", "mark", "kill"} => for[p].id \in Ids

\* Open has counted, or has still to look at, every session that is active: they end
\* while it counts, but none is added.  Once a shell is started there is room for it.
Counted(c) ==
  /\ at[c] \notin {"count", "insert"} => found[c] = {}
  /\ at[c] = "count" => left[c] \cup found[c] \subseteq sessions /\ Running \subseteq left[c] \cup found[c]
  /\ at[c] = "insert" =>
       /\ for[c].id = opens /\ item[opens].owner = for[c].owner
       /\ found[c] \subseteq 1 .. (opens - 1) /\ Running \subseteq found[c]
       /\ Cardinality(found[c]) < MaxSessions
       /\ Cardinality({i \in found[c] : item[i].owner = for[c].owner}) < MaxOwnerSessions

CountIsComplete == \A c \in Callers : Counted(c)

\* CloseAll and the requests exclude each other: once it has begun nobody opens.
ShutdownIsFinal ==
  /\ closed <=> at[Shutdown] # "idle"
  /\ closed => mu \notin Callers

\* A session that is marked closed has its shell killed by who marked it.
ClosedAreKilled ==
  \A i \in Ids : item[i].shell = "alive" /\ item[i].closed =>
    \E p \in Procs : at[p] = "kill" /\ for[p].id = i

\* A shell that runs in no session of the table is about to be entered or killed.
OthersAreEntered ==
  \A i \in Ids : item[i].shell = "alive" =>
    \/ i \in sessions \/ item[i].closed \/ item[i].exited
    \/ \E p \in Callers : at[p] = "insert" /\ for[p].id = i

\* CloseAll has every active session still on its list, or in its hands.
ShutdownIsComplete ==
  closed => \A i \in sessions : Active(i) =>
    \/ i \in left[Shutdown] /\ at[Shutdown] # "done"
    \/ at[Shutdown] = "mark" /\ for[Shutdown].id = i

ShellsAreWatched ==
  ShutdownIsFinal /\ ClosedAreKilled /\ OthersAreEntered /\ ShutdownIsComplete

\* The inductive invariant behind the two properties above.
ManagerInv ==
  TypeOK /\ AimsAreKnown /\ CountIsComplete /\ ShellsAreWatched /\ SessionLimitsKept

\* Who opens has an owner, and so has every session; one that was never opened has not
\* ended; and one that is about to be marked closed is in the table or has ended.
SessionsKnown ==
  /\ \A p \in Procs : at[p] \in {"open", "count", "insert"} => for[p].owner \in Owners
  /\ \A i \in Ids : IF i <= opens THEN item[i].owner \in Owners ELSE Active(i)
  /\ \A p \in Procs : at[p] = "mark" => for[p].id \in sessions \/ ~Active(for[p].id)

Table ==
  INSTANCE SessionTable WITH
    running <- [o \in Owners |-> {i \in Running : item[i].owner = o}],
    ended <- {i \in Ids : ~Active(i)},
    shut <- closed

\* The map of sessions, with its mutex and theirs, implements SessionTable: each step of
\* open, reap, Close and CloseAll opens one session within the limits, ends one, shuts the
\* manager down or shows nothing.
ImplementsTable == Table!Spec

\* No session outlives its lifetime for ever, nor the agent: whatever the clients do,
\* its shell ends, unless reading from it has failed (reap, Close, CloseAll).
ShellsEnd ==
  \A i \in Ids : item[i].shell = "alive" ~> item[i].shell = "dead" \/ item[i].exited
=============================================================================
