----------------------------- MODULE ContainerExec -----------------------------
(***************************************************************************)
(* internal/docker/exec.go, and its handler: a command is run in a           *)
(* container, its output is collected up to a limit and its exit code asked *)
(* for, at most two at a time in one container.  The command is the Docker  *)
(* daemon's: it goes on when nobody listens to it any more.                  *)
(***************************************************************************)
EXTENDS Naturals, FiniteSets

CONSTANTS
  Requests,   \* the calls of ContainerExec
  Containers,
  MaxExecConcurrency,
  MaxBytes,   \* DefaultExecMaxBytes, for each of the two streams
  MaxPrinted, \* bound: what a command prints to each stream
  None

ASSUME ExecAssumption ==
  {MaxExecConcurrency, MaxBytes, MaxPrinted} \subseteq Nat /\ MaxExecConcurrency > 0

Errors == {"EXEC_CONCURRENT_LIMIT", "DOCKER_ERROR", "CONTAINER_NOT_RUNNING", "EXEC_TIMEOUT"}

ASSUME NoneAssumption == None \notin Errors

Streams == {"stdout", "stderr"}
Empty == [s \in Streams |-> 0]

VARIABLES
  up,      \* the containers that run
  count,   \* execSlotTracker.count
  call,    \* of each request: its container, where it is, whether its ctx is over
  copied,  \* what the copying goroutine has written of each stream, and how it ended
  command, \* at the daemon: whether it runs, what it has printed, whether it was detached
  reply    \* the result or the error of each request

vars == <<up, count, call, copied, command, reply>>

NoCommand == [state |-> "none", printed |-> Empty]
NoCopy == [bytes |-> Empty, truncated |-> FALSE, ended |-> "no"]
NoReply == [error |-> None, bytes |-> Empty, truncated |-> FALSE]

Init ==
  /\ up \in SUBSET Containers
  /\ count = [c \in Containers |-> 0]
  /\ call = [r \in Requests |-> [container |-> None, at |-> "idle"]]
  /\ copied = [r \in Requests |-> NoCopy]
  /\ command = [r \in Requests |-> NoCommand]
  /\ reply = [r \in Requests |-> NoReply]

Goto(r, stage) == call' = [call EXCEPT ![r].at = stage]
Container(r) == call[r].container

\* acquire: answered at once when the container's slots are taken.
Acquire(r, c) ==
  /\ call[r].at = "idle"
  /\ IF count[c] >= MaxExecConcurrency
     THEN /\ call' = [call EXCEPT ![r] = [container |-> c, at |-> "done"]]
          /\ reply' = [reply EXCEPT ![r].error = "EXEC_CONCURRENT_LIMIT"]
          /\ count' = count
     ELSE /\ call' = [call EXCEPT ![r] = [container |-> c, at |-> "inspect"]]
          /\ count' = [count EXCEPT ![c] = @ + 1]
          /\ reply' = reply
  /\ UNCHANGED <<up, copied, command>>

\* Mutant: a slot is given back only with a result.
ReleaseIfResult(r, answer) ==
  count' = IF answer.error = None THEN [count EXCEPT ![Container(r)] = @ - 1] ELSE count

\* The deferred release.
Release(r, answer) == count' = [count EXCEPT ![Container(r)] = @ - 1]

Return(r, answer) ==
  /\ Goto(r, "done")
  /\ reply' = [reply EXCEPT ![r] = answer]
  /\ Release(r, answer)

Error(r, code) == Return(r, [NoReply EXCEPT !.error = code])

-----------------------------------------------------------------------------
\* Client, ContainerInspect, ExecCreate and ExecAttach, which starts the command;
\* each may fail, also because the time is over.
Failing(r) ==
  /\ call[r].at \in {"inspect", "create", "attach"}
  /\ Error(r, "DOCKER_ERROR")
  /\ UNCHANGED <<up, copied, command>>

Inspect(r) ==
  /\ call[r].at = "inspect"
  /\ IF Container(r) \in up THEN Goto(r, "create") /\ UNCHANGED <<count, reply>>
     ELSE Error(r, "CONTAINER_NOT_RUNNING")
  /\ UNCHANGED <<up, copied, command>>

Create(r) ==
  /\ call[r].at = "create" /\ Container(r) \in up
  /\ Goto(r, "attach")
  /\ UNCHANGED <<up, count, copied, command, reply>>

Attach(r) ==
  /\ call[r].at = "attach" /\ Container(r) \in up
  /\ command' = [command EXCEPT ![r].state = "running"]
  /\ Goto(r, "copy")
  /\ UNCHANGED <<up, count, copied, reply>>

-----------------------------------------------------------------------------
\* The command prints, and ends by itself or with its container.
Prints(r, s) ==
  /\ command[r].state = "running" /\ command[r].printed[s] < MaxPrinted
  /\ command' = [command EXCEPT ![r].printed[s] = @ + 1]
  /\ UNCHANGED <<up, count, call, copied, reply>>

Exits(r) ==
  /\ command[r].state = "running"
  /\ command' = [command EXCEPT ![r].state = "ended"]
  /\ UNCHANGED <<up, count, call, copied, reply>>

Stops(c) ==
  /\ c \in up
  /\ up' = up \ {c}
  /\ command' = [r \in Requests |->
       IF Container(r) = c /\ command[r].state = "running"
       THEN [command[r] EXCEPT !.state = "ended"] ELSE command[r]]
  /\ UNCHANGED <<count, call, copied, reply>>

-----------------------------------------------------------------------------
Copying(r) == copied[r].ended = "no" /\ command[r].state # "none"

\* capWriter.Write: what exceeds the room of its stream ends the copy.
Room(r, s) == copied[r].bytes[s] < MaxBytes

Copy(r, s) ==
  /\ Copying(r) /\ call[r].at = "copy" /\ copied[r].bytes[s] < command[r].printed[s]
  /\ copied' = IF Room(r, s) THEN [copied EXCEPT ![r].bytes[s] = @ + 1]
               ELSE [copied EXCEPT ![r].truncated = TRUE, ![r].ended = "limit"]
  /\ UNCHANGED <<up, count, call, command, reply>>

\* Mutant: the copy is over when the command is.
CopyEndsEarly(r) ==
  /\ Copying(r) /\ call[r].at = "copy" /\ command[r].state = "ended"
  /\ copied' = [copied EXCEPT ![r].ended = "eof"]
  /\ UNCHANGED <<up, count, call, command, reply>>

\* The stream has been read to the end of the command.
CopyEnds(r) ==
  /\ Copying(r) /\ call[r].at = "copy"
  /\ command[r].state = "ended" /\ copied[r].bytes = command[r].printed
  /\ copied' = [copied EXCEPT ![r].ended = "eof"]
  /\ UNCHANGED <<up, count, call, command, reply>>

\* StdCopy fails: its error is dropped.
CopyBreaks(r) ==
  /\ Copying(r) /\ call[r].at = "copy"
  /\ copied' = [copied EXCEPT ![r].ended = "broken"]
  /\ UNCHANGED <<up, count, call, command, reply>>

\* copyDone: the exit code is asked for.
CopyDone(r) ==
  /\ call[r].at = "copy" /\ copied[r].ended # "no"
  /\ Goto(r, "finish")
  /\ UNCHANGED <<up, count, copied, command, reply>>

\* execFinish, once the command has ended.
Finish(r) ==
  /\ call[r].at = "finish" /\ command[r].state = "ended"
  /\ Return(r, [error |-> None, bytes |-> copied[r].bytes, truncated |-> copied[r].truncated])
  /\ UNCHANGED <<up, copied, command>>

\* Mutant: the exit code is awaited without the deadline of the call.
TimeoutOfCopy(r) ==
  /\ call[r].at = "copy"
  /\ copied' = [copied EXCEPT ![r].ended = IF @ = "no" THEN "closed" ELSE @]
  /\ Error(r, "EXEC_TIMEOUT")
  /\ UNCHANGED <<up, command>>

\* The time of the call is over, or its client has gone: the connection is closed and
\* the copy ends; of the command nothing is asked.
Timeout(r) ==
  /\ call[r].at \in {"copy", "finish"}
  /\ copied' = [copied EXCEPT ![r].ended = IF @ = "no" THEN "closed" ELSE @]
  /\ Error(r, "EXEC_TIMEOUT")
  /\ UNCHANGED <<up, command>>

-----------------------------------------------------------------------------
Step(r) ==
  \/ Failing(r) \/ Inspect(r) \/ Create(r) \/ Attach(r)
  \/ CopyDone(r) \/ Finish(r) \/ Timeout(r)

Next ==
  \/ \E r \in Requests :
       \/ \E c \in Containers : Acquire(r, c)
       \/ Step(r)
       \/ \E s \in Streams : Prints(r, s) \/ Copy(r, s)
       \/ Exits(r) \/ CopyEnds(r) \/ CopyBreaks(r)
  \/ \E c \in Containers : Stops(c)

Spec == Init /\ [][Next]_vars

\* The goroutine of a request runs, and its context ends at the deadline.
FairSpec == Spec /\ \A r \in Requests : WF_vars(Step(r))

-----------------------------------------------------------------------------
InFlight(c) == {r \in Requests : Container(r) = c /\ call[r].at \notin {"idle", "done"}}

\* A container's slots are the calls in flight for it, whichever way each of them ends
\* (acquire, release), and so never more than there may be.
SlotsAreCalls ==
  \A c \in Containers : count[c] = Cardinality(InFlight(c)) /\ count[c] <= MaxExecConcurrency

Before == {"idle", "inspect", "create", "attach"}

Stages == Before \cup {"copy", "finish", "done"}
Ends == {"no", "limit", "eof", "broken", "closed"}

Calls == [container : Containers \cup {None}, at : Stages]
Copies == [bytes : [Streams -> Nat], truncated : BOOLEAN, ended : Ends]
Commands == [state : {"none", "running", "ended"}, printed : [Streams -> Nat]]
Replies == [error : Errors \cup {None}, bytes : [Streams -> Nat], truncated : BOOLEAN]

\* Every variable is of its kind.
TypeOK ==
  /\ up \subseteq Containers
  /\ count \in [Containers -> Nat]
  /\ call \in [Requests -> Calls]
  /\ copied \in [Requests -> Copies]
  /\ command \in [Requests -> Commands]
  /\ reply \in [Requests -> Replies]

\* What the copy has of a command's output, whatever ended it: it is within the limit,
\* an end of file is the end of the command, and only output over the limit cuts it.
CopyFollowsCommand ==
  \A r \in Requests :
    /\ call[r].at \in Before => copied[r] = NoCopy /\ command[r] = NoCommand
    /\ \A s \in Streams :
         copied[r].bytes[s] <= MaxBytes /\ copied[r].bytes[s] <= command[r].printed[s]
    /\ copied[r].ended = "eof" =>
         command[r].state = "ended" /\ copied[r].bytes = command[r].printed
    /\ copied[r].truncated <=> copied[r].ended = "limit"
    /\ copied[r].truncated => \E s \in Streams : command[r].printed[s] > MaxBytes

\* Where a call stands determines how its copy may have ended, and what it answered.
AnswerFollowsCopy ==
  \A r \in Requests :
    /\ call[r].at # "idle" => call[r].container \in Containers
    /\ call[r].at = "copy" => copied[r].ended # "closed"
    /\ call[r].at = "finish" => copied[r].ended \in {"limit", "eof", "broken"}
    /\ call[r].at = "done" /\ reply[r].error = None =>
         /\ command[r].state = "ended"
         /\ copied[r].ended \in {"limit", "eof", "broken"}
         /\ reply[r].bytes = copied[r].bytes /\ reply[r].truncated = copied[r].truncated

\* The inductive invariant behind SlotsAreCalls and ResultIsWhole.
ExecInv ==
  /\ TypeOK /\ CopyFollowsCommand /\ AnswerFollowsCopy
  /\ \A c \in Containers : IsFiniteSet(InFlight(c))
  /\ SlotsAreCalls

\* A result comes when the command has ended, and shows all that it printed, within
\* the limit of each stream; when it does not it says so, except that a broken
\* connection is not told (capWriter, ContainerExec, execFinish).
ResultIsWhole ==
  \A r \in Requests : call[r].at = "done" /\ reply[r].error = None =>
    /\ command[r].state = "ended"
    /\ \A s \in Streams : reply[r].bytes[s] <= MaxBytes
    /\ reply[r].truncated \/ reply[r].bytes = command[r].printed \/ copied[r].ended = "broken"
    /\ reply[r].truncated => \E s \in Streams : command[r].printed[s] > MaxBytes

\* Every call is answered, also of a command that never ends (the deadline of ctx).
CallsAreAnswered ==
  \A r \in Requests : call[r].at # "idle" ~> call[r].at = "done"

\* What a caller sees of a call.
Phase(r) ==
  IF call[r].at = "idle" THEN "new"
  ELSE IF call[r].at # "done" THEN "served"
  ELSE IF reply[r].error = "EXEC_CONCURRENT_LIMIT" THEN "refused" ELSE "answered"

Slots ==
  INSTANCE ExecSlots WITH
    target <- [r \in Requests |-> Container(r)],
    phase <- [r \in Requests |-> Phase(r)]

\* The counter, raised before the first call of the daemon and lowered by the deferred
\* release, implements ExecSlots: no call is turned away while a slot is free, also when
\* other calls have failed, run out of time or lost their container.
ImplementsSlots == Slots!Spec

-----------------------------------------------------------------------------
\* exec.go:23: at most MaxExecConcurrency commands run in a container at a time.
CommandsAreBounded ==
  \A c \in Containers :
    Cardinality({r \in Requests : Container(r) = c /\ command[r].state = "running"})
      <= MaxExecConcurrency

\* exec.go:77: stdout and stderr share one limit.
OutputWithinTotal ==
  \A r \in Requests : reply[r].bytes["stdout"] + reply[r].bytes["stderr"] <= MaxBytes
=============================================================================
