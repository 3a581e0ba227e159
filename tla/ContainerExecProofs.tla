------------------------- MODULE ContainerExecProofs -------------------------
(***************************************************************************)
(* For every set of requests, finite or not, every set of containers and    *)
(* every limit: the slots of a container are the calls in flight for it,    *)
(* and a result that does not say otherwise shows all that was printed;     *)
(* counting the calls implements ExecSlots.                                 *)
(***************************************************************************)
EXTENDS ContainerExec, FiniteSetTheorems, TLAPS

Flying == {"inspect", "create", "attach", "copy", "finish"}

SlotPart == (\A c \in Containers : IsFiniteSet(InFlight(c))) /\ SlotsAreCalls

\* The part of the invariant that is about what calls copy and answer.
CopyPart == TypeOK /\ CopyFollowsCommand /\ AnswerFollowsCopy

LEMMA InvParts == ExecInv <=> CopyPart /\ SlotPart
BY DEF ExecInv, CopyPart, SlotPart

\* Nothing has been asked for yet.
LEMMA InitInv == Init => ExecInv
<1> SUFFICES ASSUME Init PROVE ExecInv
  OBVIOUS
<1>1. Empty \in [Streams -> Nat] /\ \A s \in Streams : Empty[s] = 0
  BY DEF Empty
<1>2. TypeOK
  BY <1>1 DEF Init, TypeOK, NoCopy, NoCommand, NoReply, Before, Calls, Copies, Commands, Replies, Stages, Ends
<1>3. CopyFollowsCommand /\ AnswerFollowsCopy
  BY <1>1, ExecAssumption
  DEF Init, CopyFollowsCommand, AnswerFollowsCopy, NoCopy, NoCommand, NoReply, Before
<1>4. ASSUME NEW c \in Containers
      PROVE  InFlight(c) = {} /\ count[c] = 0
  BY DEF Init, InFlight, Container
<1>5. SlotPart
  BY <1>4, FS_EmptySet, ExecAssumption DEF SlotPart, SlotsAreCalls
<1>6. QED
  BY <1>2, <1>3, <1>5 DEF ExecInv, SlotPart

-----------------------------------------------------------------------------
\* Acquire, admitted: one more call is in flight for its container, and for no other.
LEMMA Enters ==
  ASSUME TypeOK, SlotPart, NEW r \in Requests, NEW c \in Containers,
         call[r].at = "idle", count[c] < MaxExecConcurrency,
         call' = [call EXCEPT ![r] = [container |-> c, at |-> "inspect"]],
         count' = [count EXCEPT ![c] = @ + 1]
  PROVE  SlotPart'
<1> SUFFICES ASSUME NEW d \in Containers
             PROVE  /\ IsFiniteSet(InFlight(d)')
                    /\ count'[d] = Cardinality(InFlight(d)') /\ count'[d] <= MaxExecConcurrency
  BY DEF SlotPart, SlotsAreCalls
<1>1. /\ IsFiniteSet(InFlight(d)) /\ count[d] \in Nat
      /\ count[d] = Cardinality(InFlight(d)) /\ count[d] <= MaxExecConcurrency
  BY DEF SlotPart, SlotsAreCalls, TypeOK
<1>2. CASE d = c
  <2>1. InFlight(d)' = InFlight(d) \cup {r} /\ r \notin InFlight(d)
    BY <1>2 DEF TypeOK, Calls, InFlight, Container
  <2>2. count'[d] = count[d] + 1 /\ count[d] < MaxExecConcurrency
    BY <1>2 DEF TypeOK
  <2>3. QED
    BY <1>1, <2>1, <2>2, FS_AddElement, ExecAssumption
<1>3. CASE d # c
  <2>1. InFlight(d)' = InFlight(d)
    BY <1>3 DEF TypeOK, Calls, InFlight, Container
  <2>2. count'[d] = count[d]
    BY <1>3 DEF TypeOK
  <2>3. QED
    BY <1>1, <2>1, <2>2
<1>4. QED
  BY <1>2, <1>3

\* The deferred release: one call less is in flight for its container.
LEMMA Leaves ==
  ASSUME TypeOK, SlotPart, NEW r \in Requests,
         call[r].at \in Flying, call[r].container \in Containers,
         call' = [call EXCEPT ![r].at = "done"],
         count' = [count EXCEPT ![Container(r)] = @ - 1]
  PROVE  SlotPart' /\ count[Container(r)] > 0
<1> DEFINE c == call[r].container
<1>0. count' = [count EXCEPT ![c] = @ - 1] /\ c \in Containers
  BY DEF Container
<1>1. ASSUME NEW d \in Containers
      PROVE  /\ IsFiniteSet(InFlight(d)) /\ count[d] \in Nat
             /\ count[d] = Cardinality(InFlight(d)) /\ count[d] <= MaxExecConcurrency
  BY DEF SlotPart, SlotsAreCalls, TypeOK
<1>2. r \in InFlight(c) /\ InFlight(c)' = InFlight(c) \ {r}
  BY DEF TypeOK, Calls, InFlight, Container, Flying
<1>3. Cardinality(InFlight(c)) > 0
  BY <1>0, <1>1, <1>2, FS_EmptySet
<1>4. ASSUME NEW d \in Containers
      PROVE  /\ IsFiniteSet(InFlight(d)')
             /\ count'[d] = Cardinality(InFlight(d)') /\ count'[d] <= MaxExecConcurrency
  <2>1. CASE d = c
    <3>1. count'[d] = count[d] - 1
      BY <1>0, <2>1 DEF TypeOK
    <3>2. r \in InFlight(d) /\ InFlight(d)' = InFlight(d) \ {r}
      BY <2>1 DEF TypeOK, Calls, InFlight, Container, Flying
    <3>3. IsFiniteSet(InFlight(d)') /\ Cardinality(InFlight(d)') = Cardinality(InFlight(d)) - 1
      BY <1>1, <3>2, FS_RemoveElement
    <3>4. QED
      BY <1>1, <3>1, <3>3, ExecAssumption
  <2>2. CASE d # c
    <3>1. InFlight(d)' = InFlight(d)
      BY <2>2 DEF TypeOK, Calls, InFlight, Container
    <3>2. count'[d] = count[d]
      BY <1>0, <2>2 DEF TypeOK
    <3>3. QED
      BY <1>1, <3>1, <3>2
  <2>3. QED
    BY <2>1, <2>2
<1>5. QED
  BY <1>0, <1>1, <1>3, <1>4 DEF SlotPart, SlotsAreCalls, Container

\* A step inside a call, or of no call, keeps the calls in flight.
LEMMA Stays ==
  ASSUME TypeOK, SlotPart, count' = count,
         \/ call' = call
         \/ \E r \in Requests, stage \in Flying :
              call[r].at \in Flying /\ call' = [call EXCEPT ![r].at = stage]
         \/ \E r \in Requests, c \in Containers :
              /\ call[r].at = "idle"
              /\ call' = [call EXCEPT ![r] = [container |-> c, at |-> "done"]]
  PROVE  SlotPart'
<1>1. ASSUME NEW d \in Containers PROVE InFlight(d)' = InFlight(d)
  <2>1. CASE call' = call
    BY <2>1 DEF InFlight, Container
  <2>2. ASSUME NEW r \in Requests, NEW stage \in Flying, call[r].at \in Flying,
               call' = [call EXCEPT ![r].at = stage]
        PROVE  InFlight(d)' = InFlight(d)
    <3>1. ASSUME NEW q \in Requests
          PROVE  /\ call'[q].container = call[q].container
                 /\ call'[q].at \in {"idle", "done"} <=> call[q].at \in {"idle", "done"}
      BY <2>2 DEF TypeOK, Calls, Flying
    <3>2. QED
      BY <3>1 DEF InFlight, Container
  <2>3. ASSUME NEW r \in Requests, NEW c \in Containers, call[r].at = "idle",
               call' = [call EXCEPT ![r] = [container |-> c, at |-> "done"]]
        PROVE  InFlight(d)' = InFlight(d)
    BY <2>3 DEF TypeOK, Calls, InFlight, Container
  <2>4. QED
    BY <2>1, <2>2, <2>3
<1>2. QED
  BY <1>1 DEF SlotPart, SlotsAreCalls
-----------------------------------------------------------------------------
\* The updates of the records that the steps make stay within their kinds.
LEMMA Records ==
  /\ \A x \in Calls, a \in Stages : [x EXCEPT !.at = a] \in Calls
  /\ \A x \in Copies, e \in Ends : [x EXCEPT !.ended = e] \in Copies
  /\ \A x \in Copies : [x EXCEPT !.truncated = TRUE, !.ended = "limit"] \in Copies
  /\ \A x \in Copies, s \in Streams : [x EXCEPT !.bytes[s] = @ + 1] \in Copies
  /\ \A x \in Commands, a \in {"none", "running", "ended"} : [x EXCEPT !.state = a] \in Commands
  /\ \A x \in Commands, s \in Streams : [x EXCEPT !.printed[s] = @ + 1] \in Commands
  /\ \A e \in Errors : [NoReply EXCEPT !.error = e] \in Replies
  /\ \A x \in Replies, e \in Errors : [x EXCEPT !.error = e] \in Replies
  /\ \A x \in Copies : [error |-> None, bytes |-> x.bytes, truncated |-> x.truncated] \in Replies
<1>1. \A x \in Calls, a \in Stages : [x EXCEPT !.at = a] \in Calls
  BY DEF Calls
<1>2. \A x \in Copies, e \in Ends : [x EXCEPT !.ended = e] \in Copies
  BY DEF Copies
<1>3. \A x \in Copies : [x EXCEPT !.truncated = TRUE, !.ended = "limit"] \in Copies
  BY DEF Copies, Ends
<1>4. \A x \in Copies, s \in Streams : [x EXCEPT !.bytes[s] = @ + 1] \in Copies
  BY DEF Copies
<1>5. \A x \in Commands, a \in {"none", "running", "ended"} : [x EXCEPT !.state = a] \in Commands
  BY DEF Commands
<1>6. \A x \in Commands, s \in Streams : [x EXCEPT !.printed[s] = @ + 1] \in Commands
  BY DEF Commands
<1>7. \A e \in Errors : [NoReply EXCEPT !.error = e] \in Replies
  BY DEF Replies, NoReply, Empty
<1>8. \A x \in Replies, e \in Errors : [x EXCEPT !.error = e] \in Replies
  BY DEF Replies
<1>9. \A x \in Copies : [error |-> None, bytes |-> x.bytes, truncated |-> x.truncated] \in Replies
  BY DEF Copies, Replies
<1>10. QED
  BY <1>1, <1>2, <1>3, <1>4, <1>5, <1>6, <1>7, <1>8, <1>9

\* CopyPart speaks of one request at a time.
CopyOf(r) == CopyFollowsCommand!(r) /\ AnswerFollowsCopy!(r)

LEMMA OneByOne ==
  CopyPart <=> TypeOK /\ \A r \in Requests : CopyOf(r)
BY DEF CopyPart, CopyOf, CopyFollowsCommand, AnswerFollowsCopy

\* A request whose call, copy, command and answer do not change keeps its part.
LEMMA OthersKeep ==
  ASSUME NEW q \in Requests, CopyOf(q),
         call'[q] = call[q], copied'[q] = copied[q], command'[q] = command[q],
         reply'[q] = reply[q]
  PROVE  CopyOf(q)'
BY DEF CopyOf, CopyFollowsCommand, AnswerFollowsCopy
\* What one request's call and command may do in a step.
Of(r) ==
  \/ \E c \in Containers : Acquire(r, c)
  \/ Step(r)
  \/ \E s \in Streams : Prints(r, s) \/ Copy(r, s)
  \/ Exits(r) \/ CopyEnds(r) \/ CopyBreaks(r)

\* An error is no result, so nothing is claimed of what was copied.
LEMMA ErrorKeeps ==
  ASSUME TypeOK, NEW r \in Requests, CopyOf(r), NEW code \in Errors,
         call[r].at \in Flying, Error(r, code), UNCHANGED <<copied, command>>
  PROVE  CopyOf(r)'
<1>1. call'[r].at = "done" /\ call'[r].container = call[r].container
  BY DEF TypeOK, Calls, Error, Return, Goto
<1>2. reply'[r].error = code /\ code # None
  BY NoneAssumption DEF TypeOK, Error, Return, NoReply
<1>3. QED
  BY <1>1, <1>2 DEF CopyOf, CopyFollowsCommand, AnswerFollowsCopy, Before, Flying

\* The request that takes the step keeps its part of the invariant.
LEMMA OwnKeeps ==
  ASSUME CopyPart, NEW r \in Requests, Of(r)
  PROVE  CopyOf(r)'
<1>0. TypeOK /\ CopyOf(r)
  BY OneByOne
<1>1. ASSUME NEW c \in Containers, Acquire(r, c)
      PROVE  CopyOf(r)'
  BY <1>0, <1>1, NoneAssumption, ExecAssumption
  DEF TypeOK, Calls, Copies, Commands, Replies, CopyOf, CopyFollowsCommand, AnswerFollowsCopy,
      Acquire, Before, Stages, Errors, NoReply, NoCopy, NoCommand, Empty
<1>2. ASSUME Failing(r)
      PROVE  CopyOf(r)'
  BY <1>0, <1>2, ErrorKeeps DEF Failing, Errors, Flying
<1>3. ASSUME Inspect(r)
      PROVE  CopyOf(r)'
  <2>1. CASE Goto(r, "create") /\ UNCHANGED reply
    BY <1>0, <1>3, <2>1
    DEF TypeOK, Calls, CopyOf, CopyFollowsCommand, AnswerFollowsCopy, Inspect, Goto, Before
  <2>2. CASE Error(r, "CONTAINER_NOT_RUNNING")
    BY <1>0, <1>3, <2>2, ErrorKeeps DEF Inspect, Errors, Flying
  <2>3. QED
    BY <1>3, <2>1, <2>2 DEF Inspect
<1>4. ASSUME Create(r)
      PROVE  CopyOf(r)'
  BY <1>0, <1>4, NoneAssumption, ExecAssumption
  DEF TypeOK, Calls, Copies, Commands, Replies, CopyOf, CopyFollowsCommand, AnswerFollowsCopy,
      Create, Goto, Before, Stages, Errors, NoReply, NoCopy, NoCommand, Empty
<1>5. ASSUME Attach(r)
      PROVE  CopyOf(r)'
  BY <1>0, <1>5, NoneAssumption, ExecAssumption
  DEF TypeOK, Calls, Copies, Commands, Replies, CopyOf, CopyFollowsCommand, AnswerFollowsCopy,
      Attach, Goto, Before, Stages, Errors, NoReply, NoCopy, NoCommand, Empty
<1>6. ASSUME NEW s \in Streams, Prints(r, s)
      PROVE  CopyOf(r)'
  BY <1>0, <1>6, NoneAssumption, ExecAssumption
  DEF TypeOK, Calls, Copies, Commands, Replies, CopyOf, CopyFollowsCommand, AnswerFollowsCopy,
      Prints, Before, Stages, Errors, NoReply, NoCopy, NoCommand, Empty
<1>7. ASSUME Exits(r)
      PROVE  CopyOf(r)'
  BY <1>0, <1>7, NoneAssumption, ExecAssumption
  DEF TypeOK, Calls, Copies, Commands, Replies, CopyOf, CopyFollowsCommand, AnswerFollowsCopy,
      Exits, Before, Stages, Errors, NoReply, NoCopy, NoCommand, Empty
<1>8. ASSUME NEW s \in Streams, Copy(r, s)
      PROVE  CopyOf(r)'
  <2>1. /\ call[r].at = "copy" /\ copied[r].ended = "no" /\ command[r].state # "none"
        /\ copied[r].bytes[s] < command[r].printed[s]
        /\ copied[r].bytes \in [Streams -> Nat] /\ command[r].printed \in [Streams -> Nat]
        /\ copied[r].truncated \in BOOLEAN
        /\ UNCHANGED <<call, command, reply>>
    BY <1>0, <1>8 DEF TypeOK, Copies, Commands, Copy, Copying
  <2>2. CASE Room(r, s)
    <3>1. /\ copied'[r].ended = "no" /\ copied'[r].truncated = copied[r].truncated
          /\ copied'[r].bytes = [copied[r].bytes EXCEPT ![s] = @ + 1]
      <4>1. copied'[r] = [copied[r] EXCEPT !.bytes[s] = @ + 1]
        BY <1>0, <1>8, <2>2 DEF TypeOK, Copy
      <4>2. copied[r] \in Copies
        BY <1>0 DEF TypeOK
      <4>3. QED
        BY <2>1, <4>1, <4>2 DEF Copies
    <3>2. \A t \in Streams :
            copied'[r].bytes[t] <= MaxBytes /\ copied'[r].bytes[t] <= command[r].printed[t]
      BY <1>0, <2>1, <2>2, <3>1, ExecAssumption DEF Room, CopyOf, CopyFollowsCommand
    <3>3. QED
      BY <1>0, <2>1, <3>1, <3>2 DEF CopyOf, CopyFollowsCommand, AnswerFollowsCopy, Before
  <2>3. CASE ~Room(r, s)
    <3>1. /\ copied'[r].ended = "limit" /\ copied'[r].truncated = TRUE
          /\ copied'[r].bytes = copied[r].bytes
      BY <1>0, <1>8, <2>3 DEF TypeOK, Copies, Copy
    <3>2. command[r].printed[s] > MaxBytes
      BY <2>1, <2>3, ExecAssumption DEF Room
    <3>3. QED
      BY <1>0, <2>1, <3>1, <3>2 DEF CopyOf, CopyFollowsCommand, AnswerFollowsCopy, Before
  <2>4. QED
    BY <2>2, <2>3
<1>9. ASSUME CopyEnds(r) \/ CopyBreaks(r)
      PROVE  CopyOf(r)'
  <2>1. /\ call[r].at = "copy" /\ copied[r].ended = "no"
        /\ copied'[r].bytes = copied[r].bytes /\ copied'[r].truncated = copied[r].truncated
        /\ \/ /\ copied'[r].ended = "eof"
              /\ command[r].state = "ended" /\ copied[r].bytes = command[r].printed
           \/ copied'[r].ended = "broken"
        /\ UNCHANGED <<call, command, reply>>
    BY <1>0, <1>9 DEF TypeOK, Copies, CopyEnds, CopyBreaks, Copying
  <2>2. QED
    BY <1>0, <2>1 DEF CopyOf, CopyFollowsCommand, AnswerFollowsCopy, Before
<1>10. ASSUME CopyDone(r)
      PROVE  CopyOf(r)'
  <2>1. /\ call[r].at = "copy" /\ copied[r].ended \in Ends \ {"no"}
        /\ call'[r].at = "finish" /\ call'[r].container = call[r].container
        /\ UNCHANGED <<copied, command, reply>>
    BY <1>0, <1>10 DEF TypeOK, Calls, Copies, CopyDone, Goto
  <2>2. QED
    BY <1>0, <2>1 DEF CopyOf, CopyFollowsCommand, AnswerFollowsCopy, Before, Ends
<1>11. ASSUME Finish(r)
      PROVE  CopyOf(r)'
  BY <1>0, <1>11, NoneAssumption, ExecAssumption
  DEF TypeOK, Calls, Copies, Commands, Replies, CopyOf, CopyFollowsCommand, AnswerFollowsCopy,
      Finish, Return, Goto, Release, Container, Before, Stages, Errors, NoReply, NoCopy, NoCommand, Empty
<1>12. ASSUME Timeout(r)
      PROVE  CopyOf(r)'
  <2>1. /\ call[r].at \in {"copy", "finish"}
        /\ call'[r].at = "done" /\ call'[r].container = call[r].container
        /\ reply'[r].error = "EXEC_TIMEOUT" /\ None # "EXEC_TIMEOUT"
        /\ UNCHANGED command
    BY <1>0, <1>12, NoneAssumption
    DEF TypeOK, Calls, Timeout, Error, Return, Goto, NoReply, Errors
  <2>2. /\ copied'[r].bytes = copied[r].bytes /\ copied'[r].truncated = copied[r].truncated
        /\ \/ copied'[r].ended = copied[r].ended
           \/ copied[r].ended = "no" /\ copied'[r].ended = "closed"
    BY <1>0, <1>12 DEF TypeOK, Copies, Timeout
  <2>3. QED
    BY <1>0, <2>1, <2>2 DEF CopyOf, CopyFollowsCommand, AnswerFollowsCopy, Before
<1>13. QED
  BY <1>1, <1>2, <1>3, <1>4, <1>5, <1>6, <1>7, <1>8, <1>9, <1>10, <1>11, <1>12 DEF Of, Step

\* The other requests are left alone.
LEMMA OthersUntouched ==
  ASSUME CopyPart, NEW r \in Requests, Of(r)
  PROVE  \A q \in Requests \ {r} :
           call'[q] = call[q] /\ copied'[q] = copied[q] /\ command'[q] = command[q] /\ reply'[q] = reply[q]
<1>0. TypeOK
  BY OneByOne
<1>1. ASSUME NEW c \in Containers, Acquire(r, c)
      PROVE  \A q \in Requests \ {r} :
           call'[q] = call[q] /\ copied'[q] = copied[q] /\ command'[q] = command[q] /\ reply'[q] = reply[q]
  BY <1>0, <1>1 DEF TypeOK, Acquire
<1>2. ASSUME Failing(r)
      PROVE  \A q \in Requests \ {r} :
           call'[q] = call[q] /\ copied'[q] = copied[q] /\ command'[q] = command[q] /\ reply'[q] = reply[q]
  BY <1>0, <1>2 DEF TypeOK, Failing, Error, Return, Goto, Release, Container
<1>3. ASSUME Inspect(r)
      PROVE  \A q \in Requests \ {r} :
           call'[q] = call[q] /\ copied'[q] = copied[q] /\ command'[q] = command[q] /\ reply'[q] = reply[q]
  BY <1>0, <1>3 DEF TypeOK, Inspect, Error, Return, Goto, Release, Container
<1>4. ASSUME Create(r)
      PROVE  \A q \in Requests \ {r} :
           call'[q] = call[q] /\ copied'[q] = copied[q] /\ command'[q] = command[q] /\ reply'[q] = reply[q]
  BY <1>0, <1>4 DEF TypeOK, Create, Goto
<1>5. ASSUME Attach(r)
      PROVE  \A q \in Requests \ {r} :
           call'[q] = call[q] /\ copied'[q] = copied[q] /\ command'[q] = command[q] /\ reply'[q] = reply[q]
  BY <1>0, <1>5 DEF TypeOK, Attach, Goto
<1>6. ASSUME NEW s \in Streams, Prints(r, s)
      PROVE  \A q \in Requests \ {r} :
           call'[q] = call[q] /\ copied'[q] = copied[q] /\ command'[q] = command[q] /\ reply'[q] = reply[q]
  BY <1>0, <1>6 DEF TypeOK, Prints
<1>7. ASSUME Exits(r)
      PROVE  \A q \in Requests \ {r} :
           call'[q] = call[q] /\ copied'[q] = copied[q] /\ command'[q] = command[q] /\ reply'[q] = reply[q]
  BY <1>0, <1>7 DEF TypeOK, Exits
<1>8. ASSUME NEW s \in Streams, Copy(r, s)
      PROVE  \A q \in Requests \ {r} :
           call'[q] = call[q] /\ copied'[q] = copied[q] /\ command'[q] = command[q] /\ reply'[q] = reply[q]
  BY <1>0, <1>8 DEF TypeOK, Copy, Copying
<1>9. ASSUME CopyEnds(r) \/ CopyBreaks(r)
      PROVE  \A q \in Requests \ {r} :
           call'[q] = call[q] /\ copied'[q] = copied[q] /\ command'[q] = command[q] /\ reply'[q] = reply[q]
  BY <1>0, <1>9 DEF TypeOK, CopyEnds, CopyBreaks, Copying
<1>10. ASSUME CopyDone(r)
      PROVE  \A q \in Requests \ {r} :
           call'[q] = call[q] /\ copied'[q] = copied[q] /\ command'[q] = command[q] /\ reply'[q] = reply[q]
  BY <1>0, <1>10 DEF TypeOK, CopyDone, Goto
<1>11. ASSUME Finish(r)
      PROVE  \A q \in Requests \ {r} :
           call'[q] = call[q] /\ copied'[q] = copied[q] /\ command'[q] = command[q] /\ reply'[q] = reply[q]
  BY <1>0, <1>11 DEF TypeOK, Finish, Return, Goto, Release, Container
<1>12. ASSUME Timeout(r)
      PROVE  \A q \in Requests \ {r} :
           call'[q] = call[q] /\ copied'[q] = copied[q] /\ command'[q] = command[q] /\ reply'[q] = reply[q]
  BY <1>0, <1>12 DEF TypeOK, Timeout, Error, Return, Goto, Release, Container
<1>13. QED
  BY <1>1, <1>2, <1>3, <1>4, <1>5, <1>6, <1>7, <1>8, <1>9, <1>10, <1>11, <1>12 DEF Of, Step

\* The variables keep their kinds; the counts do by what is proved of the slots below.
LEMMA OwnTyped ==
  ASSUME CopyPart, NEW r \in Requests, Of(r)
  PROVE  call' \in [Requests -> Calls] /\ copied' \in [Requests -> Copies]
         /\ command' \in [Requests -> Commands] /\ reply' \in [Requests -> Replies]
<1>0. TypeOK
  BY OneByOne
<1>1. ASSUME NEW c \in Containers, Acquire(r, c)
      PROVE  call' \in [Requests -> Calls] /\ copied' \in [Requests -> Copies]
         /\ command' \in [Requests -> Commands] /\ reply' \in [Requests -> Replies]
  <2>1. \A a \in Stages : [container |-> c, at |-> a] \in Calls
    BY DEF Calls
  <2>2. [reply[r] EXCEPT !.error = "EXEC_CONCURRENT_LIMIT"] \in Replies
    BY <1>0, Records DEF TypeOK, Errors
  <2>3. QED
    BY <1>0, <1>1, <2>1, <2>2 DEF TypeOK, Acquire, Before, Stages
<1>2. ASSUME Failing(r)
      PROVE  call' \in [Requests -> Calls] /\ copied' \in [Requests -> Copies]
         /\ command' \in [Requests -> Commands] /\ reply' \in [Requests -> Replies]
  BY <1>0, <1>2, Records DEF TypeOK, Failing, Error, Return, Goto, Release, Container, Before, Stages, Ends, Errors
<1>3. ASSUME Inspect(r)
      PROVE  call' \in [Requests -> Calls] /\ copied' \in [Requests -> Copies]
         /\ command' \in [Requests -> Commands] /\ reply' \in [Requests -> Replies]
  <2>1. \A a \in {"create", "done"} : [call[r] EXCEPT !.at = a] \in Calls
    BY <1>0, Records DEF TypeOK, Before, Stages
  <2>2. [NoReply EXCEPT !.error = "CONTAINER_NOT_RUNNING"] \in Replies
    BY Records DEF Errors
  <2>3. QED
    BY <1>0, <1>3, <2>1, <2>2 DEF TypeOK, Inspect, Error, Return, Goto
<1>4. ASSUME Create(r)
      PROVE  call' \in [Requests -> Calls] /\ copied' \in [Requests -> Copies]
         /\ command' \in [Requests -> Commands] /\ reply' \in [Requests -> Replies]
  BY <1>0, <1>4, Records DEF TypeOK, Create, Goto, Before, Stages, Ends, Errors
<1>5. ASSUME Attach(r)
      PROVE  call' \in [Requests -> Calls] /\ copied' \in [Requests -> Copies]
         /\ command' \in [Requests -> Commands] /\ reply' \in [Requests -> Replies]
  BY <1>0, <1>5, Records DEF TypeOK, Attach, Goto, Before, Stages, Ends, Errors
<1>6. ASSUME NEW s \in Streams, Prints(r, s)
      PROVE  call' \in [Requests -> Calls] /\ copied' \in [Requests -> Copies]
         /\ command' \in [Requests -> Commands] /\ reply' \in [Requests -> Replies]
  BY <1>0, <1>6, Records DEF TypeOK, Prints, Before, Stages, Ends, Errors
<1>7. ASSUME Exits(r)
      PROVE  call' \in [Requests -> Calls] /\ copied' \in [Requests -> Copies]
         /\ command' \in [Requests -> Commands] /\ reply' \in [Requests -> Replies]
  BY <1>0, <1>7, Records DEF TypeOK, Exits, Before, Stages, Ends, Errors
<1>8. ASSUME NEW s \in Streams, Copy(r, s)
      PROVE  call' \in [Requests -> Calls] /\ copied' \in [Requests -> Copies]
         /\ command' \in [Requests -> Commands] /\ reply' \in [Requests -> Replies]
  <2>1. /\ [copied[r] EXCEPT !.bytes[s] = @ + 1] \in Copies
        /\ [copied[r] EXCEPT !.truncated = TRUE, !.ended = "limit"] \in Copies
    BY <1>0, Records DEF TypeOK
  <2>2. copied' = IF Room(r, s) THEN [copied EXCEPT ![r] = [copied[r] EXCEPT !.bytes[s] = @ + 1]]
                  ELSE [copied EXCEPT ![r] = [copied[r] EXCEPT !.truncated = TRUE, !.ended = "limit"]]
    BY <1>0, <1>8 DEF TypeOK, Copy
  <2>3. copied' \in [Requests -> Copies]
    BY <1>0, <2>1, <2>2 DEF TypeOK
  <2>4. QED
    BY <1>0, <1>8, <2>3 DEF TypeOK, Copy
<1>9. ASSUME CopyEnds(r) \/ CopyBreaks(r)
      PROVE  call' \in [Requests -> Calls] /\ copied' \in [Requests -> Copies]
         /\ command' \in [Requests -> Commands] /\ reply' \in [Requests -> Replies]
  <2>1. \A e \in Ends : [copied[r] EXCEPT !.ended = e] \in Copies
    BY <1>0, Records DEF TypeOK
  <2>2. QED
    BY <1>0, <1>9, <2>1 DEF TypeOK, CopyEnds, CopyBreaks, Ends
<1>10. ASSUME CopyDone(r)
      PROVE  call' \in [Requests -> Calls] /\ copied' \in [Requests -> Copies]
         /\ command' \in [Requests -> Commands] /\ reply' \in [Requests -> Replies]
  BY <1>0, <1>10, Records DEF TypeOK, CopyDone, Goto, Before, Stages, Ends, Errors
<1>11. ASSUME Finish(r)
      PROVE  call' \in [Requests -> Calls] /\ copied' \in [Requests -> Copies]
         /\ command' \in [Requests -> Commands] /\ reply' \in [Requests -> Replies]
  BY <1>0, <1>11, Records DEF TypeOK, Finish, Return, Goto, Release, Container, Before, Stages, Ends, Errors
<1>12. ASSUME Timeout(r)
      PROVE  call' \in [Requests -> Calls] /\ copied' \in [Requests -> Copies]
         /\ command' \in [Requests -> Commands] /\ reply' \in [Requests -> Replies]
  <2>1. [copied[r] EXCEPT !.ended = IF @ = "no" THEN "closed" ELSE @] \in Copies
    <3>1. copied[r] \in Copies /\ copied[r].ended \in Ends
      BY <1>0 DEF TypeOK, Copies
    <3>2. QED
      BY <3>1, Records DEF Ends
  <2>2. [call[r] EXCEPT !.at = "done"] \in Calls
    BY <1>0, Records DEF TypeOK, Stages
  <2>3. [NoReply EXCEPT !.error = "EXEC_TIMEOUT"] \in Replies
    BY Records DEF Errors
  <2>4. QED
    BY <1>0, <1>12, <2>1, <2>2, <2>3 DEF TypeOK, Timeout, Error, Return, Goto
<1>13. QED
  BY <1>1, <1>2, <1>3, <1>4, <1>5, <1>6, <1>7, <1>8, <1>9, <1>10, <1>11, <1>12 DEF Of, Step

\* The slots, step by step.
LEMMA OwnSlots ==
  ASSUME CopyPart, SlotPart, NEW r \in Requests, Of(r)
  PROVE  SlotPart' /\ count' \in [Containers -> Nat]
<1>0. /\ TypeOK /\ CopyOf(r) /\ count \in [Containers -> Nat]
      /\ call[r].at # "idle" => call[r].container \in Containers
  BY OneByOne DEF CopyOf, AnswerFollowsCopy, TypeOK
<1>1. ASSUME NEW c \in Containers, Acquire(r, c)
      PROVE  SlotPart' /\ count' \in [Containers -> Nat]
  <2>1. CASE count[c] >= MaxExecConcurrency
    BY <1>0, <1>1, <2>1, Stays DEF Acquire
  <2>2. CASE ~(count[c] >= MaxExecConcurrency)
    <3>1. count[c] < MaxExecConcurrency
      BY <1>0, <2>2, ExecAssumption
    <3>2. SlotPart'
      BY <1>0, <1>1, <2>2, <3>1, Enters DEF Acquire
    <3>3. QED
      BY <1>0, <1>1, <2>2, <3>2 DEF Acquire
  <2>3. QED
    BY <2>1, <2>2
<1>2. ASSUME call[r].at \in Flying, NEW answer, Return(r, answer)
      PROVE  SlotPart' /\ count' \in [Containers -> Nat]
  <2>1. SlotPart' /\ count[Container(r)] > 0 /\ Container(r) \in Containers
    BY <1>0, <1>2, Leaves DEF Return, Goto, Release, Container, Flying
  <2>2. QED
    BY <1>0, <1>2, <2>1 DEF Return, Release
<1>3. ASSUME count' = count, NEW stage \in Flying, call[r].at \in Flying, Goto(r, stage)
      PROVE  SlotPart' /\ count' \in [Containers -> Nat]
  BY <1>0, <1>3, Stays DEF Goto
<1>4. ASSUME UNCHANGED <<count, call>>
      PROVE  SlotPart' /\ count' \in [Containers -> Nat]
  BY <1>0, <1>4, Stays
<1>5. CASE Failing(r) \/ Finish(r) \/ Timeout(r)
  BY <1>2, <1>5 DEF Failing, Finish, Timeout, Error, Flying
<1>6. CASE Inspect(r)
  BY <1>2, <1>3, <1>6 DEF Inspect, Error, Flying
<1>7. CASE Create(r) \/ Attach(r) \/ CopyDone(r)
  BY <1>3, <1>7 DEF Create, Attach, CopyDone, Flying
<1>8. CASE \/ \E s \in Streams : Prints(r, s) \/ Copy(r, s)
           \/ Exits(r) \/ CopyEnds(r) \/ CopyBreaks(r)
  BY <1>4, <1>8 DEF Prints, Copy, Exits, CopyEnds, CopyBreaks
<1>9. QED
  BY <1>1, <1>5, <1>6, <1>7, <1>8 DEF Of, Step

\* A step of one request.
LEMMA OfInv ==
  ASSUME CopyPart, SlotPart, NEW r \in Requests, Of(r)
  PROVE  CopyPart' /\ SlotPart'
<1>1. TypeOK /\ \A q \in Requests : CopyOf(q)
  BY OneByOne
<1>2. up' \subseteq Containers
  BY <1>1 DEF TypeOK, Of, Step, Acquire, Failing, Inspect, Create, Attach, CopyDone, Finish,
              Timeout, Prints, Copy, Exits, CopyEnds, CopyBreaks
<1>3. TypeOK'
  BY <1>2, OwnTyped, OwnSlots DEF TypeOK
<1>4. ASSUME NEW q \in Requests PROVE CopyOf(q)'
  BY <1>1, OwnKeeps, OthersUntouched, OthersKeep
<1>5. QED
  BY <1>3, <1>4, OwnSlots DEF CopyPart, CopyOf, CopyFollowsCommand, AnswerFollowsCopy

\* A container stops, and with it every command in it.
LEMMA StopsInv ==
  ASSUME CopyPart, SlotPart, NEW c \in Containers, Stops(c)
  PROVE  CopyPart' /\ SlotPart'
<1>1. TypeOK /\ \A q \in Requests : CopyOf(q)
  BY OneByOne
<1>2. ASSUME NEW q \in Requests
      PROVE  /\ command'[q] \in Commands /\ command'[q].printed = command[q].printed
             /\ command'[q] = command[q] \/ (command[q].state = "running" /\ command'[q].state = "ended")
  BY <1>1 DEF TypeOK, Commands, Stops
<1>3. TypeOK'
  <2>1. command' \in [Requests -> Commands]
    BY <1>2 DEF Stops
  <2>2. QED
    BY <1>1, <2>1 DEF TypeOK, Stops
<1>4. ASSUME NEW q \in Requests PROVE CopyOf(q)'
  BY <1>1, <1>2 DEF Stops, CopyOf, CopyFollowsCommand, AnswerFollowsCopy, NoCommand
<1>5. SlotPart'
  BY <1>1, Stays DEF Stops
<1>6. QED
  BY <1>3, <1>4, <1>5 DEF CopyPart, CopyOf, CopyFollowsCommand, AnswerFollowsCopy

-----------------------------------------------------------------------------
\* The bookkeeping of slots and copies is right at every moment, whatever the daemon,
\* the commands and the deadlines do.
THEOREM ExecInvariant == Spec => []ExecInv
<1>1. ExecInv /\ [Next]_vars => ExecInv'
  <2> SUFFICES ASSUME CopyPart, SlotPart, [Next]_vars PROVE CopyPart' /\ SlotPart'
    BY DEF ExecInv, CopyPart, SlotPart
  <2>1. CASE UNCHANGED vars
    <3>1. TypeOK' /\ CopyFollowsCommand' /\ AnswerFollowsCopy'
      BY <2>1 DEF vars, CopyPart, TypeOK, CopyFollowsCommand, AnswerFollowsCopy
    <3>2. SlotPart'
      BY <2>1, Stays DEF vars, CopyPart
    <3>3. QED
      BY <3>1, <3>2 DEF CopyPart
  <2>2. CASE \E r \in Requests : Of(r)
    BY <2>2, OfInv
  <2>3. CASE \E c \in Containers : Stops(c)
    BY <2>3, StopsInv
  <2>4. QED
    BY <2>1, <2>2, <2>3 DEF Next, Of
<1>2. QED
  BY <1>1, InitInv, PTL DEF Spec

\* A container's slots are the calls in flight for it, on every path through
\* ContainerExec (acquire, the deferred release).
THEOREM SlotsTheorem == Spec => []SlotsAreCalls
BY ExecInvariant, PTL DEF ExecInv

\* A result shows all that the command printed, within the limits, or says that it does
\* not, unless the connection broke (capWriter, execFinish).
THEOREM WholeTheorem == Spec => []ResultIsWhole
<1>1. ExecInv => ResultIsWhole
  <2> SUFFICES ASSUME ExecInv, NEW r \in Requests, call[r].at = "done", reply[r].error = None
               PROVE  ResultIsWhole!(r)!2
    BY DEF ResultIsWhole
  <2>1. CopyFollowsCommand!(r) /\ AnswerFollowsCopy!(r)
    BY DEF ExecInv, CopyFollowsCommand, AnswerFollowsCopy
  <2>2. QED
    BY <2>1
<1>2. QED
  BY <1>1, ExecInvariant, PTL
-----------------------------------------------------------------------------
(* The refinement of ExecSlots.                                             *)

\* ExecSlots counts with the same Cardinality.
LEMMA SameCardinality == \A S : Slots!Cardinality(S) = Cardinality(S)
BY DEF Cardinality, Slots!Cardinality

\* Who is served in a container is who is in flight for it.
LEMMA ServedAreInFlight ==
  ASSUME TypeOK, NEW c \in Containers
  PROVE  Slots!Served(c) = InFlight(c)
BY DEF Slots!Served, InFlight, Phase, Container, TypeOK, Calls

\* Where the others are left alone, only one call's container and phase may change.
LEMMA OneCallMoves ==
  ASSUME NEW r \in Requests,
         \A q \in Requests \ {r} : call'[q] = call[q] /\ reply'[q] = reply[q],
         NEW c, NEW phase, Container(r)' = c, Phase(r)' = phase
  PROVE  /\ [q \in Requests |-> Container(q)]'
              = [[q \in Requests |-> Container(q)] EXCEPT ![r] = c]
         /\ [q \in Requests |-> Phase(q)]' = [[q \in Requests |-> Phase(q)] EXCEPT ![r] = phase]
<1>1. \A q \in Requests \ {r} : Container(q)' = Container(q) /\ Phase(q)' = Phase(q)
  BY DEF Container, Phase
<1>2. QED
  BY <1>1

\* Nobody moves.
LEMMA NobodyMoves ==
  ASSUME \A q \in Requests : Container(q)' = Container(q) /\ Phase(q)' = Phase(q)
  PROVE  UNCHANGED Slots!vars
BY DEF Slots!vars

\* acquire: with the counter below its limit there is a free slot, and else there is none.
LEMMA AcquireRefines ==
  ASSUME TypeOK, SlotsAreCalls, NEW r \in Requests, NEW c \in Containers, Acquire(r, c),
         \A q \in Requests \ {r} : call'[q] = call[q] /\ reply'[q] = reply[q]
  PROVE  Slots!Next
<1>1. /\ Phase(r) = "new" /\ count[c] \in Nat
      /\ count[c] = Cardinality(Slots!Served(c))
  BY ServedAreInFlight DEF Acquire, Phase, SlotsAreCalls, TypeOK
<1>2. Container(r)' = c
  BY DEF Acquire, Container, TypeOK, Calls
<1>3. CASE count[c] >= MaxExecConcurrency
  <2>1. Phase(r)' = "refused"
    BY <1>3 DEF Acquire, Phase, TypeOK, Calls, Replies
  <2>2. Slots!Ask(r, c, "refused")
    BY <1>1, <1>2, <2>1, OneCallMoves DEF Slots!Ask
  <2>3. QED
    BY <1>1, <1>3, <2>2, SameCardinality DEF Slots!Next, Slots!TurnAway
<1>4. CASE ~(count[c] >= MaxExecConcurrency)
  <2>1. Phase(r)' = "served"
    BY <1>4 DEF Acquire, Phase, TypeOK, Calls
  <2>2. Slots!Ask(r, c, "served")
    BY <1>1, <1>2, <2>1, OneCallMoves DEF Slots!Ask
  <2>3. Cardinality(Slots!Served(c)) < MaxExecConcurrency
    BY <1>1, <1>4, ExecAssumption
  <2>4. QED
    BY <2>2, <2>3, SameCardinality DEF Slots!Next, Slots!Admit
<1>5. QED
  BY <1>3, <1>4

\* Whatever ends a call that has a slot is an answer.
LEMMA ReturnRefines ==
  ASSUME TypeOK, NEW r \in Requests, call[r].at \in Flying, NEW answer \in Replies,
         answer.error # "EXEC_CONCURRENT_LIMIT", Return(r, answer),
         \A q \in Requests \ {r} : call'[q] = call[q] /\ reply'[q] = reply[q]
  PROVE  Slots!Next
<1>1. Phase(r) = "served"
  BY DEF Phase, Flying
<1>2. Container(r)' = Container(r) /\ Phase(r)' = "answered"
  BY DEF Return, Goto, Phase, Container, TypeOK, Calls
<1>3. Slots!Answer(r)
  BY <1>1, <1>2, OneCallMoves DEF Slots!Answer
<1>4. QED
  BY <1>3 DEF Slots!Next

\* Between its admission and its answer a call shows nothing.
LEMMA GotoRefines ==
  ASSUME TypeOK, NEW r \in Requests, call[r].at \in Flying, NEW stage \in Flying,
         Goto(r, stage), reply' = reply
  PROVE  UNCHANGED Slots!vars
<1>1. \A q \in Requests : Container(q)' = Container(q) /\ Phase(q)' = Phase(q)
  BY DEF Goto, Phase, Container, TypeOK, Calls, Flying
<1>2. QED
  BY <1>1, NobodyMoves

\* Each step of a request, of its command and of its copy.
LEMMA OfRefines ==
  ASSUME CopyPart, SlotsAreCalls, NEW r \in Requests, Of(r)
  PROVE  Slots!Next \/ UNCHANGED Slots!vars
<1>0. /\ TypeOK
      /\ \A q \in Requests \ {r} : call'[q] = call[q] /\ reply'[q] = reply[q]
  BY OneByOne, OthersUntouched
<1>1. CASE \E c \in Containers : Acquire(r, c)
  BY <1>0, <1>1, AcquireRefines
<1>2. ASSUME NEW code \in Errors \ {"EXEC_CONCURRENT_LIMIT"}, call[r].at \in Flying, Error(r, code)
      PROVE  Slots!Next
  <2>1. /\ [NoReply EXCEPT !.error = code] \in Replies
        /\ [NoReply EXCEPT !.error = code].error = code
    BY Records DEF NoReply
  <2>2. QED
    BY <1>0, <1>2, <2>1, ReturnRefines DEF Error
<1>3. CASE Failing(r) \/ Timeout(r)
  BY <1>2, <1>3 DEF Failing, Timeout, Errors, Flying
<1>4. CASE Inspect(r)
  BY <1>0, <1>2, <1>4, GotoRefines DEF Inspect, Errors, Flying
<1>5. CASE Create(r) \/ Attach(r) \/ CopyDone(r)
  BY <1>0, <1>5, GotoRefines DEF Create, Attach, CopyDone, Flying
<1>6. CASE Finish(r)
  <2>1. copied[r] \in Copies
    BY <1>0 DEF TypeOK
  <2>2. PICK answer \in Replies : answer.error = None /\ Return(r, answer)
    BY <1>6, <2>1, Records DEF Finish
  <2>3. answer.error # "EXEC_CONCURRENT_LIMIT" /\ call[r].at \in Flying
    BY <1>6, <2>2, NoneAssumption DEF Errors, Finish, Flying
  <2>4. QED
    BY <1>0, <2>2, <2>3, ReturnRefines
<1>7. CASE \/ \E s \in Streams : Prints(r, s) \/ Copy(r, s)
           \/ Exits(r) \/ CopyEnds(r) \/ CopyBreaks(r)
  <2>1. UNCHANGED <<call, reply>>
    BY <1>7 DEF Prints, Copy, Exits, CopyEnds, CopyBreaks
  <2>2. QED
    BY <2>1, NobodyMoves DEF Container, Phase
<1>8. QED
  BY <1>1, <1>3, <1>4, <1>5, <1>6, <1>7 DEF Of, Step

\* Counting the calls implements the slots: each step admits, turns away, answers or shows
\* nothing, and turns away only when as many as there may be are in flight (acquire,
\* release, ContainerExec).
THEOREM SlotsRefinement == Spec => ImplementsSlots
<1>1. Init => Slots!Init
  BY DEF Init, Slots!Init, Container, Phase
<1>2. ExecInv /\ [Next]_vars => [Slots!Next]_(Slots!vars)
  <2> SUFFICES ASSUME CopyPart, SlotsAreCalls, [Next]_vars
               PROVE  Slots!Next \/ UNCHANGED Slots!vars
    BY DEF ExecInv, CopyPart
  <2>1. CASE UNCHANGED vars \/ \E c \in Containers : Stops(c)
    <3>1. UNCHANGED <<call, reply>>
      BY <2>1 DEF vars, Stops
    <3>2. QED
      BY <3>1, NobodyMoves DEF Container, Phase
  <2>2. CASE \E r \in Requests : Of(r)
    BY <2>2, OfRefines
  <2>3. QED
    BY <2>1, <2>2 DEF Next, Of
<1>3. QED
  BY <1>1, <1>2, ExecInvariant, PTL DEF Spec, ImplementsSlots, Slots!Spec
=============================================================================
