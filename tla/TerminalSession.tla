--------------------------- MODULE TerminalSession ---------------------------
(***************************************************************************)
(* One host terminal session (internal/terminal/manager.go): the capture    *)
(* goroutine that moves what the shell prints into the session's window,    *)
(* long polls that read it by offset, Input that writes to the pty with the *)
(* session's mutex held, Close, and the shell at the other end.  Each       *)
(* critical section of item.mu is one action; only Input keeps the mutex    *)
(* over several, because process.Write may block.  The k-th byte the shell  *)
(* prints is the number k, so what a reply carries can be compared with     *)
(* where it says it stands in the stream.                                   *)
(***************************************************************************)
EXTENDS Naturals, Sequences

CONSTANTS
  Pollers,      \* clients that poll for output
  Writers,      \* goroutines that serve Input
  Closers,      \* goroutines that call Close: users, the reaper, CloseAll
  BufferBytes,  \* Config.BufferBytes, the size of the window
  OutputBytes,  \* MaxOutputBytes, the most one reply carries
  ReadBytes,    \* the capture goroutine's read buffer
  PtyBytes,     \* what the pty holds in each direction before it blocks
  InputBytes,   \* the size of one Input
  Stream,       \* bound: how many bytes the shell prints
  Free          \* nobody holds item.mu

ASSUME SizesAssumption ==
  /\ {BufferBytes, OutputBytes, ReadBytes, PtyBytes, InputBytes} \subseteq Nat \ {0}
  /\ Stream \in Nat

ASSUME FreeWriterAssumption == Free \notin Writers

VARIABLES
  buffer, base, next,   \* the window of the stream the session keeps
  closed,               \* item.closed
  exit,                 \* item.exitedAt and exitError
  mu,                   \* the Input that holds item.mu across its write
  capture, chunk,       \* the capture goroutine and what it has just read
  poll, asked, woken, reply,  \* each poll, its offset, its channel, its answer
  input, left,          \* each Input and what it still has to write
  closer,               \* each Close
  fd,                   \* the master side of the pty
  slave, pty, typed, emitted  \* the shell's side: who has it open, both queues

window  == <<buffer, base, next>>
item    == <<buffer, base, next, closed, exit>>
polls   == <<poll, asked, woken, reply>>
inputs  == <<mu, input, left>>
shell   == <<slave, pty, typed, emitted>>
vars    == <<item, capture, chunk, polls, inputs, closer, fd, shell>>

\* The reply to a poll; "error" is ErrOffset or an expired context.
NoReply == [kind |-> "none"]
Failed  == [kind |-> "error"]
Data(off, data, truncated) ==
  [kind |-> "output", offset |-> off, data |-> data, truncated |-> truncated,
   closed |-> closed, exit |-> exit]

Bytes(from, n) == [i \in 1..n |-> from + i - 1]

Least(a, b) == IF a < b THEN a ELSE b

-----------------------------------------------------------------------------
Init ==
  /\ buffer = <<>> /\ base = 0 /\ next = 0
  /\ closed = FALSE /\ exit = "no"
  /\ capture = "call" /\ chunk = <<>>
  /\ poll = [p \in Pollers |-> "idle"]
  /\ asked = [p \in Pollers |-> 0]
  /\ woken = [p \in Pollers |-> FALSE]
  /\ reply = [p \in Pollers |-> NoReply]
  /\ mu = Free
  /\ input = [w \in Writers |-> "idle"]
  /\ left = [w \in Writers |-> 0]
  /\ closer = [c \in Closers |-> "idle"]
  /\ fd = "open"
  /\ slave = "shell" /\ pty = <<>> /\ typed = 0 /\ emitted = 0

-----------------------------------------------------------------------------
(* The shell's side of the pty (external).                                  *)

\* The shell, or a job it left behind, prints a byte, if the pty has room.
Emit ==
  /\ slave # "closed"
  /\ emitted < Stream /\ Len(pty) < PtyBytes
  /\ pty' = Append(pty, emitted)
  /\ emitted' = emitted + 1
  /\ UNCHANGED <<item, capture, chunk, polls, inputs, closer, fd, slave, typed>>

\* Whoever has the slave side open reads a typed byte.
Consume ==
  /\ slave # "closed" /\ typed > 0
  /\ typed' = typed - 1
  /\ UNCHANGED <<item, capture, chunk, polls, inputs, closer, fd, slave, pty, emitted>>

\* The shell ends; a background job may keep the slave side open.
ShellEnds ==
  /\ slave = "shell"
  /\ slave' \in {"job", "closed"}
  /\ UNCHANGED <<item, capture, chunk, polls, inputs, closer, fd, pty, typed, emitted>>

JobEnds ==
  /\ slave = "job"
  /\ slave' = "closed"
  /\ UNCHANGED <<item, capture, chunk, polls, inputs, closer, fd, pty, typed, emitted>>

-----------------------------------------------------------------------------
(* The capture goroutine.                                                   *)

\* close(item.notify) and a new channel: every poll that waits is woken.
Broadcast == woken' = [p \in Pollers |-> TRUE]

\* Mutant: capture looks whether the shell is alive before it reads.
ReadCallIfAlive ==
  /\ capture = "call"
  /\ capture' = IF slave # "shell" THEN "wait" ELSE "reading"
  /\ UNCHANGED <<item, chunk, polls, inputs, closer, fd, shell>>

\* process.Read is called: a closed file is refused, otherwise the read blocks,
\* and a Close that comes later does not interrupt it.
ReadCall ==
  /\ capture = "call"
  /\ capture' = IF fd = "closed" THEN "wait" ELSE "reading"
  /\ UNCHANGED <<item, chunk, polls, inputs, closer, fd, shell>>

ReadReturns ==
  /\ capture = "reading"
  /\ pty # <<>>
  /\ LET n == Least(ReadBytes, Len(pty)) IN
       /\ chunk' = SubSeq(pty, 1, n)
       /\ pty' = SubSeq(pty, n + 1, Len(pty))
  /\ capture' = "append"
  /\ UNCHANGED <<item, polls, inputs, closer, fd, slave, typed, emitted>>

\* The slave side is closed and everything has been read: EIO.
ReadEnds ==
  /\ capture = "reading"
  /\ pty = <<>> /\ slave = "closed"
  /\ capture' = "wait"
  /\ UNCHANGED <<item, chunk, polls, inputs, closer, fd, shell>>

\* Mutant: the window is only trimmed when it is a read over its size.
DropLate(n) == IF n > BufferBytes + ReadBytes THEN n - BufferBytes ELSE 0

\* How much of n bytes does not fit the window.
Drop(n) == IF n > BufferBytes THEN n - BufferBytes ELSE 0

\* session.append: add, keep the last BufferBytes, wake the polls.
AppendChunk ==
  /\ capture = "append" /\ mu = Free
  /\ LET all == buffer \o chunk IN
       /\ buffer' = SubSeq(all, Drop(Len(all)) + 1, Len(all))
       /\ base' = base + Drop(Len(all))
  /\ next' = next + Len(chunk)
  /\ chunk' = <<>>
  /\ Broadcast
  /\ capture' = "call"
  /\ UNCHANGED <<closed, exit, poll, asked, reply, inputs, closer, fd, shell>>

\* Mutant: setExit stores the time of the exit but does not signal it.
SetExitSilently(how) ==
  /\ exit' = IF exit = "no" THEN how ELSE exit
  /\ UNCHANGED woken

\* session.setExit: the first exit wins.
SetExit(how) ==
  IF exit # "no"
  THEN UNCHANGED <<exit, woken>>
  ELSE exit' = how /\ Broadcast

\* A read error other than the end of the pty is recorded as the exit at once.
ReadFails ==
  /\ capture = "reading" /\ mu = Free
  /\ SetExit("failed")
  /\ capture' = "wait"
  /\ UNCHANGED <<window, closed, chunk, poll, asked, reply, inputs, closer, fd, shell>>

\* process.Wait returns when the shell itself has ended.
WaitReturns ==
  /\ capture = "wait" /\ slave # "shell" /\ mu = Free
  /\ SetExit("ended")
  /\ capture' = "gone"
  /\ UNCHANGED <<window, closed, chunk, poll, asked, reply, inputs, closer, fd, shell>>

-----------------------------------------------------------------------------
(* Manager.Output: the long poll.                                           *)

\* Where a client goes on: after the last byte it was given.
Cursor(p) ==
  IF reply[p].kind = "output" THEN reply[p].offset + Len(reply[p].data) ELSE asked[p]

\* The offset is the client's own: the next one, the first, or one too far.
PollStarts(p) ==
  /\ poll[p] = "idle"
  /\ \E off \in {Cursor(p), 0, Stream + 1} : asked' = [asked EXCEPT ![p] = off]
  /\ poll' = [poll EXCEPT ![p] = "check"]
  /\ reply' = [reply EXCEPT ![p] = NoReply]
  /\ UNCHANGED <<item, capture, chunk, woken, inputs, closer, fd, shell>>

Ready(off) == off < next \/ closed \/ exit # "no"

\* Mutant: an offset the window has left behind is moved without saying so.
TruncatedNever(off) == FALSE

Truncated(off) == off < base

\* session.output: the part of the window the offset names.
OutputAt(off) ==
  LET from == IF off < base THEN base ELSE off
      last == Least(from - base + OutputBytes, Len(buffer))
  IN  Data(from, SubSeq(buffer, from - base + 1, last), Truncated(off))

Answer(p, r) ==
  /\ poll' = [poll EXCEPT ![p] = "idle"]
  /\ reply' = [reply EXCEPT ![p] = r]

\* The first look at the session: an answer, or the channel to wait on, taken
\* in the same critical section.  A poll whose wait is zero never waits.
PollChecks(p) ==
  /\ poll[p] = "check" /\ mu = Free
  /\ \/ asked[p] > next /\ Answer(p, Failed) /\ UNCHANGED woken
     \/ asked[p] <= next /\ Answer(p, OutputAt(asked[p])) /\ UNCHANGED woken
     \/ /\ asked[p] <= next /\ ~Ready(asked[p])
        /\ poll' = [poll EXCEPT ![p] = "waiting"]
        /\ woken' = [woken EXCEPT ![p] = FALSE]
        /\ UNCHANGED reply
  /\ UNCHANGED <<item, capture, chunk, asked, inputs, closer, fd, shell>>

PollNotified(p) ==
  /\ poll[p] = "waiting" /\ woken[p]
  /\ poll' = [poll EXCEPT ![p] = "check"]
  /\ UNCHANGED <<item, capture, chunk, asked, woken, reply, inputs, closer, fd, shell>>

\* Mutant: when the timer fires the poll goes round its loop again.
PollTimerLoops(p) ==
  /\ poll[p] = "waiting"
  /\ poll' = [poll EXCEPT ![p] = "check"]
  /\ UNCHANGED <<item, capture, chunk, asked, woken, reply, inputs, closer, fd, shell>>

\* The wait is over: currentOutput looks once more.
PollTimer(p) ==
  /\ poll[p] = "waiting"
  /\ poll' = [poll EXCEPT ![p] = "last"]
  /\ UNCHANGED <<item, capture, chunk, asked, woken, reply, inputs, closer, fd, shell>>

PollLast(p) ==
  /\ poll[p] = "last" /\ mu = Free
  /\ Answer(p, OutputAt(asked[p]))
  /\ UNCHANGED <<item, capture, chunk, asked, woken, inputs, closer, fd, shell>>

\* The request's context ends while the poll waits.
PollCanceled(p) ==
  /\ poll[p] = "waiting"
  /\ Answer(p, Failed)
  /\ UNCHANGED <<item, capture, chunk, asked, woken, inputs, closer, fd, shell>>

-----------------------------------------------------------------------------
(* Manager.Input.                                                           *)

InputStarts(w) ==
  /\ input[w] = "idle"
  /\ input' = [input EXCEPT ![w] = "lock"]
  /\ UNCHANGED <<item, capture, chunk, polls, mu, left, closer, fd, shell>>

InputRefused(w) ==
  /\ input[w] = "lock" /\ mu = Free
  /\ closed \/ exit # "no"
  /\ input' = [input EXCEPT ![w] = "idle"]
  /\ UNCHANGED <<item, capture, chunk, polls, mu, left, closer, fd, shell>>

InputLocks(w) ==
  /\ input[w] = "lock" /\ mu = Free
  /\ ~closed /\ exit = "no"
  /\ mu' = w
  /\ left' = [left EXCEPT ![w] = InputBytes]
  /\ input' = [input EXCEPT ![w] = "write"]
  /\ UNCHANGED <<item, capture, chunk, polls, closer, fd, shell>>

\* Mutant: the write goes on past the end of the data.
InputWritesOn(w) ==
  /\ input[w] = "write"
  /\ slave # "closed" /\ typed < PtyBytes
  /\ typed' = typed + 1
  /\ left' = [left EXCEPT ![w] = @ - 1]
  /\ UNCHANGED <<item, capture, chunk, polls, mu, input, closer, fd, slave, pty, emitted>>

\* The pty takes another byte; the write blocks while it has no room.
InputWrites(w) ==
  /\ input[w] = "write" /\ left[w] > 0
  /\ slave # "closed" /\ typed < PtyBytes
  /\ typed' = typed + 1
  /\ left' = [left EXCEPT ![w] = @ - 1]
  /\ UNCHANGED <<item, capture, chunk, polls, mu, input, closer, fd, slave, pty, emitted>>

\* The write is complete, or fails because nobody has the slave side open.
InputReturns(w) ==
  /\ input[w] = "write"
  /\ left[w] = 0 \/ slave = "closed"
  /\ mu' = Free
  /\ left' = [left EXCEPT ![w] = 0]
  /\ input' = [input EXCEPT ![w] = "idle"]
  /\ UNCHANGED <<item, capture, chunk, polls, closer, fd, shell>>

-----------------------------------------------------------------------------
(* Manager.Close.                                                           *)

CloseStarts(c) ==
  /\ closer[c] = "idle"
  /\ closer' = [closer EXCEPT ![c] = "lock"]
  /\ UNCHANGED <<item, capture, chunk, polls, inputs, fd, shell>>

\* A closed session is left alone; an exited one is closed all the same.
CloseMarks(c) ==
  /\ closer[c] = "lock" /\ mu = Free
  /\ IF closed
     THEN /\ closer' = [closer EXCEPT ![c] = "done"]
          /\ UNCHANGED <<closed, woken>>
     ELSE /\ closed' = TRUE
          /\ Broadcast
          /\ closer' = [closer EXCEPT ![c] = "file"]
  /\ UNCHANGED <<window, exit, capture, chunk, poll, asked, reply, inputs, fd, shell>>

CloseFile(c) ==
  /\ closer[c] = "file"
  /\ fd' = "closed"
  /\ closer' = [closer EXCEPT ![c] = "kill"]
  /\ UNCHANGED <<item, capture, chunk, polls, inputs, shell>>

\* Mutant: the file is closed and the shell is left to notice.
CloseWithoutKill(c) ==
  /\ closer[c] = "kill"
  /\ closer' = [closer EXCEPT ![c] = "done"]
  /\ UNCHANGED <<item, capture, chunk, polls, inputs, fd, shell>>

\* process.Kill: SIGKILL to the shell's process group; a job in a group of its
\* own survives.
CloseKills(c) ==
  /\ closer[c] = "kill"
  /\ IF slave = "shell" THEN slave' \in {"job", "closed"} ELSE UNCHANGED slave
  /\ closer' = [closer EXCEPT ![c] = "done"]
  /\ UNCHANGED <<item, capture, chunk, polls, inputs, fd, pty, typed, emitted>>

-----------------------------------------------------------------------------
CaptureStep == ReadCall \/ ReadReturns \/ ReadEnds \/ AppendChunk \/ WaitReturns

PollStep(p) ==
  PollChecks(p) \/ PollNotified(p) \/ PollTimer(p) \/ PollLast(p)

InputStep(w) == InputRefused(w) \/ InputLocks(w) \/ InputWrites(w) \/ InputReturns(w)

CloseStep(c) == CloseMarks(c) \/ CloseFile(c) \/ CloseKills(c)

Next ==
  \/ Emit \/ Consume \/ ShellEnds \/ JobEnds
  \/ CaptureStep \/ ReadFails
  \/ \E p \in Pollers : PollStarts(p) \/ PollStep(p) \/ PollCanceled(p)
  \/ \E w \in Writers : InputStarts(w) \/ InputStep(w)
  \/ \E c \in Closers : CloseStarts(c) \/ CloseStep(c)

Spec == Init /\ [][Next]_vars

\* The Go scheduler runs every goroutine that can run, sync.Mutex hands itself
\* over to a waiter that has starved (strong fairness on its acquisition), and
\* timers fire.  Nothing is assumed of the shell, nor that clients ask at all.
FairSpec ==
  /\ Spec
  /\ WF_vars(CaptureStep) /\ SF_vars(AppendChunk) /\ SF_vars(WaitReturns)
  /\ \A p \in Pollers : WF_vars(PollStep(p)) /\ SF_vars(PollChecks(p) \/ PollLast(p))
  /\ \A w \in Writers :
       WF_vars(InputStep(w)) /\ SF_vars(InputRefused(w) \/ InputLocks(w))
  /\ \A c \in Closers : WF_vars(CloseStep(c)) /\ SF_vars(CloseMarks(c))

\* In addition whoever has the slave side open keeps reading what is typed.
ReadingShellSpec == FairSpec /\ WF_vars(Consume)

-----------------------------------------------------------------------------
Captures == {"call", "reading", "append", "wait", "gone"}
Exits == {"no", "failed", "ended"}

Replies ==
  {NoReply, Failed}
    \cup [kind : {"output"}, offset : Nat, data : Seq(Nat), truncated : BOOLEAN,
          closed : BOOLEAN, exit : Exits]

StreamTypes ==
  /\ buffer \in Seq(Nat) /\ chunk \in Seq(Nat) /\ pty \in Seq(Nat)
  /\ base \in Nat /\ next \in Nat /\ emitted \in Nat /\ typed \in Nat

FlagTypes ==
  /\ closed \in BOOLEAN /\ exit \in Exits /\ capture \in Captures
  /\ fd \in {"open", "closed"} /\ slave \in {"shell", "job", "closed"}

PollTypes ==
  /\ poll \in [Pollers -> {"idle", "check", "waiting", "last"}]
  /\ asked \in [Pollers -> Nat]
  /\ woken \in [Pollers -> BOOLEAN]
  /\ reply \in [Pollers -> Replies]

CallTypes ==
  /\ mu \in Writers \cup {Free}
  /\ input \in [Writers -> {"idle", "lock", "write"}]
  /\ left \in [Writers -> Nat]
  /\ closer \in [Closers -> {"idle", "lock", "file", "kill", "done"}]

\* Besides the types: the mutex belongs to the Input that writes.
TypeOK ==
  /\ StreamTypes /\ FlagTypes /\ PollTypes /\ CallTypes
  /\ \A w \in Writers : mu = w <=> input[w] = "write"

\* The window is the end of what was captured, and capture lost nothing: the
\* window, the chunk and the pty hold one unbroken run of the stream.
WindowIsTail ==
  /\ buffer = Bytes(base, next - base) /\ Len(buffer) <= BufferBytes
  /\ buffer \o chunk \o pty = Bytes(base, emitted - base)

\* A poll never sleeps on news: if its session has something for it, the
\* channel it waits on has been closed (append, setExit and Close each replace
\* the channel in the critical section that makes the news).
NoLostWakeup ==
  \A p \in Pollers : poll[p] = "waiting" /\ Ready(asked[p]) => woken[p]

\* A reply carries the bytes its offset names, and bytes are skipped only when
\* they had left the window and the reply says so.
ReplyIsHonest ==
  \A p \in Pollers : LET r == reply[p] IN
    r.kind = "output" =>
      /\ r.data = Bytes(r.offset, Len(r.data))
      /\ r.offset >= asked[p]
      /\ r.truncated <=> r.offset > asked[p]

\* The bytes of s are those the stream has from that place on.
RunsFrom(s, from) == \A i \in 1..Len(s) : s[i] = from + i - 1

\* Window, chunk and pty follow one another in the stream, byte by byte.
StreamUnbroken ==
  /\ next = base + Len(buffer) /\ emitted = next + Len(chunk) + Len(pty)
  /\ RunsFrom(buffer, base) /\ RunsFrom(chunk, next) /\ RunsFrom(pty, next + Len(chunk))
  /\ Len(buffer) <= BufferBytes
  /\ capture # "append" => chunk = <<>>

\* Capture stops to read when the pty is at its end, when Close has closed the file,
\* or with a failure that it records at once.
StopsForAReason ==
  /\ capture \in {"call", "reading", "append"} => exit = "no"
  /\ capture \in {"wait", "gone"} /\ exit # "failed" /\ ~closed => pty = <<>> /\ slave = "closed"
  /\ fd = "closed" \/ (\E c \in Closers : closer[c] \in {"file", "kill"}) => closed

\* The inductive invariant behind the properties above and below.
SessionInv ==
  TypeOK /\ StreamUnbroken /\ StopsForAReason /\ NoLostWakeup /\ ReplyIsHonest

\* Once a client can see that the session has exited, the stream is complete: all
\* that a shell that ended by itself printed is in it, and nothing is appended.
ExitIsLast ==
  [][/\ exit # "no" => next' = next
     /\ exit' = "ended" /\ ~closed' => next' = emitted' /\ slave' = "closed"]_vars

\* handlers_terminal_poll.go:10: "an idle poll blocks for at most 1500 ms": a
\* poll that was received is answered.
PollReturns == \A p \in Pollers : poll[p] = "check" ~> poll[p] = "idle"

\* Every poll is answered, and an Input that was accepted returns.
CallsReturn == PollReturns /\ \A w \in Writers : input[w] = "lock" ~> input[w] = "idle"

\* A closed session ends: its shell is killed and reaped and capture returns,
\* unless a job in the background keeps the terminal open for ever.
CloseEndsSession == <>[](slave = "job") \/ (closed ~> capture = "gone")
=============================================================================
