------------------------ MODULE TerminalSessionProofs ------------------------
(***************************************************************************)
(* For every number of clients and every size of window, reply, read and    *)
(* pty: a session's window is the end of what was captured, a reply carries *)
(* the bytes its offset names, no poll sleeps on news, and what a client    *)
(* sees of an exit is final.                                                *)
(***************************************************************************)
EXTENDS TerminalSession, SequenceTheorems, TLAPS

LEMMA SizeFacts ==
  /\ BufferBytes \in Nat /\ BufferBytes > 0 /\ OutputBytes \in Nat /\ OutputBytes > 0
  /\ ReadBytes \in Nat /\ ReadBytes > 0 /\ PtyBytes \in Nat /\ InputBytes \in Nat /\ Stream \in Nat
BY SizesAssumption

-----------------------------------------------------------------------------
(* Runs of the stream.                                                      *)

\* A run is a stretch of the stream and nothing else.
LEMMA RunsAreBytes ==
  ASSUME NEW s \in Seq(Nat), NEW from \in Nat
  PROVE  RunsFrom(s, from) <=> s = Bytes(from, Len(s))
<1>1. /\ Len(s) \in Nat /\ s \in [1..Len(s) -> Nat]
  BY LenProperties
<1>2. \A i \in 1..Len(s) : Bytes(from, Len(s))[i] = from + i - 1
  BY DEF Bytes
<1>3. ASSUME RunsFrom(s, from) PROVE s = Bytes(from, Len(s))
  BY <1>1, <1>3 DEF RunsFrom, Bytes
<1>4. ASSUME s = Bytes(from, Len(s)) PROVE RunsFrom(s, from)
  BY <1>2, <1>4 DEF RunsFrom
<1>5. QED
  BY <1>3, <1>4

\* Two runs that meet are a run.
LEMMA ConcatRuns ==
  ASSUME NEW s \in Seq(Nat), NEW t \in Seq(Nat), NEW from \in Nat,
         RunsFrom(s, from), RunsFrom(t, from + Len(s))
  PROVE  /\ s \o t \in Seq(Nat) /\ Len(s \o t) = Len(s) + Len(t)
         /\ RunsFrom(s \o t, from)
<1>1. /\ s \o t \in Seq(Nat) /\ Len(s \o t) = Len(s) + Len(t)
      /\ \A i \in 1 .. Len(s) + Len(t) :
           (s \o t)[i] = IF i <= Len(s) THEN s[i] ELSE t[i - Len(s)]
  BY ConcatProperties
<1>2. Len(s) \in Nat /\ Len(t) \in Nat
  BY LenProperties
<1>3. ASSUME NEW i \in 1 .. Len(s) + Len(t) PROVE (s \o t)[i] = from + i - 1
  <2>1. CASE i <= Len(s)
    BY <1>1, <1>2, <2>1 DEF RunsFrom
  <2>2. CASE ~(i <= Len(s))
    <3>1. i - Len(s) \in 1 .. Len(t)
      BY <1>2, <2>2
    <3>2. t[i - Len(s)] = from + Len(s) + (i - Len(s)) - 1
      BY <3>1 DEF RunsFrom
    <3>3. (s \o t)[i] = t[i - Len(s)]
      BY <1>1, <2>2
    <3>4. QED
      BY <1>2, <3>2, <3>3
  <2>3. QED
    BY <2>1, <2>2
<1>4. QED
  BY <1>1, <1>3 DEF RunsFrom

\* A part of a run is a run.
LEMMA SubRuns ==
  ASSUME NEW s \in Seq(Nat), NEW from \in Nat, RunsFrom(s, from),
         NEW m \in Nat \ {0}, NEW n \in Nat, n <= Len(s)
  PROVE  /\ SubSeq(s, m, n) \in Seq(Nat)
         /\ Len(SubSeq(s, m, n)) = IF m <= n THEN n - m + 1 ELSE 0
         /\ RunsFrom(SubSeq(s, m, n), from + m - 1)
<1>1. Len(s) \in Nat /\ \A i \in 1..Len(s) : s[i] \in Nat
  BY LenProperties, ElementOfSeq
<1>2. \A i \in m .. n : s[i] \in Nat
  BY <1>1
<1>3. /\ SubSeq(s, m, n) \in Seq(Nat)
      /\ Len(SubSeq(s, m, n)) = IF m <= n THEN n - m + 1 ELSE 0
      /\ \A i \in 1 .. n - m + 1 : SubSeq(s, m, n)[i] = s[m + i - 1]
  BY <1>2, SubSeqProperties
<1>4. ASSUME NEW i \in 1 .. Len(SubSeq(s, m, n))
      PROVE  SubSeq(s, m, n)[i] = from + m - 1 + i - 1
  <2>1. i \in 1 .. n - m + 1 /\ m + i - 1 \in 1 .. Len(s)
    BY <1>1, <1>3
  <2>2. s[m + i - 1] = from + (m + i - 1) - 1
    BY <2>1 DEF RunsFrom
  <2>3. QED
    BY <1>3, <2>1, <2>2
<1>5. QED
  BY <1>3, <1>4 DEF RunsFrom

-----------------------------------------------------------------------------
(* The stream.                                                              *)

Elsewhere ==
  \/ Consume \/ ShellEnds \/ JobEnds \/ WaitReturns \/ ReadFails \/ ReadCall \/ ReadEnds
  \/ \E p \in Pollers : PollStarts(p) \/ PollStep(p) \/ PollCanceled(p)
  \/ \E w \in Writers : InputStarts(w) \/ InputStep(w)
  \/ \E c \in Closers : CloseStarts(c) \/ CloseStep(c)

LEMMA NextParts == Next <=> Emit \/ ReadReturns \/ AppendChunk \/ Elsewhere
BY DEF Next, CaptureStep, Elsewhere

\* Only the shell, the read and append touch the stream.
LEMMA StreamFrame ==
  ASSUME Elsewhere
  PROVE  /\ buffer' = buffer /\ base' = base /\ next' = next /\ chunk' = chunk /\ pty' = pty
         /\ emitted' = emitted /\ (capture' = "append" <=> capture = "append")
<1>1. CASE Consume \/ ShellEnds \/ JobEnds \/ WaitReturns \/ ReadFails \/ ReadCall \/ ReadEnds
  BY <1>1 DEF Consume, ShellEnds, JobEnds, WaitReturns, ReadFails, ReadCall, ReadEnds, item, window, shell
<1>2. CASE \E p \in Pollers : PollStarts(p) \/ PollStep(p) \/ PollCanceled(p)
  BY <1>2 DEF PollStarts, PollStep, PollChecks, PollNotified, PollTimer, PollLast, PollCanceled,
              item, window, shell
<1>3. CASE \E w \in Writers : InputStarts(w) \/ InputStep(w)
  BY <1>3 DEF InputStarts, InputStep, InputRefused, InputLocks, InputWrites, InputReturns,
              item, window, shell
<1>4. CASE \E c \in Closers : CloseStarts(c) \/ CloseStep(c)
  BY <1>4 DEF CloseStarts, CloseStep, CloseMarks, CloseFile, CloseKills, item, window, shell
<1>5. QED
  BY <1>1, <1>2, <1>3, <1>4 DEF Elsewhere

\* What append keeps is the end of what there was.
LEMMA AppendKeepsRun ==
  ASSUME SessionInv, AppendChunk
  PROVE  /\ buffer' \in Seq(Nat) /\ base' \in Nat /\ next' \in Nat /\ chunk' = <<>> /\ pty' = pty
         /\ emitted' = emitted /\ capture' = "call"
         /\ next' = base' + Len(buffer') /\ next' = next + Len(chunk)
         /\ RunsFrom(buffer', base') /\ Len(buffer') <= BufferBytes
<1> DEFINE all == buffer \o chunk
           d == Drop(Len(all))
<1>1. /\ buffer \in Seq(Nat) /\ chunk \in Seq(Nat) /\ base \in Nat /\ next \in Nat
      /\ next = base + Len(buffer) /\ RunsFrom(buffer, base) /\ RunsFrom(chunk, next)
  BY DEF SessionInv, TypeOK, StreamTypes, StreamUnbroken
<1>2. /\ all \in Seq(Nat) /\ Len(all) = Len(buffer) + Len(chunk) /\ RunsFrom(all, base)
  BY <1>1, ConcatRuns
<1>3. Len(all) \in Nat /\ Len(buffer) \in Nat /\ Len(chunk) \in Nat
  BY <1>1, <1>2, LenProperties
<1>4. /\ buffer' = SubSeq(all, d + 1, Len(all)) /\ base' = base + d /\ next' = next + Len(chunk)
      /\ chunk' = <<>> /\ pty' = pty /\ emitted' = emitted /\ capture' = "call"
  BY DEF AppendChunk, shell
<1> HIDE DEF all
<1>5. d \in Nat /\ d <= Len(all) /\ Len(all) - d <= BufferBytes
  BY <1>3, SizeFacts DEF Drop
<1> HIDE DEF d
<1>6. d + 1 \in Nat \ {0} /\ Len(all) <= Len(all)
  BY <1>3, <1>5
<1>7. /\ buffer' \in Seq(Nat)
      /\ Len(buffer') = IF d + 1 <= Len(all) THEN Len(all) - (d + 1) + 1 ELSE 0
      /\ RunsFrom(buffer', base + (d + 1) - 1)
  BY <1>1, <1>2, <1>3, <1>4, <1>6, SubRuns
<1>8. Len(buffer') = Len(all) - d /\ base + (d + 1) - 1 = base'
  BY <1>1, <1>3, <1>4, <1>5, <1>7
<1>9. next' = base' + Len(buffer')
  <2>1. /\ next' = next + Len(chunk) /\ next = base + Len(buffer) /\ base' = base + d
        /\ Len(buffer') = Len(all) - d /\ Len(all) = Len(buffer) + Len(chunk)
        /\ base \in Nat /\ d \in Nat /\ Len(buffer) \in Nat /\ Len(chunk) \in Nat
    BY <1>1, <1>2, <1>3, <1>4, <1>5, <1>8
  <2>2. QED
    BY <2>1
<1>10. base' \in Nat /\ next' \in Nat
  BY <1>1, <1>3, <1>4, <1>5
<1>11. QED
  BY <1>4, <1>5, <1>7, <1>8, <1>9, <1>10

\* The stream stays whole, whoever moves a part of it.
LEMMA StreamStep ==
  ASSUME SessionInv, Next
  PROVE  /\ StreamUnbroken'
         /\ buffer' \in Seq(Nat) /\ chunk' \in Seq(Nat) /\ pty' \in Seq(Nat)
         /\ base' \in Nat /\ next' \in Nat /\ emitted' \in Nat
         /\ next' >= next
<1>0. /\ buffer \in Seq(Nat) /\ chunk \in Seq(Nat) /\ pty \in Seq(Nat)
      /\ base \in Nat /\ next \in Nat /\ emitted \in Nat
      /\ StreamUnbroken
  BY DEF SessionInv, TypeOK, StreamTypes
<1>l. Len(buffer) \in Nat /\ Len(chunk) \in Nat /\ Len(pty) \in Nat
  BY <1>0, LenProperties
<1>1. CASE Emit
  <2>1. /\ pty' = Append(pty, emitted) /\ emitted' = emitted + 1
        /\ buffer' = buffer /\ base' = base /\ next' = next /\ chunk' = chunk /\ capture' = capture
    BY <1>1 DEF Emit, item, window
  <2>2. pty' \in Seq(Nat) /\ Len(pty') = Len(pty) + 1
        /\ \A i \in 1 .. Len(pty) : pty'[i] = pty[i]
    BY <1>0, <1>l, <2>1, AppendProperties
  <2>a. pty'[Len(pty) + 1] = emitted
    BY <1>0, <1>l, <2>1, AppendProperties
  <2>3. emitted = next + Len(chunk) + Len(pty)
    BY <1>0 DEF StreamUnbroken
  <2>4. RunsFrom(pty', next + Len(chunk))
    <3> SUFFICES ASSUME NEW i \in 1 .. Len(pty) + 1
                 PROVE  pty'[i] = next + Len(chunk) + i - 1
      BY <2>2 DEF RunsFrom
    <3>1. CASE i = Len(pty) + 1
      <4>1. pty'[i] = emitted
        BY <2>a, <3>1
      <4>2. QED
        BY <1>0, <1>l, <2>3, <3>1, <4>1
    <3>2. CASE i \in 1 .. Len(pty)
      BY <1>0, <2>2, <3>2 DEF StreamUnbroken, RunsFrom
    <3>3. QED
      BY <1>l, <3>1, <3>2
  <2>5. emitted' = next + Len(chunk) + Len(pty')
    BY <1>0, <1>l, <2>1, <2>2, <2>3
  <2>6. QED
    BY <1>0, <2>1, <2>2, <2>4, <2>5 DEF StreamUnbroken
<1>2. CASE ReadReturns
  <2> DEFINE n == Least(ReadBytes, Len(pty))
  <2>1. /\ chunk' = SubSeq(pty, 1, n) /\ pty' = SubSeq(pty, n + 1, Len(pty)) /\ capture' = "append"
        /\ buffer' = buffer /\ base' = base /\ next' = next /\ emitted' = emitted
        /\ capture = "reading"
    BY <1>2 DEF ReadReturns, item, window
  <2>2. n \in Nat /\ n <= Len(pty)
    BY <1>l, SizeFacts DEF Least
  <2> HIDE DEF n
  <2>3. /\ chunk = <<>> /\ RunsFrom(pty, next + Len(chunk)) /\ emitted = next + Len(chunk) + Len(pty)
        /\ next = base + Len(buffer) /\ RunsFrom(buffer, base) /\ Len(buffer) <= BufferBytes
    BY <1>0, <2>1 DEF StreamUnbroken
  <2>4. Len(chunk) = 0 /\ next + Len(chunk) = next
    BY <1>0, <2>3, EmptySeq
  <2>5. RunsFrom(pty, next) /\ emitted = next + Len(pty)
    BY <2>3, <2>4
  <2>6. chunk' \in Seq(Nat) /\ Len(chunk') = n /\ RunsFrom(chunk', next)
    <3>1. /\ SubSeq(pty, 1, n) \in Seq(Nat)
          /\ Len(SubSeq(pty, 1, n)) = IF 1 <= n THEN n - 1 + 1 ELSE 0
          /\ RunsFrom(SubSeq(pty, 1, n), next + 1 - 1)
      BY <1>0, <2>2, <2>5, SubRuns
    <3>2. next + 1 - 1 = next
      BY <1>0
    <3>3. QED
      BY <2>1, <2>2, <3>1, <3>2
  <2>7. pty' \in Seq(Nat) /\ Len(pty') = Len(pty) - n /\ RunsFrom(pty', next + n)
    <3>1. /\ SubSeq(pty, n + 1, Len(pty)) \in Seq(Nat)
          /\ Len(SubSeq(pty, n + 1, Len(pty))) =
               IF n + 1 <= Len(pty) THEN Len(pty) - (n + 1) + 1 ELSE 0
          /\ RunsFrom(SubSeq(pty, n + 1, Len(pty)), next + (n + 1) - 1)
      <4>1. n + 1 \in Nat \ {0} /\ Len(pty) <= Len(pty)
        BY <1>l, <2>2
      <4>2. QED
        BY <1>0, <1>l, <2>5, <4>1, SubRuns
    <3>2. next + (n + 1) - 1 = next + n
      BY <1>0, <2>2
    <3>3. QED
      BY <1>l, <2>1, <2>2, <3>1, <3>2
  <2>8. emitted' = next' + Len(chunk') + Len(pty')
    <3>1. /\ emitted' = next + Len(pty) /\ next' = next /\ Len(chunk') = n /\ Len(pty') = Len(pty) - n
          /\ next \in Nat /\ n \in Nat /\ Len(pty) \in Nat
      BY <1>0, <1>l, <2>1, <2>2, <2>5, <2>6, <2>7
    <3>2. QED
      BY <3>1
  <2>9. /\ RunsFrom(buffer', base') /\ RunsFrom(chunk', next') /\ RunsFrom(pty', next' + Len(chunk'))
        /\ next' = base' + Len(buffer') /\ Len(buffer') <= BufferBytes
    BY <2>1, <2>3, <2>6, <2>7
  <2>10. StreamUnbroken'
    BY <2>1, <2>8, <2>9 DEF StreamUnbroken
  <2>11. next' = next /\ next' >= next
    BY <1>0, <2>1
  <2>12. QED
    BY <1>0, <2>1, <2>6, <2>7, <2>10, <2>11
<1>3. CASE AppendChunk
  <2>1. /\ buffer' \in Seq(Nat) /\ base' \in Nat /\ next' \in Nat /\ chunk' = <<>> /\ pty' = pty
        /\ emitted' = emitted /\ capture' = "call"
        /\ next' = base' + Len(buffer') /\ next' = next + Len(chunk)
        /\ RunsFrom(buffer', base') /\ Len(buffer') <= BufferBytes
    BY <1>3, AppendKeepsRun
  <2>2. chunk' \in Seq(Nat) /\ Len(chunk') = 0
    BY <2>1, EmptySeq
  <2>3. RunsFrom(chunk', next')
    BY <2>2 DEF RunsFrom
  <2>4. next' + Len(chunk') = next + Len(chunk) /\ RunsFrom(pty, next + Len(chunk))
        /\ emitted = next + Len(chunk) + Len(pty)
    BY <1>0, <1>l, <2>1, <2>2 DEF StreamUnbroken
  <2>5. next' >= next
    BY <1>0, <1>l, <2>1
  <2>6. RunsFrom(pty', next' + Len(chunk')) /\ emitted' = next' + Len(chunk') + Len(pty')
    BY <2>1, <2>4
  <2>7. QED
    BY <1>0, <2>1, <2>2, <2>3, <2>5, <2>6 DEF StreamUnbroken
<1>4. CASE Elsewhere
  <2>1. /\ buffer' = buffer /\ base' = base /\ next' = next /\ chunk' = chunk /\ pty' = pty
        /\ emitted' = emitted /\ (capture' = "append" <=> capture = "append")
    BY <1>4, StreamFrame
  <2>2. QED
    BY <1>0, <2>1 DEF StreamUnbroken, RunsFrom
<1>5. QED
  BY <1>1, <1>2, <1>3, <1>4, NextParts

-----------------------------------------------------------------------------
(* Replies.                                                                 *)

\* What a reply says of its bytes is so.
Honest(r, off) ==
  r.kind = "output" =>
    /\ r.data = Bytes(r.offset, Len(r.data))
    /\ r.offset >= off
    /\ r.truncated <=> r.offset > off

\* Output cuts the reply out of the window at the offset it names.
LEMMA OutputFacts ==
  ASSUME SessionInv, NEW off \in Nat
  PROVE  OutputAt(off) \in Replies /\ Honest(OutputAt(off), off)
<1> DEFINE from == IF off < base THEN base ELSE off
           last == Least(from - base + OutputBytes, Len(buffer))
           data == SubSeq(buffer, from - base + 1, last)
<1>1. /\ buffer \in Seq(Nat) /\ base \in Nat /\ RunsFrom(buffer, base) /\ Len(buffer) \in Nat
      /\ closed \in BOOLEAN /\ exit \in Exits
  BY LenProperties DEF SessionInv, TypeOK, StreamTypes, FlagTypes, StreamUnbroken
<1>2. from \in Nat /\ from >= base /\ from >= off /\ (off < base <=> from > off)
  BY <1>1
<1>3. OutputAt(off) = [kind |-> "output", offset |-> from, data |-> data, truncated |-> off < base,
                       closed |-> closed, exit |-> exit]
  BY DEF OutputAt, Data, Truncated
<1> HIDE DEF from
<1>4. last \in Nat /\ last <= Len(buffer)
  BY <1>1, <1>2, SizeFacts DEF Least
<1>5. from - base + 1 \in Nat \ {0} /\ base + (from - base + 1) - 1 = from
  BY <1>1, <1>2
<1> HIDE DEF last
<1>6. data \in Seq(Nat) /\ RunsFrom(data, from)
  <2>1. SubSeq(buffer, from - base + 1, last) \in Seq(Nat)
        /\ RunsFrom(SubSeq(buffer, from - base + 1, last), base + (from - base + 1) - 1)
    BY <1>1, <1>4, <1>5, SubRuns
  <2>2. QED
    BY <1>5, <2>1
<1> HIDE DEF data
<1>7. data = Bytes(from, Len(data))
  BY <1>2, <1>6, RunsAreBytes
<1>8. OutputAt(off) \in Replies
  BY <1>1, <1>2, <1>3, <1>6 DEF Replies
<1>9. Honest(OutputAt(off), off)
  <2>1. /\ OutputAt(off).data = data /\ OutputAt(off).offset = from
        /\ OutputAt(off).truncated = (off < base)
    BY <1>3
  <2>2. QED
    BY <1>2, <1>7, <2>1 DEF Honest
<1>10. QED
  BY <1>8, <1>9

LEMMA RepliesKnown ==
  /\ NoReply \in Replies /\ Failed \in Replies
  /\ \A off : Honest(NoReply, off) /\ Honest(Failed, off)
BY DEF Replies, NoReply, Failed, Honest

\* Where a client goes on is a place in the stream.
LEMMA CursorKind ==
  ASSUME PollTypes, NEW p \in Pollers
  PROVE  Cursor(p) \in Nat
<1>1. asked[p] \in Nat /\ reply[p] \in Replies
  BY DEF PollTypes
<1>2. CASE reply[p].kind = "output"
  <2>1. reply[p].offset \in Nat /\ reply[p].data \in Seq(Nat)
    BY <1>1, <1>2 DEF Replies, NoReply, Failed
  <2>2. Len(reply[p].data) \in Nat
    BY <2>1, LenProperties
  <2>3. QED
    BY <1>2, <2>1, <2>2 DEF Cursor
<1>3. CASE reply[p].kind # "output"
  BY <1>1, <1>3 DEF Cursor
<1>4. QED
  BY <1>2, <1>3

\* What concerns the replies is done by the polls.
LEMMA PollFrame ==
  ASSUME Next, \A p \in Pollers : ~(PollStarts(p) \/ PollStep(p) \/ PollCanceled(p))
  PROVE  poll' = poll /\ asked' = asked /\ reply' = reply
<1>1. CASE Emit \/ Consume \/ ShellEnds \/ JobEnds \/ CaptureStep \/ ReadFails
  BY <1>1 DEF Emit, Consume, ShellEnds, JobEnds, CaptureStep, ReadCall, ReadReturns, ReadEnds,
              AppendChunk, WaitReturns, ReadFails, polls
<1>2. CASE \E w \in Writers : InputStarts(w) \/ InputStep(w)
  BY <1>2 DEF InputStarts, InputStep, InputRefused, InputLocks, InputWrites, InputReturns, polls
<1>3. CASE \E c \in Closers : CloseStarts(c) \/ CloseStep(c)
  BY <1>3 DEF CloseStarts, CloseStep, CloseMarks, CloseFile, CloseKills, polls
<1>4. QED
  BY <1>1, <1>2, <1>3 DEF Next

RepliesOK ==
  /\ reply \in [Pollers -> Replies] /\ asked \in [Pollers -> Nat]
  /\ poll \in [Pollers -> {"idle", "check", "waiting", "last"}]
  /\ \A p \in Pollers : Honest(reply[p], asked[p])

\* A reply is honest when it is given, and stands until its client asks again.
LEMMA ReplyStep ==
  ASSUME SessionInv, Next
  PROVE  RepliesOK'
<1>0. /\ PollTypes /\ \A p \in Pollers : Honest(reply[p], asked[p])
  BY DEF SessionInv, TypeOK, ReplyIsHonest, Honest
<1>1. /\ reply \in [Pollers -> Replies] /\ asked \in [Pollers -> Nat]
      /\ poll \in [Pollers -> {"idle", "check", "waiting", "last"}]
  BY <1>0 DEF PollTypes
<1>a. ASSUME NEW p \in Pollers, NEW r \in Replies, Honest(r, asked[p]), Answer(p, r), asked' = asked
      PROVE  RepliesOK'
  <2>1. /\ poll' = [poll EXCEPT ![p] = "idle"] /\ reply' = [reply EXCEPT ![p] = r]
    BY <1>a DEF Answer
  <2>2. QED
    BY <1>0, <1>1, <1>a, <2>1 DEF RepliesOK
<1>w. ASSUME NEW p \in Pollers, NEW s \in {"idle", "check", "waiting", "last"},
             poll' = [poll EXCEPT ![p] = s], asked' = asked, reply' = reply
      PROVE  RepliesOK'
  BY <1>0, <1>1, <1>w DEF RepliesOK
<1>2. ASSUME NEW p \in Pollers, PollStarts(p)
      PROVE  RepliesOK'
  <2>1. PICK off \in {Cursor(p), 0, Stream + 1} : asked' = [asked EXCEPT ![p] = off]
    BY <1>2 DEF PollStarts
  <2>2. off \in Nat
    BY <1>0, <2>1, CursorKind, SizeFacts
  <2>3. poll' = [poll EXCEPT ![p] = "check"] /\ reply' = [reply EXCEPT ![p] = NoReply]
    BY <1>2 DEF PollStarts
  <2>4. reply' \in [Pollers -> Replies] /\ asked' \in [Pollers -> Nat]
        /\ poll' \in [Pollers -> {"idle", "check", "waiting", "last"}]
    BY <1>1, <2>1, <2>2, <2>3, RepliesKnown
  <2>5. \A q \in Pollers : Honest(reply'[q], asked'[q])
    BY <1>0, <1>1, <2>1, <2>3, RepliesKnown
  <2>6. QED
    BY <2>4, <2>5 DEF RepliesOK
<1>3. ASSUME NEW p \in Pollers, PollChecks(p)
      PROVE  RepliesOK'
  <2>1. asked[p] \in Nat /\ asked' = asked
    BY <1>1, <1>3 DEF PollChecks
  <2>2. OutputAt(asked[p]) \in Replies /\ Honest(OutputAt(asked[p]), asked[p])
    BY <2>1, OutputFacts
  <2>3. CASE Answer(p, Failed)
    BY <1>a, <2>1, <2>3, RepliesKnown
  <2>4. CASE Answer(p, OutputAt(asked[p]))
    BY <1>a, <2>1, <2>2, <2>4
  <2>5. CASE poll' = [poll EXCEPT ![p] = "waiting"] /\ reply' = reply
    BY <1>w, <2>1, <2>5
  <2>6. QED
    BY <1>3, <2>3, <2>4, <2>5 DEF PollChecks
<1>4. ASSUME NEW p \in Pollers, PollNotified(p) \/ PollTimer(p)
      PROVE  RepliesOK'
  BY <1>w, <1>4 DEF PollNotified, PollTimer
<1>5. ASSUME NEW p \in Pollers, PollLast(p)
      PROVE  RepliesOK'
  <2>1. asked[p] \in Nat /\ asked' = asked /\ Answer(p, OutputAt(asked[p]))
    BY <1>1, <1>5 DEF PollLast
  <2>2. OutputAt(asked[p]) \in Replies /\ Honest(OutputAt(asked[p]), asked[p])
    BY <2>1, OutputFacts
  <2>3. QED
    BY <1>a, <2>1, <2>2
<1>6. ASSUME NEW p \in Pollers, PollCanceled(p)
      PROVE  RepliesOK'
  <2>1. asked' = asked /\ Answer(p, Failed)
    BY <1>6 DEF PollCanceled
  <2>2. QED
    BY <1>a, <2>1, RepliesKnown
<1>7. CASE \A p \in Pollers : ~(PollStarts(p) \/ PollStep(p) \/ PollCanceled(p))
  BY <1>0, <1>1, <1>7, PollFrame DEF RepliesOK
<1>8. QED
  BY <1>2, <1>3, <1>4, <1>5, <1>6, <1>7 DEF PollStep

-----------------------------------------------------------------------------
(* Wake-ups.                                                                *)

\* News for a poll comes with a broadcast.
LEMMA WakeStep ==
  ASSUME SessionInv, Next
  PROVE  woken' \in [Pollers -> BOOLEAN] /\ NoLostWakeup'
<1>0. /\ woken \in [Pollers -> BOOLEAN] /\ NoLostWakeup
      /\ poll \in [Pollers -> {"idle", "check", "waiting", "last"}]
      /\ asked \in [Pollers -> Nat] /\ closed \in BOOLEAN
  BY DEF SessionInv, TypeOK, PollTypes, FlagTypes
<1>b. ASSUME Broadcast PROVE woken' \in [Pollers -> BOOLEAN] /\ NoLostWakeup'
  BY <1>b DEF Broadcast, NoLostWakeup
<1>f. ASSUME woken' = woken, next' = next, closed' = closed, exit' = exit, asked' = asked,
             \A p \in Pollers : poll'[p] = "waiting" => poll[p] = "waiting"
      PROVE  woken' \in [Pollers -> BOOLEAN] /\ NoLostWakeup'
  BY <1>0, <1>f DEF NoLostWakeup, Ready
<1>s. ASSUME NEW how, SetExit(how), next' = next, closed' = closed, poll' = poll, asked' = asked
      PROVE  woken' \in [Pollers -> BOOLEAN] /\ NoLostWakeup'
  BY <1>b, <1>f, <1>s DEF SetExit
<1>1. CASE Emit \/ Consume \/ ShellEnds \/ JobEnds
  BY <1>f, <1>1 DEF Emit, Consume, ShellEnds, JobEnds, item, window, polls
<1>2. CASE ReadCall \/ ReadReturns \/ ReadEnds
  BY <1>f, <1>2 DEF ReadCall, ReadReturns, ReadEnds, item, window, polls
<1>3. CASE AppendChunk
  BY <1>b, <1>3 DEF AppendChunk
<1>4. CASE WaitReturns \/ ReadFails
  BY <1>s, <1>4 DEF WaitReturns, ReadFails, window
<1>5. ASSUME NEW p \in Pollers, PollStarts(p)
      PROVE  woken' \in [Pollers -> BOOLEAN] /\ NoLostWakeup'
  <2>1. /\ poll' = [poll EXCEPT ![p] = "check"]
        /\ woken' = woken /\ next' = next /\ closed' = closed /\ exit' = exit
        /\ \A q \in Pollers : q # p => asked'[q] = asked[q]
    BY <1>0, <1>5 DEF PollStarts, item, window
  <2>2. QED
    BY <1>0, <2>1 DEF NoLostWakeup, Ready
<1>6. ASSUME NEW p \in Pollers, PollChecks(p)
      PROVE  woken' \in [Pollers -> BOOLEAN] /\ NoLostWakeup'
  <2>1. next' = next /\ closed' = closed /\ exit' = exit /\ asked' = asked
    BY <1>6 DEF PollChecks, item, window
  <2>2. CASE poll' = [poll EXCEPT ![p] = "idle"] /\ woken' = woken
    BY <1>0, <1>f, <2>1, <2>2
  <2>3. CASE /\ ~Ready(asked[p]) /\ poll' = [poll EXCEPT ![p] = "waiting"]
             /\ woken' = [woken EXCEPT ![p] = FALSE]
    <3>1. woken' \in [Pollers -> BOOLEAN]
      BY <1>0, <2>3
    <3>2. ~Ready(asked[p])'
      BY <2>1, <2>3 DEF Ready
    <3>3. \A q \in Pollers : q # p => poll'[q] = poll[q] /\ woken'[q] = woken[q]
      BY <1>0, <2>3
    <3>4. QED
      BY <1>0, <2>1, <3>1, <3>2, <3>3 DEF NoLostWakeup, Ready
  <2>4. QED
    BY <1>6, <2>2, <2>3 DEF PollChecks, Answer
<1>7. ASSUME NEW p \in Pollers, PollNotified(p) \/ PollTimer(p) \/ PollLast(p) \/ PollCanceled(p)
      PROVE  woken' \in [Pollers -> BOOLEAN] /\ NoLostWakeup'
  <2>1. /\ woken' = woken /\ next' = next /\ closed' = closed /\ exit' = exit /\ asked' = asked
        /\ \E s \in {"check", "last", "idle"} : poll' = [poll EXCEPT ![p] = s]
    BY <1>7 DEF PollNotified, PollTimer, PollLast, PollCanceled, Answer, item, window
  <2>2. QED
    BY <1>0, <1>f, <2>1
<1>8. CASE \E w \in Writers : InputStarts(w) \/ InputStep(w)
  <2>1. woken' = woken /\ next' = next /\ closed' = closed /\ exit' = exit /\ asked' = asked /\ poll' = poll
    BY <1>8 DEF InputStarts, InputStep, InputRefused, InputLocks, InputWrites, InputReturns,
                item, window, polls
  <2>2. QED
    BY <1>f, <2>1
<1>9. ASSUME NEW c \in Closers, CloseStarts(c) \/ CloseFile(c) \/ CloseKills(c)
      PROVE  woken' \in [Pollers -> BOOLEAN] /\ NoLostWakeup'
  <2>1. woken' = woken /\ next' = next /\ closed' = closed /\ exit' = exit /\ asked' = asked /\ poll' = poll
    BY <1>9 DEF CloseStarts, CloseFile, CloseKills, item, window, polls
  <2>2. QED
    BY <1>f, <2>1
<1>10. ASSUME NEW c \in Closers, CloseMarks(c)
       PROVE  woken' \in [Pollers -> BOOLEAN] /\ NoLostWakeup'
  <2>1. next' = next /\ exit' = exit /\ asked' = asked /\ poll' = poll
    BY <1>10 DEF CloseMarks, window
  <2>2. QED
    BY <1>b, <1>f, <1>10, <2>1 DEF CloseMarks
<1>11. QED
  BY <1>1, <1>2, <1>3, <1>4, <1>5, <1>6, <1>7, <1>8, <1>9, <1>10
  DEF Next, CaptureStep, PollStep, CloseStep

-----------------------------------------------------------------------------
(* Flags and calls.                                                         *)

\* Input, and nobody else, takes the mutex over several steps.
LEMMA CallStep ==
  ASSUME SessionInv, Next
  PROVE  /\ CallTypes' /\ typed' \in Nat
         /\ \A w \in Writers : mu' = w <=> input'[w] = "write"
<1>0. /\ CallTypes /\ typed \in Nat /\ \A w \in Writers : mu = w <=> input[w] = "write"
  BY DEF SessionInv, TypeOK, StreamTypes
<1>f. ASSUME mu' = mu, input' = input, left' = left, typed' = typed,
             \/ closer' = closer
             \/ \E c \in Closers, s \in {"idle", "lock", "file", "kill", "done"} :
                  closer' = [closer EXCEPT ![c] = s]
      PROVE  /\ CallTypes' /\ typed' \in Nat
             /\ \A w \in Writers : mu' = w <=> input'[w] = "write"
  BY <1>0, <1>f DEF CallTypes
<1>1. CASE Emit \/ ShellEnds \/ JobEnds \/ CaptureStep \/ ReadFails
  BY <1>f, <1>1 DEF Emit, ShellEnds, JobEnds, CaptureStep, ReadCall, ReadReturns, ReadEnds,
                    AppendChunk, WaitReturns, ReadFails, inputs, shell
<1>2. CASE Consume
  <2>1. typed' \in Nat /\ UNCHANGED <<mu, input, left, closer>>
    BY <1>0, <1>2 DEF Consume, inputs
  <2>2. QED
    BY <1>0, <2>1 DEF CallTypes
<1>3. CASE \E p \in Pollers : PollStarts(p) \/ PollStep(p) \/ PollCanceled(p)
  <2>1. mu' = mu /\ input' = input /\ left' = left /\ typed' = typed /\ closer' = closer
    BY <1>3 DEF PollStarts, PollStep, PollChecks, PollNotified, PollTimer, PollLast, PollCanceled,
                inputs, shell
  <2>2. QED
    BY <1>f, <2>1
<1>4. ASSUME NEW w \in Writers, InputStarts(w) \/ InputStep(w)
      PROVE  /\ CallTypes' /\ typed' \in Nat
             /\ \A v \in Writers : mu' = v <=> input'[v] = "write"
  <2>1. CASE InputStarts(w) \/ InputRefused(w)
    BY <1>0, <2>1 DEF InputStarts, InputRefused, CallTypes, shell
  <2>2. CASE InputLocks(w)
    BY <1>0, <2>2, SizeFacts, FreeWriterAssumption DEF InputLocks, CallTypes, shell
  <2>3. CASE InputWrites(w)
    BY <1>0, <2>3 DEF InputWrites, CallTypes
  <2>4. CASE InputReturns(w)
    BY <1>0, <2>4, FreeWriterAssumption DEF InputReturns, CallTypes, shell
  <2>5. QED
    BY <1>4, <2>1, <2>2, <2>3, <2>4 DEF InputStep
<1>5. ASSUME NEW c \in Closers, CloseStarts(c) \/ CloseStep(c)
      PROVE  /\ CallTypes' /\ typed' \in Nat
             /\ \A w \in Writers : mu' = w <=> input'[w] = "write"
  BY <1>f, <1>5 DEF CloseStarts, CloseStep, CloseMarks, CloseFile, CloseKills, inputs, shell
<1>6. QED
  BY <1>1, <1>2, <1>3, <1>4, <1>5 DEF Next

\* Capture stops for a reason, and only Close closes the file.
LEMMA FlagStep ==
  ASSUME SessionInv, Next
  PROVE  FlagTypes' /\ StopsForAReason'
<1>0. /\ FlagTypes /\ StopsForAReason
      /\ closer \in [Closers -> {"idle", "lock", "file", "kill", "done"}]
  BY DEF SessionInv, TypeOK, CallTypes
<1>f. ASSUME closed' = closed, exit' = exit, capture' = capture, fd' = fd, slave' = slave, pty' = pty,
             closer' = closer
      PROVE  FlagTypes' /\ StopsForAReason'
  BY <1>0, <1>f DEF FlagTypes, StopsForAReason
<1>1. CASE Consume
  BY <1>f, <1>1 DEF Consume, item
<1>2. CASE Emit \/ ShellEnds \/ JobEnds
  <2>1. /\ closed' = closed /\ exit' = exit /\ capture' = capture /\ fd' = fd /\ closer' = closer
        /\ slave # "closed" /\ slave' \in {"shell", "job", "closed"}
    BY <1>0, <1>2 DEF Emit, ShellEnds, JobEnds, item, FlagTypes
  <2>2. QED
    BY <1>0, <2>1 DEF FlagTypes, StopsForAReason
<1>3. CASE ReadCall \/ ReadReturns \/ ReadEnds \/ AppendChunk
  <2>1. /\ closed' = closed /\ exit' = exit /\ fd' = fd /\ closer' = closer /\ slave' = slave
        /\ capture \in {"call", "reading", "append"}
        /\ \/ capture' \in {"call", "reading", "append"}
           \/ capture' = "wait" /\ (fd = "closed" \/ (pty' = <<>> /\ slave = "closed"))
    BY <1>3 DEF ReadCall, ReadReturns, ReadEnds, AppendChunk, item, shell
  <2>2. QED
    BY <1>0, <2>1 DEF FlagTypes, StopsForAReason, Captures
<1>4. CASE ReadFails
  <2>1. /\ closed' = closed /\ fd' = fd /\ closer' = closer /\ slave' = slave /\ pty' = pty
        /\ capture = "reading" /\ capture' = "wait" /\ (exit = "no" => exit' = "failed")
    BY <1>4 DEF ReadFails, SetExit, shell
  <2>2. exit = "no"
    BY <1>0, <2>1 DEF StopsForAReason
  <2>3. QED
    BY <1>0, <2>1, <2>2 DEF FlagTypes, StopsForAReason, Captures, Exits
<1>5. CASE WaitReturns
  <2>1. /\ closed' = closed /\ fd' = fd /\ closer' = closer /\ slave' = slave /\ pty' = pty
        /\ capture = "wait" /\ capture' = "gone"
        /\ exit' = IF exit = "no" THEN "ended" ELSE exit
    BY <1>5 DEF WaitReturns, SetExit, shell
  <2>2. QED
    BY <1>0, <2>1 DEF FlagTypes, StopsForAReason, Captures, Exits
<1>6. CASE \E p \in Pollers : PollStarts(p) \/ PollStep(p) \/ PollCanceled(p)
  <2>1. /\ closed' = closed /\ exit' = exit /\ capture' = capture /\ fd' = fd /\ slave' = slave
        /\ pty' = pty /\ closer' = closer
    BY <1>6 DEF PollStarts, PollStep, PollChecks, PollNotified, PollTimer, PollLast, PollCanceled,
                item, shell
  <2>2. QED
    BY <1>f, <2>1
<1>7. CASE \E w \in Writers : InputStarts(w) \/ InputStep(w)
  <2>1. /\ closed' = closed /\ exit' = exit /\ capture' = capture /\ fd' = fd /\ slave' = slave
        /\ pty' = pty /\ closer' = closer
    BY <1>7 DEF InputStarts, InputStep, InputRefused, InputLocks, InputWrites, InputReturns,
                item, shell
  <2>2. QED
    BY <1>f, <2>1
<1>8. ASSUME NEW c \in Closers, CloseStarts(c) \/ CloseStep(c)
      PROVE  FlagTypes' /\ StopsForAReason'
  <2>1. CASE CloseStarts(c)
    BY <1>0, <2>1 DEF CloseStarts, FlagTypes, StopsForAReason, item, shell
  <2>2. CASE CloseMarks(c)
    BY <1>0, <2>2 DEF CloseMarks, FlagTypes, StopsForAReason, item, shell
  <2>3. CASE CloseFile(c)
    BY <1>0, <2>3 DEF CloseFile, FlagTypes, StopsForAReason, item, shell
  <2>4. CASE CloseKills(c)
    BY <1>0, <2>4 DEF CloseKills, FlagTypes, StopsForAReason, item
  <2>5. QED
    BY <1>8, <2>1, <2>2, <2>3, <2>4 DEF CloseStep
<1>9. QED
  BY <1>1, <1>2, <1>3, <1>4, <1>5, <1>6, <1>7, <1>8 DEF Next, CaptureStep

-----------------------------------------------------------------------------
(* The invariant.                                                           *)

LEMMA InitInv == Init => SessionInv
<1> SUFFICES ASSUME Init PROVE SessionInv
  OBVIOUS
<1>0. /\ buffer = <<>> /\ chunk = <<>> /\ pty = <<>> /\ base = 0 /\ next = 0
      /\ emitted = 0 /\ typed = 0
      /\ closed = FALSE /\ exit = "no" /\ capture = "call" /\ fd = "open" /\ slave = "shell"
      /\ poll = [p \in Pollers |-> "idle"] /\ asked = [p \in Pollers |-> 0]
      /\ woken = [p \in Pollers |-> FALSE] /\ reply = [p \in Pollers |-> NoReply]
      /\ mu = Free /\ input = [w \in Writers |-> "idle"] /\ left = [w \in Writers |-> 0]
      /\ closer = [c \in Closers |-> "idle"]
  BY DEF Init
<1>1. StreamTypes /\ FlagTypes /\ CallTypes
  <2>1. <<>> \in Seq(Nat)
    BY EmptySeq
  <2>2. StreamTypes
    BY <1>0, <2>1 DEF StreamTypes
  <2>3. FlagTypes
    BY <1>0 DEF FlagTypes, Exits, Captures
  <2>4. CallTypes
    BY <1>0 DEF CallTypes
  <2>5. QED
    BY <2>2, <2>3, <2>4
<1>2. PollTypes
  BY <1>0, RepliesKnown DEF PollTypes
<1>3. \A w \in Writers : mu = w <=> input[w] = "write"
  BY <1>0, FreeWriterAssumption
<1>4. StreamUnbroken
  <2>1. Len(buffer) = 0 /\ Len(chunk) = 0 /\ Len(pty) = 0
    BY <1>0
  <2>2. RunsFrom(buffer, base) /\ RunsFrom(chunk, next) /\ RunsFrom(pty, next + Len(chunk))
    BY <2>1 DEF RunsFrom
  <2>3. QED
    BY <1>0, <2>1, <2>2, SizeFacts DEF StreamUnbroken
<1>5. StopsForAReason
  BY <1>0 DEF StopsForAReason
<1>6. NoLostWakeup
  BY <1>0 DEF NoLostWakeup
<1>7. ReplyIsHonest
  BY <1>0, RepliesKnown DEF ReplyIsHonest, Honest
<1>8. QED
  BY <1>1, <1>2, <1>3, <1>4, <1>5, <1>6, <1>7 DEF SessionInv, TypeOK

LEMMA StutterInv ==
  ASSUME SessionInv, UNCHANGED vars
  PROVE  SessionInv'
<1>0. /\ buffer' = buffer /\ chunk' = chunk /\ pty' = pty /\ base' = base /\ next' = next
      /\ emitted' = emitted /\ typed' = typed
      /\ closed' = closed /\ exit' = exit /\ capture' = capture /\ fd' = fd /\ slave' = slave
      /\ poll' = poll /\ asked' = asked /\ woken' = woken /\ reply' = reply
      /\ mu' = mu /\ input' = input /\ left' = left /\ closer' = closer
  BY DEF vars, item, window, polls, inputs, shell
<1>1. TypeOK'
  BY <1>0 DEF SessionInv, TypeOK, StreamTypes, FlagTypes, CallTypes, PollTypes
<1>2. StreamUnbroken'
  BY <1>0 DEF SessionInv, StreamUnbroken, RunsFrom
<1>3. StopsForAReason' /\ NoLostWakeup'
  BY <1>0 DEF SessionInv, StopsForAReason, NoLostWakeup, Ready
<1>4. ReplyIsHonest'
  BY <1>0 DEF SessionInv, ReplyIsHonest
<1>5. QED
  BY <1>1, <1>2, <1>3, <1>4 DEF SessionInv

LEMMA StepInv ==
  ASSUME SessionInv, Next
  PROVE  SessionInv'
<1>1. StreamTypes' /\ StreamUnbroken'
  BY StreamStep, CallStep DEF StreamTypes
<1>2. FlagTypes' /\ StopsForAReason'
  BY FlagStep
<1>3. woken' \in [Pollers -> BOOLEAN] /\ NoLostWakeup'
  BY WakeStep
<1>4. RepliesOK'
  BY ReplyStep
<1>5. PollTypes'
  BY <1>3, <1>4 DEF PollTypes, RepliesOK
<1>6. ReplyIsHonest'
  BY <1>4 DEF RepliesOK, ReplyIsHonest, Honest
<1>7. CallTypes' /\ \A w \in Writers : mu' = w <=> input'[w] = "write"
  BY CallStep
<1>8. TypeOK'
  BY <1>1, <1>2, <1>5, <1>7 DEF TypeOK
<1>9. QED
  BY <1>1, <1>2, <1>3, <1>6, <1>8 DEF SessionInv

\* The session's inductive invariant: the window, what was read and what the pty
\* holds are one unbroken run of what the shell printed (session.append,
\* session.capture), and capture stops only for a reason that is recorded.
THEOREM SessionInvariant == Spec => []SessionInv
<1>1. Init => SessionInv
  BY InitInv
<1>2. SessionInv /\ [Next]_vars => SessionInv'
  BY StepInv, StutterInv
<1>3. QED
  BY <1>1, <1>2, PTL DEF Spec

-----------------------------------------------------------------------------
(* The properties.                                                          *)

\* Every variable keeps its type, and item.mu belongs to the Input that writes.
THEOREM SessionTypeTheorem == Spec => []TypeOK
<1>1. SessionInv => TypeOK
  BY DEF SessionInv
<1>2. QED
  BY <1>1, SessionInvariant, PTL

LEMMA UnbrokenIsTail == SessionInv => WindowIsTail
<1> SUFFICES ASSUME SessionInv PROVE WindowIsTail
  OBVIOUS
<1>0. /\ buffer \in Seq(Nat) /\ chunk \in Seq(Nat) /\ pty \in Seq(Nat)
      /\ base \in Nat /\ next \in Nat /\ emitted \in Nat
      /\ next = base + Len(buffer) /\ emitted = next + Len(chunk) + Len(pty)
      /\ RunsFrom(buffer, base) /\ RunsFrom(chunk, next) /\ RunsFrom(pty, next + Len(chunk))
      /\ Len(buffer) <= BufferBytes
  BY DEF SessionInv, TypeOK, StreamTypes, StreamUnbroken
<1>1. Len(buffer) \in Nat /\ Len(chunk) \in Nat /\ Len(pty) \in Nat
  BY <1>0, LenProperties
<1>2. buffer = Bytes(base, next - base)
  <2>1. next - base = Len(buffer)
    BY <1>0, <1>1
  <2>2. QED
    BY <1>0, <2>1, RunsAreBytes
<1>3. /\ buffer \o chunk \in Seq(Nat) /\ Len(buffer \o chunk) = Len(buffer) + Len(chunk)
      /\ RunsFrom(buffer \o chunk, base)
  <2>1. RunsFrom(chunk, base + Len(buffer))
    BY <1>0
  <2>2. QED
    BY <1>0, <2>1, ConcatRuns
<1>4. /\ (buffer \o chunk) \o pty \in Seq(Nat)
      /\ Len((buffer \o chunk) \o pty) = Len(buffer) + Len(chunk) + Len(pty)
      /\ RunsFrom((buffer \o chunk) \o pty, base)
  <2>1. base + Len(buffer \o chunk) = next + Len(chunk)
    BY <1>0, <1>1, <1>3
  <2>2. RunsFrom(pty, base + Len(buffer \o chunk))
    BY <1>0, <2>1
  <2>3. QED
    BY <1>0, <1>3, <2>2, ConcatRuns
<1>5. (buffer \o chunk) \o pty = Bytes(base, emitted - base)
  <2>1. emitted - base = Len((buffer \o chunk) \o pty)
    BY <1>0, <1>1, <1>4
  <2>2. QED
    BY <1>0, <1>4, <2>1, RunsAreBytes
<1>6. QED
  BY <1>0, <1>2, <1>5 DEF WindowIsTail

\* The window is the last BufferBytes of what was captured, and between the window
\* and the shell no byte is lost, doubled or swapped (session.append).
THEOREM WindowTheorem == Spec => []WindowIsTail
BY UnbrokenIsTail, SessionInvariant, PTL

\* A poll that sleeps has nothing to be told, or its channel is closed already
\* (session.append, session.setExit, Manager.Close against Manager.Output).
THEOREM WakeupTheorem == Spec => []NoLostWakeup
<1>1. SessionInv => NoLostWakeup
  BY DEF SessionInv
<1>2. QED
  BY <1>1, SessionInvariant, PTL

\* A reply carries the bytes its offset names and says when some were skipped
\* (session.output).
THEOREM ReplyTheorem == Spec => []ReplyIsHonest
<1>1. SessionInv => ReplyIsHonest
  BY DEF SessionInv
<1>2. QED
  BY <1>1, SessionInvariant, PTL

\* After the exit the stream stands still, and an exit that is neither a failure nor
\* a Close comes when all that was printed is in it.
LEMMA ExitStep ==
  ASSUME SessionInv, SessionInv', [Next]_vars
  PROVE  /\ exit # "no" => next' = next
         /\ exit' = "ended" /\ ~closed' => next' = emitted' /\ slave' = "closed"
<1>1. ASSUME exit # "no" PROVE next' = next
  <2>1. capture # "append"
    BY <1>1 DEF SessionInv, StopsForAReason
  <2>2. ~AppendChunk
    BY <2>1 DEF AppendChunk
  <2>3. CASE UNCHANGED vars
    BY <2>3 DEF vars, item, window
  <2>4. CASE Emit \/ ReadReturns
    BY <2>4 DEF Emit, ReadReturns, item, window
  <2>5. CASE Elsewhere
    BY <2>5, StreamFrame
  <2>6. QED
    BY <2>2, <2>3, <2>4, <2>5, NextParts
<1>2. ASSUME exit' = "ended", ~closed' PROVE next' = emitted' /\ slave' = "closed"
  <2>1. capture' \in Captures /\ next' \in Nat
    BY DEF SessionInv, TypeOK, FlagTypes, StreamTypes
  <2>2. capture' \in {"wait", "gone"}
    BY <1>2, <2>1 DEF SessionInv, StopsForAReason, Captures
  <2>3. pty' = <<>> /\ slave' = "closed"
    BY <1>2, <2>2 DEF SessionInv, StopsForAReason
  <2>4. chunk' = <<>> /\ emitted' = next' + Len(chunk') + Len(pty')
    BY <2>2 DEF SessionInv, StreamUnbroken
  <2>5. Len(chunk') = 0 /\ Len(pty') = 0
    BY <2>3, <2>4
  <2>6. emitted' = next' + 0 + 0
    BY <2>4, <2>5
  <2>7. \A n \in Nat : n + 0 + 0 = n
    OBVIOUS
  <2>8. emitted' = next'
    BY <2>1, <2>6, <2>7, Zenon
  <2>9. QED
    BY <2>3, <2>8
<1>3. QED
  BY <1>1, <1>2

\* What a client sees of an exit is final (session.capture, session.setExit).
THEOREM ExitTheorem == Spec => ExitIsLast
<1>1. SessionInv /\ SessionInv' /\ [Next]_vars =>
        [/\ exit # "no" => next' = next
         /\ exit' = "ended" /\ ~closed' => next' = emitted' /\ slave' = "closed"]_vars
  BY ExitStep
<1>2. QED
  BY <1>1, SessionInvariant, PTL DEF Spec, ExitIsLast

=============================================================================
