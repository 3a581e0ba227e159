------------------------ MODULE ComposeUpdateProofs ------------------------
(***************************************************************************)
(* For every set of services and every bound, and whatever ps lists: the    *)
(* history of a compose project is true when it is written, of the services *)
(* that no managed operation has changed since the request itself did.      *)
(***************************************************************************)
EXTENDS ComposeUpdate, SequenceTheorems, TLAPS

\* What can be read of the containers names services and published images.
LEMMA ReadableFacts ==
  ASSUME NEW b \in Readable
  PROVE  /\ DOMAIN b \subseteq Services
         /\ \A s \in DOMAIN b : b[s].digest \in Images
<1>1. PICK names \in SUBSET Services : b \in [names -> [digest : Images, named : BOOLEAN]]
  BY DEF Readable
<1>2. DOMAIN b = names
  BY <1>1
<1>3. QED
  BY <1>1, <1>2

\* An error leaves nothing that was read.
LEMMA NothingRead == <<>> \in Readable
<1> DEFINE none == {}
<1>1. <<>> = [s \in none |-> 0]
  BY EmptySeq
<1>2. <<>> \in [none -> [digest : Images, named : BOOLEAN]]
  BY <1>1
<1>3. none \in SUBSET Services
  OBVIOUS
<1>4. QED
  BY <1>2, <1>3 DEF Readable

LEMMA ReadingsFacts == TypeOK => Readings \subseteq Readable
<1>1. SUFFICES ASSUME TypeOK PROVE Digests \in Readable
  BY NothingRead DEF Readings
<1> DEFINE names == {t \in Services : Exists(t)}
<1>2. \A s \in names : cont[s].image \in Images
  BY <1>1 DEF TypeOK
<1>3. Digests \in [names -> [digest : Images, named : BOOLEAN]]
  BY <1>2 DEF Digests
<1>4. names \in SUBSET Services
  OBVIOUS
<1>5. QED
  BY <1>3, <1>4 DEF Readable

\* What kind of request is at which stage.
LEMMA RequestFacts ==
  ASSUME TypeOK, req # None, req.stage # "hung"
  PROVE  /\ req.before \in Readable /\ req.touched \subseteq Services
         /\ req.stage \in CommandStages => req \in Working
         /\ req.stage = "record" => req \in Recording
         /\ req.stage = "mark" => req \in Marking
         /\ req \in Working \cup Recording \cup Marking
<1>1. req \in Working \cup Recording \cup Marking
  BY DEF TypeOK, Hung
<1>2. CASE req \in Working
  BY <1>2 DEF Working, CommandStages
<1>3. CASE req \in Recording
  BY <1>3 DEF Recording, CommandStages
<1>4. CASE req \in Marking
  BY <1>4 DEF Marking, CommandStages
<1>5. QED
  BY <1>1, <1>2, <1>3, <1>4

\* Going on to another command keeps the request's kind.
LEMMA GotoFacts ==
  ASSUME TypeOK, req # None, req.stage \in CommandStages,
         NEW stage \in CommandStages, NEW todo \in SUBSET Services,
         Goto(stage, todo)
  PROVE  /\ req' \in Working
         /\ req'.op = req.op /\ req'.before = req.before /\ req'.touched = req.touched
         /\ req'.stage = stage /\ req'.todo = todo
<1>1. req \in Working
  BY RequestFacts DEF CommandStages
<1>2. QED
  BY <1>1 DEF Working, Goto

\* A command that has come past a service keeps the request's kind and its stage.
LEMMA PastFacts ==
  ASSUME TypeOK, req # None, req.stage \in CommandStages, NEW s, NEW touched \in SUBSET Services,
         req' = [req EXCEPT !.todo = req.todo \ {s}, !.touched = touched]
  PROVE  /\ req' \in Working
         /\ req'.op = req.op /\ req'.before = req.before /\ req'.touched = touched
         /\ req'.stage = req.stage /\ req'.todo = req.todo \ {s}
<1>1. req \in Working
  BY RequestFacts DEF CommandStages
<1>2. QED
  BY <1>1 DEF Working

LEMMA InitInv == Init => ComposeInv
<1>1. SUFFICES ASSUME Init PROVE ComposeInv
  OBVIOUS
<1>2. 1 \in Images
  BY ComposeAssumption DEF Images
<1>3. updates \in Seq(Records) /\ Len(updates) = 0
  BY <1>1, EmptySeq DEF Init
<1>4. TypeOK
  BY <1>1, <1>2, <1>3, ComposeAssumption DEF Init, TypeOK
<1>5. StageFitsOp /\ TagsGoBack /\ ServicesFollow
  BY <1>1 DEF Init, StageFitsOp, TagsGoBack, ServicesFollow
<1>6. QED
  BY <1>4, <1>5 DEF ComposeInv

\* A request that has been answered asks nothing of the rest.
LEMMA Answered ==
  ASSUME req' = None, TypeOK'
  PROVE  ComposeInv'
<1>1. StageFitsOp' /\ TagsGoBack' /\ ServicesFollow'
  BY DEF StageFitsOp, TagsGoBack, ServicesFollow
<1>2. QED
  BY <1>1 DEF ComposeInv

LEMMA BeginStep ==
  ASSUME ComposeInv, NEW o \in {"update", "check"}, Begin(o)
  PROVE  ComposeInv'
<1>1. PICK before \in Readings : Request(o, "pull", before)
  BY DEF Begin
<1>2. before \in Readable
  BY <1>1, ReadingsFacts DEF ComposeInv
<1>3. /\ req' \in Working
      /\ req'.op = o /\ req'.stage = "pull"
  BY <1>1, <1>2, ComposeAssumption DEF Request, Working, CommandStages
<1>4. TypeOK'
  BY <1>3 DEF Begin, ComposeInv, TypeOK, host
<1>5. StageFitsOp' /\ TagsGoBack' /\ ServicesFollow'
  BY <1>3 DEF StageFitsOp, TagsGoBack, GoneBack, ServicesFollow
<1>6. QED
  BY <1>4, <1>5 DEF ComposeInv

LEMMA PullStep == ComposeInv /\ Pull => ComposeInv'
<1>1. SUFFICES ASSUME ComposeInv, Pull PROVE ComposeInv'
  OBVIOUS
<1>2. <<>> \in Readable
  BY NothingRead
<1>3. /\ req' \in Working
      /\ req'.op = "pull" /\ req'.stage = "pull"
  BY <1>1, <1>2, ComposeAssumption DEF Pull, Request, Working, CommandStages
<1>4. TypeOK'
  BY <1>1, <1>3 DEF Pull, ComposeInv, TypeOK, host
<1>5. StageFitsOp' /\ TagsGoBack' /\ ServicesFollow'
  BY <1>3 DEF StageFitsOp, TagsGoBack, GoneBack, ServicesFollow
<1>6. QED
  BY <1>4, <1>5 DEF ComposeInv

\* The newest record.
LEMMA NewestFacts ==
  ASSUME TypeOK, updates # <<>>
  PROVE  /\ updates[1] \in Records /\ updates[1].prev \in Readable
         /\ 1 \in 1..Len(updates)
<1>1. updates \in Seq(Records)
  BY DEF TypeOK
<1>2. 1 \in 1..Len(updates)
  BY <1>1, EmptySeq
<1>3. updates[1] \in Records
  BY <1>1, <1>2, ElementOfSeq
<1>4. QED
  BY <1>2, <1>3 DEF Records

LEMMA RollbackStep == ComposeInv /\ Rollback => ComposeInv'
<1>1. SUFFICES ASSUME ComposeInv, Rollback PROVE ComposeInv'
  OBVIOUS
<1> DEFINE b == updates[1].prev
<1>2. b \in Readable
  BY <1>1, NewestFacts DEF Rollback, ComposeInv
<1>3. DOMAIN b \subseteq Services
  BY <1>2, ReadableFacts
<1>4. req' = [op |-> "rollback", stage |-> "retag", before |-> b, looks |-> MaxLooks,
              touched |-> {}, todo |-> DOMAIN b]
  BY <1>1 DEF Rollback, Request
<1>5. /\ req' \in Working
      /\ req'.op = "rollback" /\ req'.stage = "retag" /\ req'.before = b
      /\ req'.todo = DOMAIN b
  <2> HIDE DEF b
  <2> QED
    BY <1>2, <1>3, <1>4, ComposeAssumption DEF Working, CommandStages
<1>6. TypeOK'
  BY <1>1, <1>5 DEF Rollback, ComposeInv, TypeOK, host
<1>7. UNCHANGED updates /\ updates # <<>>
  BY <1>1 DEF Rollback
<1>8. StageFitsOp'
  BY <1>5, <1>7 DEF StageFitsOp
<1>9. TagsGoBack' /\ ServicesFollow'
  BY <1>5 DEF TagsGoBack, GoneBack, Back, Untouched, ServicesFollow
<1>10. QED
  BY <1>6, <1>8, <1>9 DEF ComposeInv

\* A command that goes on through the services, or to the next stage, keeps the
\* rest of the types.
LEMMA GoesOn ==
  ASSUME TypeOK, req' \in Working, UNCHANGED <<registry, host, updates, found>>
  PROVE  TypeOK'
BY DEF TypeOK, host

LEMMA PullOneStep ==
  ASSUME ComposeInv, NEW s \in Services, PullOne(s)
  PROVE  ComposeInv'
<1>1. req # None /\ req.stage = "pull"
  BY DEF PullOne, At
<1>2. req \in Working
  BY <1>1, RequestFacts DEF ComposeInv, CommandStages
<1>3. req.todo \ {s} \in SUBSET Services
  BY <1>2 DEF Working
<1>4. /\ req' \in Working
      /\ req'.op = req.op /\ req'.before = req.before /\ req'.stage = "pull"
  BY <1>1, <1>3, GotoFacts DEF PullOne, ComposeInv, CommandStages
<1>5. registry[s] \in Images
  BY DEF ComposeInv, TypeOK
<1>6. TypeOK'
  BY <1>4, <1>5 DEF PullOne, ComposeInv, TypeOK
<1>7. StageFitsOp'
  BY <1>1, <1>4 DEF PullOne, ComposeInv, StageFitsOp
<1>8. TagsGoBack' /\ ServicesFollow'
  BY <1>4 DEF TagsGoBack, GoneBack, ServicesFollow
<1>9. QED
  BY <1>6, <1>7, <1>8 DEF ComposeInv

\* An answer that leaves the history alone.
LEMMA AnswerFacts ==
  ASSUME ComposeInv, Answer, UNCHANGED <<registry, host, updates>>,
         found' = None \/ found' \subseteq Services
  PROVE  ComposeInv'
<1>1. TypeOK'
  BY DEF ComposeInv, TypeOK, Answer, host
<1>2. QED
  BY <1>1, Answered DEF Answer

LEMMA PullFailsStep == ComposeInv /\ PullFails => ComposeInv'
<1>1. SUFFICES ASSUME ComposeInv, PullFails PROVE ComposeInv'
  OBVIOUS
<1>2. found' = None \/ found' \subseteq Services
  BY <1>1 DEF ComposeInv, TypeOK, PullFails
<1>3. QED
  BY <1>1, <1>2, AnswerFacts DEF PullFails

LEMMA PulledStep == ComposeInv /\ Pulled => ComposeInv'
<1>1. SUFFICES ASSUME ComposeInv, Pulled PROVE ComposeInv'
  OBVIOUS
<1>2. req # None /\ req.stage = "pull" /\ UNCHANGED <<registry, host, updates>>
  BY <1>1 DEF Pulled, At
<1>3. TypeOK
  BY <1>1 DEF ComposeInv
<1>4. CASE req.op = "update" /\ Goto("up", Services) /\ UNCHANGED found
  <2>1. /\ req' \in Working
        /\ req'.op = req.op /\ req'.stage = "up" /\ req'.todo = Services
    BY <1>2, <1>3, <1>4, GotoFacts DEF CommandStages
  <2>2. TypeOK'
    BY <1>2, <1>3, <1>4, <2>1, GoesOn
  <2>3. StageFitsOp'
    BY <1>4, <2>1 DEF StageFitsOp
  <2>4. TagsGoBack' /\ ServicesFollow'
    BY <1>4, <2>1 DEF TagsGoBack, GoneBack, ServicesFollow, UpToDate, Untouched, Exists
  <2>5. QED
    BY <2>2, <2>3, <2>4 DEF ComposeInv
<1>5. CASE req.op = "pull" /\ Answer /\ UNCHANGED found
  BY <1>1, <1>2, <1>3, <1>5, AnswerFacts DEF TypeOK
<1>6. CASE Answer /\ \E after \in Readings : found' = Differ(req.before, after)
  <2>1. PICK after \in Readings : found' = Differ(req.before, after)
    BY <1>6
  <2>2. DOMAIN req.before \subseteq Services
    BY <1>2, <1>3, RequestFacts, ReadableFacts
  <2>3. found' \subseteq Services
    BY <2>1, <2>2 DEF Differ
  <2>4. QED
    BY <1>1, <1>2, <1>6, <2>3, AnswerFacts
<1>7. QED
  BY <1>1, <1>4, <1>5, <1>6 DEF Pulled

\* Bringing one service up adds it to those that run what they are named for.
LEMMA RecreateFacts ==
  ASSUME TypeOK, NEW s \in Services, Recreate(s), UNCHANGED tag
  PROVE  /\ cont' \in [Services -> [image : Images, state : {"running", "exited", "gone"}]]
         /\ cont'[s].image = tag[s] /\ Runs(s)' /\ Exists(s)'
         /\ \A t \in Services \ {s} : cont'[t] = cont[t]
<1>1. /\ tag[s] \in Images
      /\ cont \in [Services -> [image : Images, state : {"running", "exited", "gone"}]]
  BY DEF TypeOK
<1>2. QED
  BY <1>1 DEF Recreate, Runs, Exists

LEMMA UpOneStep ==
  ASSUME ComposeInv, NEW s \in Services, UpOne(s)
  PROVE  ComposeInv'
<1> DEFINE left == IF req.stage = "up" THEN req.touched \ {s} ELSE req.touched
<1>1. /\ req # None /\ req.stage \in {"up", "reup"} /\ TypeOK
      /\ UNCHANGED <<registry, tag, updates, found>>
  BY DEF UpOne, ComposeInv
<1>2. left \in SUBSET Services
  BY <1>1, RequestFacts
<1>3. /\ req' \in Working
      /\ req'.op = req.op /\ req'.before = req.before /\ req'.touched = left
      /\ req'.stage = req.stage /\ req'.todo = req.todo \ {s}
  <2>1. req' = [req EXCEPT !.todo = req.todo \ {s}, !.touched = left]
    BY DEF UpOne
  <2> HIDE DEF left
  <2>2. QED
    BY <1>1, <1>2, <2>1, PastFacts DEF CommandStages
<1>4. /\ cont' \in [Services -> [image : Images, state : {"running", "exited", "gone"}]]
      /\ cont'[s].image = tag[s] /\ Exists(s)'
      /\ \A t \in Services \ {s} : cont'[t] = cont[t]
  BY <1>1, RecreateFacts DEF UpOne
<1>5. TypeOK'
  BY <1>1, <1>3, <1>4 DEF TypeOK
<1>6. StageFitsOp'
  BY <1>1, <1>3 DEF ComposeInv, StageFitsOp
<1>7. TagsGoBack'
  <2>1. CASE req.stage = "up"
    BY <1>3, <2>1 DEF TagsGoBack, GoneBack
  <2>2. CASE req.stage = "reup"
    BY <1>1, <1>3, <2>2 DEF ComposeInv, TagsGoBack, GoneBack, Back, Untouched
  <2>3. QED
    BY <1>1, <2>1, <2>2
<1>8. UpToDate(Services \ req.todo)
  BY <1>1 DEF ComposeInv, ServicesFollow
<1>9. ASSUME NEW t \in (Services \ (req.todo \ {s})) \ left
      PROVE  cont'[t].image = tag[t] /\ Exists(t)'
  <2>1. CASE t = s
    BY <1>4, <2>1
  <2>2. CASE t # s
    <3>1. t \in (Services \ req.todo) \ req.touched
      BY <1>9, <2>2
    <3>2. cont[t].image = tag[t] /\ Exists(t) /\ cont'[t] = cont[t]
      BY <1>4, <1>8, <2>2, <3>1 DEF UpToDate, Untouched
    <3>3. QED
      BY <3>2 DEF Exists
  <2>3. QED
    BY <2>1, <2>2
<1>10. UpToDate(Services \ req.todo)'
  <2> HIDE DEF left
  <2>1. QED
    BY <1>1, <1>3, <1>9 DEF UpToDate, Untouched
<1>11. ServicesFollow'
  BY <1>1, <1>3, <1>10 DEF ServicesFollow
<1>12. QED
  BY <1>5, <1>6, <1>7, <1>11 DEF ComposeInv

LEMMA UppedStep == ComposeInv /\ Upped => ComposeInv'
<1>1. SUFFICES ASSUME ComposeInv, Upped PROVE ComposeInv'
  OBVIOUS
<1>2. /\ req # None /\ req.stage = "up" /\ req.todo = {} /\ TypeOK
      /\ Goto("look", {}) /\ UNCHANGED <<registry, host, updates, found>>
  BY <1>1 DEF Upped, At, ComposeInv
<1>3. /\ req' \in Working
      /\ req'.op = req.op /\ req'.before = req.before /\ req'.touched = req.touched
      /\ req'.stage = "look"
  BY <1>2, GotoFacts DEF CommandStages
<1>4. TypeOK'
  BY <1>2, <1>3, GoesOn
<1>5. req.op = "update"
  BY <1>1, <1>2 DEF ComposeInv, StageFitsOp
<1>6. StageFitsOp' /\ TagsGoBack'
  BY <1>3, <1>5 DEF StageFitsOp, TagsGoBack, GoneBack
<1>7. UpToDate(Services)
  <2>1. UpToDate(Services \ req.todo)
    BY <1>1, <1>2 DEF ComposeInv, ServicesFollow
  <2>2. QED
    BY <1>2, <2>1 DEF UpToDate, Untouched, Exists
<1>8. ServicesFollow'
  BY <1>2, <1>3, <1>7 DEF ServicesFollow, UpToDate, Untouched, Exists, host
<1>9. QED
  BY <1>4, <1>6, <1>8 DEF ComposeInv

\* An update that did not come up, or did not stay up, begins to go back.
LEMMA GoesBack ==
  ASSUME ComposeInv, req # None, req.stage \in {"up", "look"}, req.op = "update",
         Goto("retag", DOMAIN req.before), UNCHANGED <<registry, host, updates, found>>
  PROVE  ComposeInv'
<1>1. TypeOK /\ DOMAIN req.before \in SUBSET Services
  BY RequestFacts, ReadableFacts DEF ComposeInv
<1>2. /\ req' \in Working
      /\ req'.op = req.op /\ req'.before = req.before
      /\ req'.stage = "retag" /\ req'.todo = DOMAIN req.before
  BY <1>1, GotoFacts DEF CommandStages
<1>3. TypeOK'
  BY <1>1, <1>2, GoesOn
<1>4. StageFitsOp' /\ ServicesFollow'
  BY <1>2 DEF StageFitsOp, ServicesFollow
<1>5. TagsGoBack'
  BY <1>2 DEF TagsGoBack, GoneBack, Back, Untouched
<1>6. QED
  BY <1>3, <1>4, <1>5 DEF ComposeInv

LEMMA UpFailsStep == ComposeInv /\ UpFails => ComposeInv'
<1>1. SUFFICES ASSUME ComposeInv, UpFails PROVE ComposeInv'
  OBVIOUS
<1>2. req # None /\ req.stage = "up"
  BY <1>1 DEF UpFails, At
<1>3. req.op = "update"
  BY <1>1, <1>2 DEF ComposeInv, StageFitsOp
<1>4. QED
  BY <1>1, <1>2, <1>3, GoesBack DEF UpFails

LEMMA LookStep == ComposeInv /\ Look => ComposeInv'
<1>1. SUFFICES ASSUME ComposeInv, Look PROVE ComposeInv'
  OBVIOUS
<1>2. /\ req # None /\ req.stage = "look" /\ req.looks > 0 /\ TypeOK
      /\ UNCHANGED <<registry, host, updates, found>>
  BY <1>1 DEF Look, At, ComposeInv
<1>3. req \in Working
  BY <1>2, RequestFacts DEF CommandStages
<1>4. req.looks - 1 \in 0..MaxLooks
  BY <1>2, <1>3, ComposeAssumption DEF Working, CommandStages
<1>5. \/ req' = [req EXCEPT !.stage = "settle", !.looks = req.looks - 1]
      \/ req' = [req EXCEPT !.looks = req.looks - 1]
  BY <1>1 DEF Look
<1>6. /\ req' \in Working
      /\ req'.op = req.op /\ req'.before = req.before /\ req'.touched = req.touched
      /\ req'.stage \in {"look", "settle"}
  BY <1>2, <1>3, <1>4, <1>5 DEF Working, CommandStages
<1>7. TypeOK'
  BY <1>2, <1>6, GoesOn
<1>8. StageFitsOp'
  BY <1>1, <1>2, <1>6 DEF ComposeInv, StageFitsOp
<1>9. TagsGoBack'
  BY <1>1, <1>2, <1>6 DEF ComposeInv, TagsGoBack, GoneBack, Back, Untouched, host
<1>10. ServicesFollow'
  BY <1>1, <1>2, <1>6 DEF ComposeInv, ServicesFollow, UpToDate, Untouched, Exists, host
<1>11. QED
  BY <1>7, <1>8, <1>9, <1>10 DEF ComposeInv

\* Before a record is written the request knows only what it ends in.
LEMMA RecordedStep ==
  ASSUME ComposeInv, req # None, req.stage # "hung", NEW outcome \in Outcomes, Recorded(outcome),
         outcome.rollback = "success" => Back(DOMAIN req.before),
         outcome.rollback # "failed" => UpToDate(Services),
         outcome.status = "success" => StaysUp,
         UNCHANGED <<registry, host, updates, found>>
  PROVE  ComposeInv'
<1>1. TypeOK /\ req.before \in Readable /\ req.touched \subseteq Services
  BY RequestFacts DEF ComposeInv
<1>2. /\ req' \in Recording
      /\ req'.op = "update" /\ req'.before = req.before
      /\ req'.stage = "record" /\ req'.outcome = outcome /\ req'.touched = req.touched
  BY <1>1 DEF Recorded, Recording
<1>3. TypeOK'
  BY <1>1, <1>2 DEF TypeOK, host
<1>4. StageFitsOp'
  BY <1>2 DEF StageFitsOp
<1>5. TagsGoBack'
  BY <1>2 DEF TagsGoBack, GoneBack, Back, Untouched, host
<1>6. ServicesFollow'
  BY <1>2 DEF ServicesFollow, UpToDate, StaysUp, Untouched, Exists, Runs, ExitsAtStart, host
<1>7. QED
  BY <1>3, <1>4, <1>5, <1>6 DEF ComposeInv

\* An update whose containers all run, with none that exits at its start.
LEMMA Healthily ==
  ASSUME ComposeInv, req # None, req.stage = "settle",
         \A s \in Untouched(Services) : ExitsAtStart(s) => ~Runs(s),
         AllRun, Healthy, UNCHANGED <<registry, host, updates, found>>
  PROVE  ComposeInv'
<1>1. UpToDate(Services) /\ req.op \in {"update", "rollback"}
  BY DEF ComposeInv, ServicesFollow, StageFitsOp
<1>2. CASE req.op = "update"
  <2>1. Outcome("success", "") \in Outcomes
    BY DEF Outcomes
  <2>2. Recorded(Outcome("success", ""))
    BY <1>2 DEF Healthy, Recorded
  <2>3. /\ Outcome("success", "").rollback = "" /\ Outcome("success", "").status = "success"
    BY DEF Outcome
  <2>4. StaysUp
    BY <1>1 DEF AllRun, Listed, StaysUp, UpToDate, Untouched
  <2> HIDE DEF Outcome
  <2>5. QED
    BY <1>1, <2>1, <2>2, <2>3, <2>4, RecordedStep
<1>3. CASE req.op = "rollback"
  <2>1. /\ req'.op = "rollback" /\ req'.stage = "mark" /\ req'.before = req.before
        /\ req' = [op |-> "rollback", stage |-> "mark", before |-> req.before,
                    touched |-> req.touched]
    BY <1>3 DEF Healthy
  <2>2. TypeOK /\ req.before \in Readable /\ req.touched \subseteq Services
    BY RequestFacts DEF ComposeInv
  <2>3. req' \in Marking
    BY <2>1, <2>2 DEF Marking
  <2>4. TypeOK'
    BY <2>2, <2>3 DEF TypeOK, host
  <2>5. StageFitsOp'
    BY <1>3, <2>1 DEF ComposeInv, StageFitsOp
  <2>6. Back(DOMAIN req.before)
    BY <1>3 DEF ComposeInv, TagsGoBack, GoneBack
  <2>7. TagsGoBack'
    BY <2>1, <2>6 DEF TagsGoBack, GoneBack, Back, Untouched, host
  <2>8. ServicesFollow'
    BY <1>1, <2>1 DEF ServicesFollow, UpToDate, Untouched, Exists, host
  <2>9. QED
    BY <2>4, <2>5, <2>7, <2>8 DEF ComposeInv
<1>4. QED
  BY <1>1, <1>2, <1>3

LEMMA SettleStep == ComposeInv /\ Settle => ComposeInv'
<1>1. SUFFICES ASSUME ComposeInv, Settle PROVE ComposeInv'
  OBVIOUS
<1>2. /\ req # None /\ req.stage = "settle" /\ TypeOK
      /\ UNCHANGED <<registry, host, updates, found>>
  BY <1>1 DEF Settle, At, ComposeInv
<1>3. CASE AllRun /\ Healthy
  BY <1>1, <1>2, <1>3, Healthily DEF Settle, Untouched
<1>4. CASE Goto("look", {})
  <2>1. /\ req' \in Working
        /\ req'.op = req.op /\ req'.before = req.before /\ req'.touched = req.touched
      /\ req'.stage = "look"
    BY <1>2, <1>4, GotoFacts DEF CommandStages
  <2>2. TypeOK'
    BY <1>2, <2>1, GoesOn
  <2>3. StageFitsOp'
    BY <1>1, <1>2, <2>1 DEF ComposeInv, StageFitsOp
  <2>4. TagsGoBack'
    BY <1>1, <1>2, <2>1 DEF ComposeInv, TagsGoBack, GoneBack, Back, Untouched, host
  <2>5. ServicesFollow'
    BY <1>1, <1>2, <2>1 DEF ComposeInv, ServicesFollow, UpToDate, Untouched, Exists, host
  <2>6. QED
    BY <2>2, <2>3, <2>4, <2>5 DEF ComposeInv
<1>5. QED
  BY <1>1, <1>3, <1>4 DEF Settle

LEMMA UnhealthyStep == ComposeInv /\ Unhealthy => ComposeInv'
<1>1. SUFFICES ASSUME ComposeInv, Unhealthy PROVE ComposeInv'
  OBVIOUS
<1>2. req # None /\ req.stage = "look"
  BY <1>1 DEF Unhealthy, At
<1>3. CASE req.op = "update"
  BY <1>1, <1>2, <1>3, GoesBack DEF Unhealthy
<1>4. CASE req.op # "update"
  BY <1>1, <1>4, AnswerFacts DEF Unhealthy, ComposeInv, TypeOK
<1>5. QED
  BY <1>3, <1>4

LEMMA RetagOneStep ==
  ASSUME ComposeInv, NEW s \in Services, RetagOne(s)
  PROVE  ComposeInv'
<1> DEFINE left == req.touched \ {s}
<1>1. /\ req # None /\ req.stage = "retag" /\ s \in req.todo /\ TypeOK
      /\ UNCHANGED <<registry, cont, updates, found>>
      /\ tag' = [tag EXCEPT ![s] = req.before[s].digest]
      /\ req' = [req EXCEPT !.todo = req.todo \ {s}, !.touched = left]
  BY DEF RetagOne, At, ComposeInv
<1>2. req.before \in Readable /\ left \in SUBSET Services
  BY <1>1, RequestFacts
<1>3. /\ req' \in Working
      /\ req'.op = req.op /\ req'.before = req.before /\ req'.touched = left
      /\ req'.stage = "retag" /\ req'.todo = req.todo \ {s}
  <2> HIDE DEF left
  <2>1. QED
    BY <1>1, <1>2, PastFacts DEF CommandStages
<1>4. s \in DOMAIN req.before
  BY <1>1 DEF ComposeInv, StageFitsOp
<1>5. req.before[s].digest \in Images
  BY <1>2, <1>4, ReadableFacts
<1>6. /\ tag' \in [Services -> Images]
      /\ tag'[s] = req.before[s].digest
      /\ \A t \in Services \ {s} : tag'[t] = tag[t]
  BY <1>1, <1>5 DEF TypeOK
<1>7. TypeOK'
  BY <1>1, <1>3, <1>6 DEF TypeOK
<1>8. StageFitsOp'
  BY <1>1, <1>3 DEF ComposeInv, StageFitsOp
<1>9. TagsGoBack'
  <2>1. Back(DOMAIN req.before \ req.todo)
    BY <1>1 DEF ComposeInv, TagsGoBack
  <2>2. DOMAIN req.before \subseteq Services
    BY <1>2, ReadableFacts
  <2>3. ASSUME NEW t \in (DOMAIN req.before \ (req.todo \ {s})) \ left
        PROVE  tag'[t] = req.before[t].digest
    <3>1. CASE t = s
      BY <1>6, <3>1
    <3>2. CASE t # s
      BY <1>6, <2>1, <2>2, <2>3, <3>2 DEF Back, Untouched
    <3>3. QED
      BY <3>1, <3>2
  <2>4. ~GoneBack'
    BY <1>3 DEF GoneBack
  <2> HIDE DEF left
  <2>5. QED
    BY <1>3, <2>3, <2>4 DEF TagsGoBack, Back, Untouched
<1>10. ServicesFollow'
  BY <1>3 DEF ServicesFollow
<1>11. QED
  BY <1>7, <1>8, <1>9, <1>10 DEF ComposeInv

LEMMA RetaggedStep == ComposeInv /\ Retagged => ComposeInv'
<1>1. SUFFICES ASSUME ComposeInv, Retagged PROVE ComposeInv'
  OBVIOUS
<1>2. /\ req # None /\ req.stage = "retag" /\ req.todo = {} /\ TypeOK
      /\ Goto("reup", Services) /\ UNCHANGED <<registry, host, updates, found>>
  BY <1>1 DEF Retagged, At, ComposeInv
<1>3. /\ req' \in Working
      /\ req'.op = req.op /\ req'.before = req.before /\ req'.touched = req.touched
      /\ req'.stage = "reup" /\ req'.todo = Services
  BY <1>2, GotoFacts DEF CommandStages
<1>4. TypeOK'
  BY <1>2, <1>3, GoesOn
<1>5. StageFitsOp'
  BY <1>1, <1>2, <1>3 DEF ComposeInv, StageFitsOp
<1>6. Back(DOMAIN req.before)
  <2>1. Back(DOMAIN req.before \ req.todo)
    BY <1>1, <1>2 DEF ComposeInv, TagsGoBack
  <2>2. QED
    BY <1>2, <2>1 DEF Back, Untouched
<1>7. TagsGoBack'
  BY <1>2, <1>3, <1>6 DEF TagsGoBack, Back, Untouched, host
<1>8. ServicesFollow'
  BY <1>3 DEF ServicesFollow, UpToDate, Untouched, Exists
<1>9. QED
  BY <1>4, <1>5, <1>7, <1>8 DEF ComposeInv

LEMMA ReuppedStep == ComposeInv /\ Reupped => ComposeInv'
<1>1. SUFFICES ASSUME ComposeInv, Reupped PROVE ComposeInv'
  OBVIOUS
<1>2. /\ req # None /\ req.stage = "reup" /\ req.todo = {} /\ TypeOK
      /\ UNCHANGED <<registry, host, updates, found>>
  BY <1>1 DEF Reupped, At, ComposeInv
<1>3. UpToDate(Services)
  <2>1. UpToDate(Services \ req.todo)
    BY <1>1, <1>2 DEF ComposeInv, ServicesFollow
  <2>2. QED
    BY <1>2, <2>1 DEF UpToDate, Untouched, Exists
<1>4. Back(DOMAIN req.before)
  BY <1>1, <1>2 DEF ComposeInv, TagsGoBack, GoneBack
<1>5. CASE req.op = "update"
  <2>1. Outcome("failed", "success") \in Outcomes
    BY DEF Outcomes
  <2>2. Recorded(Outcome("failed", "success"))
    BY <1>1, <1>5 DEF Reupped
  <2>3. Outcome("failed", "success").status # "success"
    BY DEF Outcome
  <2> HIDE DEF Outcome
  <2>4. QED
    BY <1>1, <1>2, <1>3, <1>4, <2>1, <2>2, <2>3, RecordedStep
<1>6. CASE req.op # "update"
  <2>1. req.op = "rollback"
    BY <1>1, <1>2, <1>6 DEF ComposeInv, StageFitsOp
  <2>2. Goto("look", {})
    BY <1>1, <1>6 DEF Reupped
  <2>3. /\ req' \in Working
        /\ req'.op = req.op /\ req'.before = req.before /\ req'.touched = req.touched
      /\ req'.stage = "look"
    BY <1>2, <2>2, GotoFacts DEF CommandStages
  <2>4. TypeOK'
    BY <1>2, <2>3, GoesOn
  <2>5. StageFitsOp'
    BY <1>1, <1>2, <2>3 DEF ComposeInv, StageFitsOp
  <2>6. TagsGoBack'
    BY <1>2, <1>4, <2>3 DEF TagsGoBack, Back, Untouched, host
  <2>7. ServicesFollow'
    BY <1>2, <1>3, <2>3 DEF ServicesFollow, UpToDate, Untouched, Exists, host
  <2>8. QED
    BY <2>4, <2>5, <2>6, <2>7 DEF ComposeInv
<1>7. QED
  BY <1>5, <1>6

LEMMA ScriptFailsStep == ComposeInv /\ ScriptFails => ComposeInv'
<1>1. SUFFICES ASSUME ComposeInv, ScriptFails PROVE ComposeInv'
  OBVIOUS
<1>2. /\ req # None /\ req.stage # "hung" /\ UNCHANGED <<registry, host, updates, found>>
  BY <1>1 DEF ScriptFails
<1>3. CASE req.op = "update"
  <2>1. Outcome("failed", "failed") \in Outcomes
    BY DEF Outcomes
  <2>2. Recorded(Outcome("failed", "failed"))
    BY <1>1, <1>3 DEF ScriptFails
  <2>3. /\ Outcome("failed", "failed").status # "success"
        /\ Outcome("failed", "failed").rollback = "failed"
    BY DEF Outcome
  <2> HIDE DEF Outcome
  <2>4. QED
    BY <1>1, <1>2, <2>1, <2>2, <2>3, RecordedStep
<1>4. CASE req.op # "update"
  BY <1>1, <1>2, <1>4, AnswerFacts DEF ScriptFails, ComposeInv, TypeOK
<1>5. QED
  BY <1>3, <1>4

\* The new record is the newest, and the history keeps to its length.
LEMMA PushFacts ==
  ASSUME TypeOK, NEW record \in Records, Push(record)
  PROVE  /\ updates' \in Seq(Records) /\ Len(updates') <= Keep
         /\ updates' # <<>> /\ updates'[1] = record
<1> DEFINE all == <<record>> \o updates
           n == IF Len(all) > Keep THEN Keep ELSE Len(all)
<1>1. updates \in Seq(Records) /\ Len(updates) \in Nat
  BY LenProperties DEF TypeOK
<1>2. <<record>> \in Seq(Records) /\ Len(<<record>>) = 1 /\ <<record>>[1] = record
  OBVIOUS
<1>3. /\ all \in Seq(Records) /\ Len(all) = 1 + Len(updates)
      /\ all[1] = record
  BY <1>1, <1>2, ConcatProperties
<1>4. updates' = SubSeq(all, 1, n)
  BY DEF Push
<1>5. /\ n \in Int /\ 1 <= n /\ n <= Keep /\ n <= Len(all)
  <2> HIDE DEF all
  <2> QED
    BY <1>1, <1>3, ComposeAssumption
<1> HIDE DEF all, n
<1>6. \A i \in 1..n : all[i] \in Records
  BY <1>1, <1>3, <1>5, ElementOfSeq
<1>7. /\ SubSeq(all, 1, n) \in Seq(Records)
      /\ Len(SubSeq(all, 1, n)) = n - 1 + 1
      /\ SubSeq(all, 1, n)[1] = all[1]
  BY <1>5, <1>6, SubSeqProperties
<1>8. updates' # <<>>
  BY <1>4, <1>5, <1>7, EmptySeq
<1>9. QED
  BY <1>3, <1>4, <1>5, <1>7, <1>8, ComposeAssumption

LEMMA OutcomeFacts ==
  ASSUME NEW o \in Outcomes
  PROVE  /\ Outcome(o.status, o.rollback) \in Outcomes
         /\ o.status \in {"success", "failed", "rolled_back"}
         /\ o.rollback \in {"", "success", "failed"}
         /\ o.status = "success" => o.rollback # "failed"
<1>1. CASE o = Outcome("success", "")
  <2>1. o.status = "success" /\ o.rollback = ""
    BY <1>1 DEF Outcome
  <2>2. QED
    BY <1>1, <2>1
<1>2. CASE o = Outcome("failed", "success")
  <2>1. o.status = "failed" /\ o.rollback = "success"
    BY <1>2 DEF Outcome
  <2>2. QED
    BY <1>2, <2>1
<1>3. CASE o = Outcome("failed", "failed")
  <2>1. o.status = "failed" /\ o.rollback = "failed"
    BY <1>3 DEF Outcome
  <2>2. QED
    BY <1>3, <2>1
<1>4. QED
  BY <1>1, <1>2, <1>3 DEF Outcomes

\* What is recorded of an update.
NewRecord ==
  [status |-> req.outcome.status, rollback |-> req.outcome.rollback, prev |-> req.before]

LEMMA NewRecordFacts ==
  ASSUME TypeOK, req # None, req.stage = "record"
  PROVE  /\ NewRecord \in Records
         /\ req.outcome \in Outcomes
<1>1. req.outcome \in Outcomes /\ req.before \in Readable
  BY RequestFacts DEF Recording
<1>2. /\ Outcome(req.outcome.status, req.outcome.rollback) \in Outcomes
      /\ req.outcome.status \in {"success", "failed", "rolled_back"}
      /\ req.outcome.rollback \in {"", "success", "failed"}
  BY <1>1, OutcomeFacts
<1>3. QED
  BY <1>1, <1>2 DEF NewRecord, Records

LEMMA RecordStep == ComposeInv /\ Record => ComposeInv'
<1>1. SUFFICES ASSUME ComposeInv, Record PROVE ComposeInv'
  OBVIOUS
<1>2. /\ req # None /\ req.stage = "record" /\ TypeOK
      /\ UNCHANGED <<registry, host, found>> /\ req' = None /\ Push(NewRecord)
  BY <1>1 DEF Record, At, Answer, ComposeInv, NewRecord
<1>3. NewRecord \in Records
  BY <1>2, NewRecordFacts
<1>4. updates' \in Seq(Records) /\ Len(updates') <= Keep
  BY <1>2, <1>3, PushFacts
<1>5. TypeOK'
  BY <1>2, <1>4 DEF TypeOK, host
<1>6. QED
  BY <1>2, <1>5, Answered

\* Marking a record that exists.
LEMMA MarkFacts ==
  ASSUME ComposeInv, Mark
  PROVE  /\ updates' \in Seq(Records) /\ Len(updates') = Len(updates)
         /\ updates'[1].prev = req.before
         /\ req # None /\ req.stage = "mark" /\ req.op = "rollback"
<1>1. req # None /\ req.stage = "mark" /\ TypeOK
  BY DEF Mark, At, ComposeInv
<1>2. req.op = "rollback"
  BY <1>1, RequestFacts DEF Marking
<1>3. updates # <<>> /\ req.before = updates[1].prev
  BY <1>1, <1>2 DEF ComposeInv, StageFitsOp
<1> DEFINE marked == RolledBack(updates[1])
<1>4. updates[1] \in Records /\ 1 \in 1..Len(updates)
  BY <1>1, <1>3, NewestFacts
<1>5. marked \in Records /\ marked.prev = updates[1].prev
  BY <1>4 DEF RolledBack, Records, Outcome
<1>6. updates' = [updates EXCEPT ![1] = marked]
  BY <1>3 DEF Mark
<1> HIDE DEF marked
<1>7. updates \in Seq(Records)
  BY <1>1 DEF TypeOK
<1>8. /\ updates' \in Seq(Records) /\ Len(updates') = Len(updates)
      /\ updates'[1] = marked
  BY <1>4, <1>5, <1>6, <1>7, ExceptSeq
<1>9. QED
  BY <1>1, <1>2, <1>3, <1>5, <1>8

LEMMA MarkStep == ComposeInv /\ Mark => ComposeInv'
<1>1. SUFFICES ASSUME ComposeInv, Mark PROVE ComposeInv'
  OBVIOUS
<1>2. updates' \in Seq(Records) /\ Len(updates') = Len(updates)
  BY <1>1, MarkFacts
<1>3. UNCHANGED <<registry, host, found>> /\ req' = None
  BY <1>1 DEF Mark, Answer
<1>4. TypeOK'
  BY <1>1, <1>2, <1>3 DEF ComposeInv, TypeOK, host
<1>5. QED
  BY <1>3, <1>4, Answered

LEMMA CrashStep == ComposeInv /\ (Crash \/ CrashWhileSaving) => ComposeInv'
<1>1. CASE ComposeInv /\ Crash
  BY <1>1, AnswerFacts DEF Crash, ComposeInv, TypeOK
<1>2. CASE ComposeInv /\ CrashWhileSaving
  <2>1. /\ req' = None /\ updates' = <<>> /\ UNCHANGED <<registry, host, found>>
    BY <1>2 DEF CrashWhileSaving, Answer
  <2>2. updates' \in Seq(Records) /\ Len(updates') = 0
    BY <2>1, EmptySeq
  <2>3. TypeOK'
    BY <1>2, <2>1, <2>2, ComposeAssumption DEF ComposeInv, TypeOK, host
  <2>4. QED
    BY <2>1, <2>3, Answered
<1>3. QED
  BY <1>1, <1>2

LEMMA PublishStep ==
  ASSUME ComposeInv, NEW s \in Services, Publish(s)
  PROVE  ComposeInv'
<1>1. registry[s] + 1 \in Images
  BY ComposeAssumption DEF Publish, ComposeInv, TypeOK, Images
<1>2. UNCHANGED <<host, updates, req>> /\ found' = None
  BY DEF Publish
<1>3. TypeOK'
  BY <1>1, <1>2 DEF Publish, ComposeInv, TypeOK, host
<1>4. StageFitsOp' /\ TagsGoBack' /\ ServicesFollow'
  BY <1>2 DEF ComposeInv, StageFitsOp, TagsGoBack, GoneBack, Back, ServicesFollow, UpToDate,
              StaysUp, Untouched, Exists, Runs, ExitsAtStart, host
<1>5. QED
  BY <1>3, <1>4 DEF ComposeInv

\* Only an image that exits at its start does, and no service's image changes.
LEMMA ExitStep ==
  ASSUME ComposeInv, NEW s \in Services, Exit(s)
  PROVE  ComposeInv'
<1>1. /\ UNCHANGED <<registry, tag, updates, req>> /\ found' = None /\ TypeOK
      /\ ExitsAtStart(s) /\ Runs(s)
      /\ cont' = [cont EXCEPT ![s].state = "exited"]
  BY DEF Exit, ComposeInv
<1>2. /\ cont' \in [Services -> [image : Images, state : {"running", "exited", "gone"}]]
      /\ \A t \in Services : cont'[t].image = cont[t].image
      /\ \A t \in Services \ {s} : cont'[t] = cont[t]
      /\ cont'[s].state = "exited"
  BY <1>1 DEF TypeOK
<1>3. TypeOK'
  BY <1>1, <1>2 DEF TypeOK
<1>4. StageFitsOp' /\ TagsGoBack'
  BY <1>1 DEF ComposeInv, StageFitsOp, TagsGoBack, GoneBack, Back, Untouched
<1>5. \A t \in Services : Exists(t) => Exists(t)'
  BY <1>2 DEF Exists
<1>6. \A W \in SUBSET Services : UpToDate(W) => UpToDate(W)'
  BY <1>1, <1>2, <1>5 DEF UpToDate, Untouched
<1>7. ASSUME StaysUp PROVE StaysUp'
  <2>1. s \in req.touched
    BY <1>1, <1>7 DEF StaysUp, Untouched
  <2>2. req' = req
    BY <1>1
  <2>3. \A t \in Untouched(Services) : cont'[t] = cont[t]
    BY <1>2, <2>1 DEF Untouched
  <2>4. QED
    BY <1>7, <2>1, <2>2, <2>3 DEF StaysUp, Untouched, Runs, ExitsAtStart
<1>8. ServicesFollow'
  <2> USE <1>1
  <2>1. ASSUME req # None, req.stage \in {"up", "reup"} PROVE UpToDate(Services \ req.todo)'
    BY <1>6, <2>1 DEF ComposeInv, ServicesFollow, UpToDate, Untouched
  <2>2. UpToDate(Services) => UpToDate(Services)'
    BY <1>6
  <2>3. QED
    BY <1>7, <2>1, <2>2 DEF ComposeInv, ServicesFollow
<1>9. QED
  BY <1>3, <1>4, <1>8 DEF ComposeInv

\* A managed operation changes one service, of which the request says nothing from then on.
LEMMA TouchedFacts ==
  ASSUME TypeOK, NEW s \in Services, Touched(s)
  PROVE  /\ req' \in Working \cup Recording \cup Marking \cup {Hung, None}
         /\ req # None /\ req.stage # "hung" =>
              /\ req'.stage = req.stage /\ req'.op = req.op /\ req'.before = req.before
              /\ req'.touched = req.touched \cup {s}
              /\ req.stage \in CommandStages => req'.todo = req.todo
              /\ req.stage = "record" => req'.outcome = req.outcome
         /\ req # None /\ req.stage = "hung" => req' = req
         /\ req = None => req' = None
<1>1. CASE req \in {None, Hung}
  BY <1>1 DEF Touched, TypeOK, Hung
<1>2. CASE req \notin {None, Hung}
  <2> DEFINE more == req.touched \cup {s}
  <2>1. req' = [req EXCEPT !.touched = more]
    BY <1>2 DEF Touched
  <2>2. req \in Working \cup Recording \cup Marking
    BY <1>2 DEF TypeOK
  <2>3. req.stage # "hung" /\ more \in SUBSET Services
    BY <2>2 DEF Working, Recording, Marking, CommandStages
  <2> HIDE DEF more
  <2>4. CASE req \in Working
    <3>1. req' \in Working /\ req'.touched = more /\ req'.todo = req.todo
      BY <2>1, <2>3, <2>4 DEF Working
    <3>2. req'.stage = req.stage /\ req'.op = req.op /\ req'.before = req.before
      BY <2>1, <2>4 DEF Working
    <3>3. req.stage # "record"
      BY <2>4 DEF Working, CommandStages
    <3>4. QED
      BY <1>2, <2>3, <3>1, <3>2, <3>3 DEF more
  <2>5. CASE req \in Recording
    <3>1. req' \in Recording /\ req'.touched = more /\ req'.outcome = req.outcome
      BY <2>1, <2>3, <2>5 DEF Recording
    <3>2. req'.stage = req.stage /\ req'.op = req.op /\ req'.before = req.before
      BY <2>1, <2>5 DEF Recording
    <3>3. req.stage \notin CommandStages
      BY <2>5 DEF Recording, CommandStages
    <3>4. QED
      BY <1>2, <2>3, <3>1, <3>2, <3>3 DEF more
  <2>6. CASE req \in Marking
    <3>1. req' \in Marking /\ req'.touched = more
      BY <2>1, <2>3, <2>6 DEF Marking
    <3>2. req'.stage = req.stage /\ req'.op = req.op /\ req'.before = req.before
      BY <2>1, <2>6 DEF Marking
    <3>3. req.stage \notin CommandStages /\ req.stage # "record"
      BY <2>6 DEF Marking, CommandStages
    <3>4. QED
      BY <1>2, <2>3, <3>1, <3>2, <3>3 DEF more
  <2>7. QED
    BY <2>2, <2>4, <2>5, <2>6
<1>3. QED
  BY <1>1, <1>2

LEMMA TouchedStep ==
  ASSUME ComposeInv, NEW s \in Services, Touched(s),
         tag' \in [Services -> Images],
         cont' \in [Services -> [image : Images, state : {"running", "exited", "gone"}]],
         \A t \in Services \ {s} : tag'[t] = tag[t] /\ cont'[t] = cont[t],
         UNCHANGED <<registry, updates>>, found' = None
  PROVE  ComposeInv'
<1>1. TypeOK
  BY DEF ComposeInv
<1>2. TypeOK'
  BY <1>1, TouchedFacts DEF TypeOK
<1>3. CASE req = None
  <2>1. req' = None
    BY <1>1, <1>3, TouchedFacts
  <2>2. QED
    BY <1>2, <2>1, Answered
<1>4. CASE req # None /\ req.stage = "hung"
  <2>1. req' = req
    BY <1>1, <1>4, TouchedFacts
  <2>2. StageFitsOp' /\ TagsGoBack' /\ ServicesFollow'
    BY <1>4, <2>1 DEF StageFitsOp, TagsGoBack, GoneBack, ServicesFollow
  <2>3. QED
    BY <1>2, <2>2 DEF ComposeInv
<1>5. CASE req # None /\ req.stage # "hung"
  <2>1. /\ req'.stage = req.stage /\ req'.op = req.op /\ req'.before = req.before
        /\ req'.touched = req.touched \cup {s}
        /\ req.stage \in CommandStages => req'.todo = req.todo
        /\ req.stage = "record" => req'.outcome = req.outcome
    BY <1>1, <1>5, TouchedFacts
  <2>2. StageFitsOp'
    BY <1>5, <2>1 DEF ComposeInv, StageFitsOp, CommandStages
  <2>3. DOMAIN req.before \subseteq Services
    BY <1>1, <1>5, RequestFacts, ReadableFacts
  <2>4. \A W \in SUBSET Services : Back(W) => Back(W)'
    BY <2>1 DEF Back, Untouched
  <2>5. ASSUME NEW t \in Services \ {s}
        PROVE  /\ Exists(t) => Exists(t)'
               /\ Runs(t)' <=> Runs(t)
               /\ ExitsAtStart(t)' <=> ExitsAtStart(t)
    BY <2>5 DEF Exists, Runs, ExitsAtStart
  <2>6. \A W \in SUBSET Services : UpToDate(W) => UpToDate(W)'
    BY <2>1, <2>5 DEF UpToDate, Untouched
  <2>7. StaysUp => StaysUp'
    BY <2>1, <2>5 DEF StaysUp, Untouched
  <2>8. TagsGoBack'
    <3>1. ASSUME req.stage = "retag" PROVE Back(DOMAIN req.before \ req.todo)'
      <4>1. Back(DOMAIN req.before \ req.todo)
        BY <1>5, <3>1 DEF ComposeInv, TagsGoBack
      <4>2. req'.todo = req.todo
        BY <2>1, <3>1 DEF CommandStages
      <4>3. QED
        BY <2>1, <2>3, <4>1, <4>2 DEF Back, Untouched
    <3>2. ASSUME GoneBack' PROVE Back(DOMAIN req.before)'
      <4>1. GoneBack
        BY <2>1, <3>2 DEF GoneBack
      <4>2. Back(DOMAIN req.before)
        BY <1>5, <4>1 DEF ComposeInv, TagsGoBack
      <4>3. QED
        BY <2>1, <2>3, <4>2 DEF Back, Untouched
    <3>3. QED
      BY <2>1, <3>1, <3>2 DEF TagsGoBack
  <2>9. ServicesFollow'
    <3>1. ASSUME req.stage \in {"up", "reup"} PROVE UpToDate(Services \ req.todo)'
      <4>1. UpToDate(Services \ req.todo)
        BY <1>5, <3>1 DEF ComposeInv, ServicesFollow
      <4>2. req'.todo = req.todo
        BY <2>1, <3>1 DEF CommandStages
      <4>3. QED
        BY <2>1, <2>5, <4>1, <4>2 DEF UpToDate, Untouched
    <3>2. UpToDate(Services) => UpToDate(Services)'
      BY <2>6
    <3>3. QED
      BY <1>5, <2>1, <2>7, <3>1, <3>2 DEF ComposeInv, ServicesFollow
  <2>10. QED
    BY <1>2, <2>2, <2>8, <2>9 DEF ComposeInv
<1>6. QED
  BY <1>3, <1>4, <1>5

LEMMA ManagedStep ==
  ASSUME ComposeInv, NEW s \in Services, Managed(s)
  PROVE  ComposeInv'
<1>1. TypeOK /\ registry[s] \in Images
  BY DEF ComposeInv, TypeOK
<1>2. CASE ManagedPull(s)
  BY <1>1, <1>2, TouchedStep DEF ManagedPull, TypeOK
<1>3. CASE ManagedUp(s)
  BY <1>1, <1>3, RecreateFacts, TouchedStep DEF ManagedUp, TypeOK
<1>4. CASE ManagedCompose(s)
  <2>1. PICK state \in {"running", "exited", "gone"} : cont' = [cont EXCEPT ![s].state = state]
    BY <1>4 DEF ManagedCompose
  <2>2. /\ cont' \in [Services -> [image : Images, state : {"running", "exited", "gone"}]]
        /\ \A t \in Services \ {s} : cont'[t] = cont[t]
    BY <1>1, <2>1 DEF TypeOK
  <2>3. Touched(s) /\ found' = None /\ UNCHANGED <<registry, tag, updates>>
    BY <1>4 DEF ManagedCompose
  <2>4. tag' \in [Services -> Images]
    BY <1>1, <2>3 DEF TypeOK
  <2>5. QED
    BY <2>2, <2>3, <2>4, TouchedStep
<1>5. QED
  BY <1>2, <1>3, <1>4 DEF Managed

\* A command that hangs ends what the request can say.
LEMMA HangStep == ComposeInv /\ Hang => ComposeInv'
<1>1. SUFFICES ASSUME ComposeInv, Hang PROVE ComposeInv'
  OBVIOUS
<1>2. req' = Hung /\ UNCHANGED <<registry, host, updates, found>> /\ Hung.stage = "hung"
  BY <1>1 DEF Hang, Hung
<1>3. TypeOK'
  BY <1>1, <1>2 DEF ComposeInv, TypeOK, host
<1>4. StageFitsOp' /\ TagsGoBack' /\ ServicesFollow'
  BY <1>2 DEF StageFitsOp, TagsGoBack, GoneBack, ServicesFollow
<1>5. QED
  BY <1>3, <1>4 DEF ComposeInv

LEMMA StutterStep == ComposeInv /\ UNCHANGED vars => ComposeInv'
BY DEF vars, host, ComposeInv, TypeOK, StageFitsOp, TagsGoBack, GoneBack, Back, ServicesFollow,
       UpToDate, StaysUp, Untouched, Exists, Runs, ExitsAtStart

LEMMA NextStep == ComposeInv /\ [Next]_vars => ComposeInv'
<1>1. SUFFICES ASSUME ComposeInv, [Next]_vars PROVE ComposeInv'
  OBVIOUS
<1>2. ASSUME NEW o \in {"update", "check"}, Begin(o) PROVE ComposeInv'
  BY <1>1, <1>2, BeginStep
<1>3. CASE Pull \/ Rollback
  BY <1>1, <1>3, PullStep, RollbackStep
<1>4. CASE RequestStep
  <2>1. ASSUME NEW s \in Services, PullOne(s) \/ UpOne(s) \/ RetagOne(s) PROVE ComposeInv'
    BY <1>1, <2>1, PullOneStep, UpOneStep, RetagOneStep
  <2>2. CASE PullFails \/ Pulled \/ Upped \/ UpFails \/ Look \/ Settle \/ Unhealthy
    BY <1>1, <2>2, PullFailsStep, PulledStep, UppedStep, UpFailsStep, LookStep, SettleStep,
       UnhealthyStep
  <2>3. CASE Retagged \/ Reupped \/ ScriptFails \/ Record \/ Mark
    BY <1>1, <2>3, RetaggedStep, ReuppedStep, ScriptFailsStep, RecordStep, MarkStep
  <2>4. QED
    BY <1>4, <2>1, <2>2, <2>3 DEF RequestStep
<1>5. CASE Hang \/ Crash \/ CrashWhileSaving
  BY <1>1, <1>5, HangStep, CrashStep
<1>6. ASSUME NEW s \in Services, Publish(s) \/ Exit(s) PROVE ComposeInv'
  BY <1>1, <1>6, PublishStep, ExitStep
<1>7. ASSUME NEW s \in Beside, Managed(s) PROVE ComposeInv'
  BY <1>1, <1>7, ManagedStep, ComposeAssumption
<1>8. CASE UNCHANGED vars
  BY <1>1, <1>8, StutterStep
<1>9. QED
  BY <1>1, <1>2, <1>3, <1>4, <1>5, <1>6, <1>7, <1>8 DEF Next

\* Types, stages, tags and services: the inductive invariant of compose.go.
THEOREM ComposeInvariant == Spec => []ComposeInv
<1>1. QED
  BY InitInv, NextStep, PTL DEF Spec

\* The history keeps at most Keep records, each of a kind an update can end in, and
\* a request is always at a stage it can be in (compose.go:352-366).
THEOREM ComposeTypeTheorem == Spec => []TypeOK
<1>1. ComposeInv => TypeOK
  BY DEF ComposeInv
<1>2. QED
  BY <1>1, ComposeInvariant, PTL

\* Only two steps write a history that is not empty.
LEMMA OnlyTwoWrite ==
  ASSUME [Next]_vars, Written
  PROVE  Record \/ Mark
<1>1. ASSUME NEW o \in {"update", "check"}, Begin(o) PROVE FALSE
  BY <1>1 DEF Begin, Written
<1>2. CASE Pull \/ Rollback
  BY <1>2 DEF Pull, Rollback, Written
<1>3. CASE RequestStep
  <2>1. ASSUME NEW s \in Services, PullOne(s) \/ UpOne(s) \/ RetagOne(s) PROVE FALSE
    BY <2>1 DEF PullOne, UpOne, RetagOne, Written
  <2>2. CASE PullFails \/ Pulled \/ Upped \/ UpFails \/ Look \/ Settle \/ Unhealthy
    BY <2>2 DEF PullFails, Pulled, Upped, UpFails, Look, Settle, Unhealthy, Written
  <2>3. CASE Retagged \/ Reupped \/ ScriptFails
    BY <2>3 DEF Retagged, Reupped, ScriptFails, Written
  <2>4. QED
    BY <1>3, <2>1, <2>2, <2>3 DEF RequestStep
<1>4. CASE Hang \/ Crash \/ CrashWhileSaving
  BY <1>4 DEF Hang, Crash, CrashWhileSaving, Written
<1>5. ASSUME NEW s \in Services, Publish(s) \/ Exit(s) PROVE FALSE
  BY <1>5 DEF Publish, Exit, Written
<1>6. ASSUME NEW s \in Beside, Managed(s) PROVE FALSE
  BY <1>6 DEF Managed, ManagedPull, ManagedUp, ManagedCompose, Written
<1>7. CASE UNCHANGED vars
  BY <1>7 DEF vars, Written
<1>8. QED
  BY <1>1, <1>2, <1>3, <1>4, <1>5, <1>6, <1>7 DEF Next

\* What a record that is about to be written rests on.
LEMMA RecordWrites ==
  ASSUME ComposeInv, Record
  PROVE  /\ req # None /\ req.stage = "record" /\ req.outcome \in Outcomes
         /\ updates'[1].rollback = req.outcome.rollback /\ updates'[1].prev = req.before
         /\ DOMAIN req.before \subseteq Services
<1>1. req # None /\ req.stage = "record" /\ TypeOK /\ Push(NewRecord)
  BY DEF Record, At, ComposeInv, NewRecord
<1>2. NewRecord \in Records /\ req.outcome \in Outcomes
  BY <1>1, NewRecordFacts
<1>3. updates'[1] = NewRecord
  BY <1>1, <1>2, PushFacts
<1>4. DOMAIN req.before \subseteq Services
  BY <1>1, RequestFacts, ReadableFacts
<1>5. QED
  BY <1>1, <1>2, <1>3, <1>4 DEF NewRecord

LEMMA RollbackStepWrites ==
  ASSUME ComposeInv, [Next]_vars
  PROVE  RollbackWritten
<1>1. SUFFICES ASSUME Written, updates'[1].rollback = "success",
                      NEW s \in Untouched(DOMAIN updates'[1].prev)
               PROVE  /\ cont[s].image = updates'[1].prev[s].digest
                      /\ tag[s] = updates'[1].prev[s].digest
  BY DEF RollbackWritten
<1>2. CASE Record
  <2>1. /\ req # None /\ req.stage = "record" /\ req.outcome.rollback = "success"
        /\ updates'[1].prev = req.before /\ DOMAIN req.before \subseteq Services
    BY <1>1, <1>2, RecordWrites
  <2>2. Back(DOMAIN req.before) /\ UpToDate(Services)
    BY <2>1 DEF ComposeInv, TagsGoBack, GoneBack, ServicesFollow
  <2>3. QED
    BY <1>1, <2>1, <2>2 DEF Back, UpToDate, Untouched
<1>3. CASE Mark
  <2>1. /\ req # None /\ req.stage = "mark" /\ req.op = "rollback"
        /\ updates'[1].prev = req.before
    BY <1>3, MarkFacts
  <2>2. DOMAIN req.before \subseteq Services
    BY <2>1, RequestFacts, ReadableFacts DEF ComposeInv
  <2>3. Back(DOMAIN req.before) /\ UpToDate(Services)
    BY <2>1 DEF ComposeInv, TagsGoBack, GoneBack, ServicesFollow
  <2>4. QED
    BY <1>1, <2>1, <2>2, <2>3 DEF Back, UpToDate, Untouched
<1>4. QED
  BY <1>1, <1>2, <1>3, OnlyTwoWrite

LEMMA UpdateStepWrites ==
  ASSUME ComposeInv
  PROVE  UpdateWritten
<1>1. SUFFICES ASSUME Written, At("record"), req.outcome.status = "success"
               PROVE  UpToDate(Services) /\ StaysUp
  BY DEF UpdateWritten
<1>2. req # None /\ req.stage = "record" /\ TypeOK
  BY <1>1 DEF At, ComposeInv
<1>3. req.outcome.rollback # "failed"
  BY <1>1, <1>2, NewRecordFacts, OutcomeFacts
<1>4. QED
  BY <1>1, <1>2, <1>3 DEF ComposeInv, ServicesFollow

\* A rollback in the history happened: every service that no managed operation has changed
\* since the rollback's script came past it ran the image that the record names, and the
\* host's tags named it.
THEOREM RollbackTheorem == Spec => [][RollbackWritten]_vars
<1>1. ComposeInv /\ [Next]_vars => [RollbackWritten]_vars
  BY RollbackStepWrites
<1>2. QED
  BY <1>1, ComposeInvariant, PTL DEF Spec

\* The history is true when it is written, of every service that no managed operation has
\* changed since the request did, and whether or not ps lists what has exited: it says of
\* an update less when ps does not.
THEOREM HistoryTheorem == Spec => HistoryIsTrue
<1>1. ComposeInv /\ [Next]_vars => [RollbackWritten /\ UpdateWritten]_vars
  BY RollbackStepWrites, UpdateStepWrites
<1>2. QED
  BY <1>1, ComposeInvariant, PTL DEF Spec, HistoryIsTrue
=============================================================================
