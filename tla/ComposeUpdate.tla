---------------------------- MODULE ComposeUpdate ----------------------------
(***************************************************************************)
(* internal/compose: updating a compose project of the host and going back. *)
(* The requests hold the "compose" lock and so run one at a time; what they *)
(* meet are images that do not stay up, commands that fail half way or      *)
(* never end, managed compose operations on the same project, whose lock is *)
(* another, and crashes of the agent.  Every service has an image name of   *)
(* its own, and its images are numbered in the order they are published.    *)
(***************************************************************************)
EXTENDS Naturals, Sequences

CONSTANTS
  Services,
  Latest,         \* bound: images 1..Latest are published for each service
  Broken,         \* the services and images whose container exits within 3 s of its start
  Keep,           \* the records kept for a project, 5 in the code
  MaxLooks,       \* bound: how often the health check looks, 20 in the code
  Beside,         \* bound: the services that managed operations change
  PsListsExited,  \* "compose ps" lists the containers that have exited: it is asked
                  \* without -a, and leaves them out in the versions of today
  None

ASSUME ComposeAssumption ==
  /\ Latest \in Nat \ {0} /\ Keep \in Nat \ {0} /\ MaxLooks \in Nat
  /\ Broken \subseteq Services \X (2..Latest)
  /\ Beside \subseteq Services /\ PsListsExited \in BOOLEAN

VARIABLES
  registry,  \* the image each service's name stands for in the registry
  tag,       \* the one it stands for on the host
  cont,      \* the container of each service
  updates,   \* ProjectState.Updates, newest first, in memory and on disk
  req,       \* the request that holds the lock; "touched" is a history of it: the
             \* services that a managed operation has changed behind its back
  found      \* the updates the last check reported, until anything changes

host == <<tag, cont>>
vars == <<registry, host, updates, req, found>>

Images == 1..Latest

Init ==
  /\ registry = [s \in Services |-> 1] /\ tag = registry
  /\ cont = [s \in Services |-> [image |-> 1, state |-> "running"]]
  /\ updates = <<>> /\ req = None /\ found = None

Exists(s) == cont[s].state # "gone"
Runs(s) == cont[s].state = "running"
ExitsAtStart(s) == <<s, cont[s].image>> \in Broken

\* serviceDigests: the image of each container there is; it has no name left when
\* its name has been pulled anew.
Digests ==
  [s \in {t \in Services : Exists(t)} |->
     [digest |-> cont[s].image, named |-> cont[s].image = tag[s]]]

\* Its error is dropped everywhere.
Readings == {Digests, <<>>}

At(stage) == req # None /\ req.stage = stage

Goto(stage, todo) == req' = [req EXCEPT !.stage = stage, !.todo = todo]

Answer == req' = None

\* resolveProject: compose knows a project by its containers.
Known == \E s \in Services : Exists(s)

-----------------------------------------------------------------------------
Request(op, stage, before) ==
  req' = [op |-> op, stage |-> stage, before |-> before, looks |-> MaxLooks,
          touched |-> {},
          todo |-> IF stage = "pull" THEN Services ELSE DOMAIN before]

\* Update and CheckUpdate note what runs before they pull.
Begin(op) ==
  /\ req = None /\ Known
  /\ \E before \in Readings : Request(op, "pull", before)
  /\ found' = None
  /\ UNCHANGED <<registry, host, updates>>

Pull ==
  /\ req = None /\ Known
  /\ Request("pull", "pull", <<>>)
  /\ found' = None
  /\ UNCHANGED <<registry, host, updates>>

\* Rollback goes back to what the newest record says ran before it.
Rollback ==
  /\ req = None /\ Known
  /\ updates # <<>> /\ updates[1].prev # <<>>
  /\ Request("rollback", "retag", updates[1].prev)
  /\ found' = None
  /\ UNCHANGED <<registry, host, updates>>

\* compose pull, service by service.
PullOne(s) ==
  /\ At("pull") /\ s \in req.todo
  /\ tag' = [tag EXCEPT ![s] = registry[s]]
  /\ Goto("pull", req.todo \ {s})
  /\ UNCHANGED <<registry, cont, updates, found>>

\* A pull that fails leaves what was pulled, and no record.
PullFails ==
  /\ At("pull")
  /\ Answer
  /\ UNCHANGED <<registry, host, updates, found>>

\* CheckUpdate's answer: the services of which the second reading differs.
Differ(before, after) ==
  {s \in DOMAIN before \cap DOMAIN after : after[s].digest # before[s].digest}

Pulled ==
  /\ At("pull") /\ req.todo = {}
  /\ \/ req.op = "update" /\ Goto("up", Services) /\ UNCHANGED found
     \/ req.op = "pull" /\ Answer /\ UNCHANGED found
     \/ /\ req.op = "check" /\ Answer
        /\ \E after \in Readings : found' = Differ(req.before, after)
  /\ UNCHANGED <<registry, host, updates>>

\* compose up: a container whose image has changed is recreated, one that has
\* exited is started.
Recreate(s) == cont' = [cont EXCEPT ![s] = [image |-> tag[s], state |-> "running"]]

\* What an update brings up is as the request wants it again; what a script brings
\* up is so only when nobody has moved its tag.
UpOne(s) ==
  /\ req # None /\ req.stage \in {"up", "reup"} /\ s \in req.todo
  /\ Recreate(s)
  /\ req' = [req EXCEPT !.todo = req.todo \ {s},
                        !.touched = IF req.stage = "up" THEN req.touched \ {s} ELSE req.touched]
  /\ UNCHANGED <<registry, tag, updates, found>>

Upped ==
  /\ At("up") /\ req.todo = {}
  /\ Goto("look", {})
  /\ UNCHANGED <<registry, host, updates, found>>

\* What failed is rolled back.
UpFails ==
  /\ At("up")
  /\ Goto("retag", DOMAIN req.before)
  /\ UNCHANGED <<registry, host, updates, found>>

-----------------------------------------------------------------------------
\* healthCheck, every 3 s for 60 s: all containers that are listed run, and
\* they still do 3 s later.
Listed == {s \in Services : IF PsListsExited THEN Exists(s) ELSE Runs(s)}
AllRun == Listed # {} /\ \A s \in Listed : Runs(s)

\* Mutant: what counts are the looks that do not find all running, not the time.
LookForEver ==
  /\ At("look") /\ req.looks > 0
  /\ \/ AllRun /\ Goto("settle", {})
     \/ req' = [req EXCEPT !.looks = req.looks - 1]
  /\ UNCHANGED <<registry, host, updates, found>>

\* ps answers, or fails.
Look ==
  /\ At("look") /\ req.looks > 0
  /\ \/ AllRun /\ req' = [req EXCEPT !.stage = "settle", !.looks = req.looks - 1]
     \/ req' = [req EXCEPT !.looks = req.looks - 1]
  /\ UNCHANGED <<registry, host, updates, found>>

Outcome(status, rollback) == [status |-> status, rollback |-> rollback]

\* A healthy project: the update succeeded, or the record is to be marked.
Healthy ==
  req' = IF req.op = "update"
         THEN [op |-> "update", stage |-> "record", before |-> req.before,
               outcome |-> Outcome("success", ""), touched |-> req.touched]
         ELSE [op |-> "rollback", stage |-> "mark", before |-> req.before,
               touched |-> req.touched]

\* Mutant: running once is healthy.
SettleAtOnce ==
  /\ At("settle")
  /\ Healthy
  /\ UNCHANGED <<registry, host, updates, found>>

\* 3 s later the containers that exit at their start have done so, but for those
\* that a managed operation has started since.
Settle ==
  /\ At("settle")
  /\ \A s \in Services \ req.touched : ExitsAtStart(s) => ~Runs(s)
  /\ \/ AllRun /\ Healthy
     \/ Goto("look", {})
  /\ UNCHANGED <<registry, host, updates, found>>

Unhealthy ==
  /\ At("look") /\ req.looks = 0
  /\ IF req.op = "update" THEN Goto("retag", DOMAIN req.before) ELSE Answer
  /\ UNCHANGED <<registry, host, updates, found>>

\* rollbackDigests: "docker tag repo@digest repo:tag && ...", for an image
\* without a name a command that cannot succeed.
RetagOne(s) ==
  /\ At("retag") /\ s \in req.todo
  /\ req.before[s].named
  /\ tag' = [tag EXCEPT ![s] = req.before[s].digest]
  /\ req' = [req EXCEPT !.todo = req.todo \ {s}, !.touched = req.touched \ {s}]
  /\ UNCHANGED <<registry, cont, updates, found>>

\* "... && compose up --pull never"; without a digest there is no script.
Retagged ==
  /\ At("retag") /\ req.todo = {} /\ req.before # <<>>
  /\ Goto("reup", Services)
  /\ UNCHANGED <<registry, host, updates, found>>

Recorded(outcome) ==
  req' = [op |-> "update", stage |-> "record", before |-> req.before, outcome |-> outcome,
          touched |-> req.touched]

Reupped ==
  /\ At("reup") /\ req.todo = {}
  /\ IF req.op = "update" THEN Recorded(Outcome("failed", "success")) ELSE Goto("look", {})
  /\ UNCHANGED <<registry, host, updates, found>>

\* Any command of the script fails, or is the last one to end when time is up.
ScriptFails ==
  /\ req # None /\ req.stage \in {"retag", "reup"}
  /\ IF req.op = "update" THEN Recorded(Outcome("failed", "failed")) ELSE Answer
  /\ UNCHANGED <<registry, host, updates, found>>

CommandStages == {"pull", "up", "look", "settle", "retag", "reup"}

\* runWithTimeout: at its limit a command is killed, and then waited for until every
\* process that it started has closed its output.  One of them may never do so.
Hung == [stage |-> "hung"]

Hang ==
  /\ req # None /\ req.stage \in CommandStages
  /\ req' = Hung
  /\ UNCHANGED <<registry, host, updates, found>>

-----------------------------------------------------------------------------
\* Mutant: the history is not cut.
PushAll(record) == updates' = <<record>> \o updates

Push(record) ==
  LET all == <<record>> \o updates IN
    updates' = SubSeq(all, 1, IF Len(all) > Keep THEN Keep ELSE Len(all))

Record ==
  /\ At("record")
  /\ Push([status |-> req.outcome.status, rollback |-> req.outcome.rollback,
           prev |-> req.before])
  /\ Answer
  /\ UNCHANGED <<registry, host, found>>

RolledBack(record) == [record EXCEPT !.status = "rolled_back", !.rollback = "success"]

\* A manual rollback that passed its health check.
Mark ==
  /\ At("mark")
  /\ updates' = IF updates = <<>> THEN updates
                ELSE [updates EXCEPT ![1] = RolledBack(updates[1])]
  /\ Answer
  /\ UNCHANGED <<registry, host, found>>

\* The agent goes down and comes up: the history is what was saved.
Crash ==
  /\ req # None
  /\ Answer
  /\ UNCHANGED <<registry, host, updates, found>>

\* saveState writes the file in place: half a file is no history at all.
CrashWhileSaving ==
  /\ req # None /\ req.stage \in {"record", "mark"}
  /\ Answer /\ updates' = <<>>
  /\ UNCHANGED <<registry, host, found>>

\* What goes on beside the agent's request: a new image is published, a container
\* exits, managed compose operations change the same project, service by service.
Publish(s) ==
  /\ registry[s] < Latest
  /\ registry' = [registry EXCEPT ![s] = @ + 1]
  /\ found' = None
  /\ UNCHANGED <<host, updates, req>>

Exit(s) ==
  /\ ExitsAtStart(s) /\ Runs(s)
  /\ cont' = [cont EXCEPT ![s].state = "exited"]
  /\ found' = None
  /\ UNCHANGED <<registry, tag, updates, req>>

Touched(s) ==
  req' = IF req \in {None, Hung} THEN req ELSE [req EXCEPT !.touched = @ \cup {s}]

\* pull, and up --pull always before it makes the container anew; what is built for
\* a service moves its tag in the same way.
ManagedPull(s) ==
  /\ tag' = [tag EXCEPT ![s] = registry[s]]
  /\ Touched(s) /\ found' = None
  /\ UNCHANGED <<registry, cont, updates>>

ManagedUp(s) ==
  /\ Recreate(s)
  /\ Touched(s) /\ found' = None
  /\ UNCHANGED <<registry, tag, updates>>

\* start and restart, stop, down.
ManagedCompose(s) ==
  /\ Exists(s)
  /\ \E state \in {"running", "exited", "gone"} : cont' = [cont EXCEPT ![s].state = state]
  /\ Touched(s) /\ found' = None
  /\ UNCHANGED <<registry, tag, updates>>

RequestStep ==
  \/ \E s \in Services : PullOne(s) \/ UpOne(s) \/ RetagOne(s)
  \/ PullFails \/ Pulled \/ Upped \/ UpFails \/ Look \/ Settle \/ Unhealthy
  \/ Retagged \/ Reupped \/ ScriptFails \/ Record \/ Mark

Managed(s) == ManagedPull(s) \/ ManagedUp(s) \/ ManagedCompose(s)

Next ==
  \/ \E op \in {"update", "check"} : Begin(op)
  \/ Pull \/ Rollback \/ RequestStep \/ Hang \/ Crash \/ CrashWhileSaving
  \/ \E s \in Services : Publish(s) \/ Exit(s)
  \/ \E s \in Beside : Managed(s)

Spec == Init /\ [][Next]_vars

\* A request goes on unless a command hangs, and an image that exits at its start does.
FairSpec == Spec /\ WF_vars(RequestStep) /\ \A s \in Services : WF_vars(Exit(s))

-----------------------------------------------------------------------------
Readable == UNION {[names -> [digest : Images, named : BOOLEAN]] : names \in SUBSET Services}

\* What an update ends in, and what a record may say in the end.
Outcomes ==
  {Outcome("success", ""), Outcome("failed", "success"), Outcome("failed", "failed")}
Records ==
  {r \in [status : {"success", "failed", "rolled_back"}, rollback : {"", "success", "failed"},
          prev : Readable] :
     Outcome(r.status, r.rollback) \in Outcomes \cup {Outcome("rolled_back", "success")}}

\* A request at its commands, before its record is written, before it is marked.
Working ==
  [op : {"update", "check", "pull", "rollback"}, before : Readable, looks : 0..MaxLooks,
   stage : CommandStages, todo : SUBSET Services, touched : SUBSET Services]
Recording ==
  [op : {"update"}, before : Readable, stage : {"record"}, outcome : Outcomes,
   touched : SUBSET Services]
Marking ==
  [op : {"rollback"}, before : Readable, stage : {"mark"}, touched : SUBSET Services]

\* The types; the history is short, and says nothing of a rollback that is not
\* one of the four it can end in.
TypeOK ==
  /\ registry \in [Services -> Images] /\ tag \in [Services -> Images]
  /\ cont \in [Services -> [image : Images, state : {"running", "exited", "gone"}]]
  /\ updates \in Seq(Records) /\ Len(updates) <= Keep
  /\ req \in Working \cup Recording \cup Marking \cup {Hung, None}
  /\ found = None \/ found \subseteq Services

\* Pulls and ups are an update's, but for the pulls of the other two; the rest is an
\* update's or a rollback's, a script has left what was read, and a rollback is one to
\* what the newest record names.
StageFitsOp ==
  req # None =>
    /\ req.stage = "pull" => req.op # "rollback"
    /\ req.stage = "up" => req.op = "update"
    /\ req.stage \in {"look", "settle", "retag", "reup"} => req.op \in {"update", "rollback"}
    /\ req.stage = "retag" => req.todo \subseteq DOMAIN req.before
    /\ req.stage # "hung" /\ req.op = "rollback" =>
         updates # <<>> /\ req.before = updates[1].prev

Untouched(services) == services \ req.touched

\* A service that a script has come past names on the host what it ran before.
Back(services) == \A s \in Untouched(services) : tag[s] = req.before[s].digest

GoneBack ==
  \/ req.stage = "reup"
  \/ req.stage \in {"look", "settle", "mark"} /\ req.op = "rollback"
  \/ req.stage = "record" /\ req.outcome.rollback = "success"

TagsGoBack ==
  req # None =>
    /\ req.stage = "retag" => Back(DOMAIN req.before \ req.todo)
    /\ GoneBack => Back(DOMAIN req.before)

\* A service that an up has come past has a container, of what its name stands for on
\* the host.
UpToDate(services) == \A s \in Untouched(services) : cont[s].image = tag[s] /\ Exists(s)

\* What runs stays up, what ps would have shown to have exited has not, and unless
\* somebody else had a hand in it, something does run.
StaysUp ==
  /\ \A s \in Untouched(Services) :
       /\ Runs(s) => ~ExitsAtStart(s)
       /\ PsListsExited => Runs(s)
  /\ req.touched = {} => \E s \in Services : Runs(s)

ServicesFollow ==
  req # None =>
    /\ req.stage \in {"up", "reup"} => UpToDate(Services \ req.todo)
    /\ req.stage \in {"look", "settle", "mark"} => UpToDate(Services)
    /\ req.stage = "record" =>
         /\ req.outcome.rollback # "failed" => UpToDate(Services)
         /\ req.outcome.status = "success" => StaysUp

\* The inductive invariant behind HistoryIsTrue.
ComposeInv == TypeOK /\ StageFitsOp /\ TagsGoBack /\ ServicesFollow

\* What the history says happened, to every service that no managed operation has
\* changed since the request itself did.  A rollback is recorded as successful only when
\* each runs the image the record names, and the host's tags name it too, so that the
\* next "up" of anyone stays with it (compose.go:478-503, 515-538).  An update is recorded
\* as successful only when the container of each is of what its name stands for, none of
\* those that run is about to exit, however the exits interleave with the two looks of the
\* health check (compose.go:412), and all of them run if ps lists those that do not.
Written == updates' # updates /\ updates' # <<>>

RollbackWritten ==
  Written /\ updates'[1].rollback = "success" =>
    \A s \in Untouched(DOMAIN updates'[1].prev) :
      LET d == updates'[1].prev[s].digest IN cont[s].image = d /\ tag[s] = d

UpdateWritten ==
  Written /\ At("record") /\ req.outcome.status = "success" => UpToDate(Services) /\ StaysUp

HistoryIsTrue == [][RollbackWritten /\ UpdateWritten]_vars

\* A request ends, so the update and the compose lock come back, whatever the
\* containers do during the health check (compose.go:415), unless a command hangs beyond
\* its time limit (hostexec.go:236-238).
RequestEnds == req # None ~> req \in {None, Hung}

-----------------------------------------------------------------------------
\* compose.go:199: a check pulls and compares: when it reports nothing, there is
\* nothing to update.
CheckFindsUpdates ==
  found = {} => \A s \in Services : Exists(s) => cont[s].image = tag[s]

\* compose.go:411: the health check waits for the containers of all services to run.
SuccessMeansAllRun ==
  [][Written /\ At("record") /\ req.outcome.status = "success" /\ req.touched = {}
       => \A s \in Services : Runs(s)]_vars

\* What a rollback in the history would mean if managed operations shared the lock of the
\* update: theirs is another (handlers_compose_managed.go:66).
RollbackHoldsForAll ==
  [][Written /\ updates'[1].rollback = "success" =>
       \A s \in DOMAIN updates'[1].prev : tag[s] = updates'[1].prev[s].digest]_vars

\* hostexec.go:220: a command that passes its time limit is killed, and the request goes on.
RequestsAlwaysEnd == req # None ~> req = None
=============================================================================
