------------------------------ MODULE FileManager ------------------------------
(***************************************************************************)
(* internal/filemanager, manager.go and service.go: what requests do to the *)
(* files of the host.  service.go builds a Manager for every operation (a   *)
(* process of its own when the agent runs in a container), so its mutex and *)
(* its gates are shared by nobody: a request is a row of system calls, and  *)
(* the calls of two requests interleave.  Any call may fail, and a request  *)
(* may be cut off between two (the 600 s of service.go, the agent's end).   *)
(* A batch is a row of such requests of one worker.                         *)
(***************************************************************************)
EXTENDS Naturals, FiniteSets

CONSTANTS
  Paths,        \* paths that clients may change: resolveExisting, mutationError
  Slots,        \* ids of the trash: trashRoot/<id> and trashInfo/<id>.json
  Device,       \* the file system each path and slot is on
  Workers,      \* requests that can be in flight
  MaxTrash,     \* MaxTrashEntries
  InContainer,  \* the nsenter mode
  MaxStates,    \* bound: states of entries made in all
  MaxRequests,  \* bound: requests in all
  MaxLeft,      \* bound: temporary trees left behind in the trash
  None

Places == Paths \cup Slots

ASSUME PlacesAssumption ==
  /\ Paths \cap Slots = {} /\ None \notin Places
  /\ DOMAIN Device = Places
  /\ InContainer \in BOOLEAN
  /\ {MaxTrash, MaxStates, MaxRequests, MaxLeft} \subseteq Nat
  /\ 2 <= MaxStates   \* the directory of Init

VARIABLES
  object,      \* what is at each place
  meta,        \* the original path in the metadata of each slot
  left,        \* .dockorae-copy- trees left behind in the trash directory
  next,        \* the next state of an entry: 1..next-1 have been made
  job,         \* what each worker is doing
  asked,       \* how many requests have begun
  gone,        \* history: states that were removed or replaced on request
  contended,   \* history: states that were at a place two requests named
  unreturned   \* history: slots whose item a failed clean-up took the way back of

vars == <<object, meta, left, next, job, asked, gone, contended, unreturned>>

(***************************************************************************)
(* A state, a number, is one version of an entry: its content and its       *)
(* attributes, which is what resourceVersion tells apart.  A directory has  *)
(* a state of its own and one for what lies below it; a write further down  *)
(* does not alter the directory's own entry.  Half of an object is left     *)
(* where a removal or a transfer stopped.                                   *)
(***************************************************************************)
Number == 0 .. MaxStates
Object == [kind: {"file"}, own: Number, below: {0}, whole: BOOLEAN]
            \cup [kind: {"directory"}, own: Number, below: Number, whole: BOOLEAN]

ASSUME NoneAssumption == None \notin Object \cup {"file", "directory"}

File(n) == [kind |-> "file", own |-> n, below |-> 0, whole |-> TRUE]
Directory(n, b) == [kind |-> "directory", own |-> n, below |-> b, whole |-> TRUE]

StatesOf(o) == IF o = None THEN {} ELSE {o.own, o.below} \ {0}

Made == 1 .. next - 1
\* The kind of what is at a place, None where there is nothing.
Kind(x) == IF object[x] = None THEN None ELSE object[x].kind

\* resourceVersion at a place.
Version(x) == IF object[x] = None THEN None ELSE object[x].own

Held == UNION {StatesOf(object[x]) : x \in Places}

\* What RemoveAll leaves when it stops half way: the entries below go first.
Torn(o) == IF o.kind = "file" THEN o ELSE [o EXCEPT !.own = 0, !.below = 0, !.whole = FALSE]

Idle == [op |-> "idle"]

Names(j) == IF j = Idle THEN {} ELSE ({j.from, j.to} \cup j.todo) \ {None}

Running(w, ops, stage) == job[w] # Idle /\ job[w].op \in ops /\ job[w].stage = stage

Admit(w) == job[w] = Idle /\ asked < MaxRequests /\ asked' = asked + 1

Begin(w, op, from, to, stage) ==
  /\ Admit(w)
  /\ job' = [job EXCEPT ![w] =
              [op |-> op, from |-> from, to |-> to, stage |-> stage, temp |-> None, todo |-> {},
               seen |-> IF from = None THEN object[to] ELSE object[from]]]
  /\ UNCHANGED <<object, meta, left, next, gone>>

Goto(w, stage) == job' = [job EXCEPT ![w].stage = stage]
Done(w) == job' = [job EXCEPT ![w] = Idle]

\* trashCount: the entries of the directory, those of copies under way or left
\* behind among them.
TrashCount ==
  Cardinality({s \in Slots : object[s] # None}) + left
    + Cardinality({w \in Workers : job[w] # Idle /\ job[w].op = "trash" /\ job[w].temp # None})

-----------------------------------------------------------------------------
\* One file, or one directory with something below it; the trash is empty.
Init ==
  /\ \E p \in Paths, o \in {File(1), Directory(1, 2)} :
       /\ object = [x \in Places |-> IF x = p THEN o ELSE None]
       /\ next = IF o.kind = "file" THEN 2 ELSE 3
  /\ meta = [s \in Slots |-> None]
  /\ left = 0
  /\ job = [w \in Workers |-> Idle]
  /\ asked = 0
  /\ gone = {}
  /\ contended = {}
  /\ unreturned = {}

-----------------------------------------------------------------------------
\* Content from the client: WriteText ("edit", with the version the client
\* expects; one without takes the same steps), Upload ("upload", with overwrite "replace"), a
\* write of either kind further down a directory ("below"), mkdir and chmod.

WriteText(w, p) == Kind(p) = "file" /\ Begin(w, "edit", None, p, "publish")

WriteBelow(w, p) ==
  /\ Kind(p) = "directory"
  /\ Begin(w, "below", None, p, "publish")

Upload(w, p, op) ==
  /\ Kind(p) = None \/ (op = "replace" /\ Kind(p) = "file")
  /\ Begin(w, op, None, p, "fill")

Mkdir(w, p) == Begin(w, "mkdir", None, p, "publish")

Chmod(w, p) == object[p] # None /\ Begin(w, "chmod", None, p, "publish")

\* The body has come in; or the connection broke, which the process behind a
\* pipe takes for its end.
Fill(w) ==
  /\ Running(w, {"upload", "replace"}, "fill")
  /\ \E whole \in IF InContainer THEN BOOLEAN ELSE {TRUE} :
       job' = [job EXCEPT ![w] =
                [@ EXCEPT !.stage = "recheck", !.temp = [File(0) EXCEPT !.whole = whole]]]
  /\ UNCHANGED <<object, meta, left, next, gone, asked>>

\* Upload's second look, with the mutex of its own manager.
Recheck(w) ==
  LET j == job[w] IN
  /\ Running(w, {"upload", "replace"}, "recheck")
  /\ \/ Version(j.to) = None
     \/ j.op = "replace" /\ j.seen # None /\ Version(j.to) = j.seen.own
  /\ Goto(w, "publish")
  /\ UNCHANGED <<object, meta, left, next, gone, asked>>

\* What the request puts at its path, the new state of it included.
Written(j) ==
  CASE j.op = "edit" -> File(next)
    [] j.op \in {"upload", "replace"} -> [j.temp EXCEPT !.own = next]
    [] j.op = "mkdir" -> Directory(next, 0)
    [] j.op = "below" -> [object[j.to] EXCEPT !.below = next]
    [] j.op = "chmod" -> [object[j.to] EXCEPT !.own = next]

\* Whether the system call goes through: rename(2) replaces a file, not a
\* directory; with RENAME_NOREPLACE, and for mkdir(2), the path must be free.
Accepts(j) ==
  CASE j.op \in {"edit", "replace"} -> Kind(j.to) # "directory"
    [] j.op \in {"upload", "mkdir"} -> Kind(j.to) = None
    [] j.op = "below" -> Kind(j.to) = "directory"
    [] j.op = "chmod" -> Kind(j.to) # None

\* The state the request was asked to replace.
Replaced(j) ==
  IF j.seen = None THEN {}
  ELSE {IF j.op = "below" THEN j.seen.below ELSE j.seen.own} \ {0}

Publish(w) ==
  LET j == job[w] IN
  /\ Running(w, {"edit", "upload", "replace", "mkdir", "below", "chmod"}, "publish")
  /\ next <= MaxStates
  /\ Accepts(j)
  /\ object' = [object EXCEPT ![j.to] = Written(j)]
  /\ gone' = gone \cup Replaced(j)
  /\ next' = next + 1
  /\ Done(w)
  /\ UNCHANGED <<meta, left, asked>>

-----------------------------------------------------------------------------
\* Whole objects from place to place: rename, moveOne, copyOne, trashOne and
\* restoreTrash.  Each looks whether the source is there and the target free.

Rename(w, p, q) ==
  object[p] # None /\ object[q] = None /\ Begin(w, "rename", p, q, "rename")

Move(w, p, q) ==
  object[p] # None /\ object[q] = None /\ Begin(w, "move", p, q, "rename")

Copy(w, p, q) ==
  object[p] # None /\ object[q] = None /\ Begin(w, "copy", p, q, "copy")

\* The id is random: nobody has it, and no slot has kept something of it.
Trash(w, p, s) ==
  /\ object[p] # None
  /\ TrashCount < MaxTrash
  /\ object[s] = None /\ meta[s] = None /\ \A v \in Workers : s \notin Names(job[v])
  /\ Begin(w, "trash", p, s, "meta")

Restore(w, s) ==
  /\ meta[s] # None /\ object[s] # None
  /\ object[meta[s]] = None
  /\ Begin(w, "restore", s, meta[s], "rename")

\* Mutant: the metadata records where the item is, not where it was.
WriteMetaOfSlot(w) ==
  /\ Running(w, {"trash"}, "meta")
  /\ meta' = [meta EXCEPT ![job[w].to] = job[w].to]
  /\ Goto(w, "rename")
  /\ UNCHANGED <<object, left, next, gone, asked>>

WriteMeta(w) ==
  /\ Running(w, {"trash"}, "meta")
  /\ meta' = [meta EXCEPT ![job[w].to] = job[w].from]
  /\ Goto(w, "rename")
  /\ UNCHANGED <<object, left, next, gone, asked>>

\* Mutant: a plain rename.
RenameReplace(w) ==
  LET j == job[w] IN
  /\ Running(w, {"rename", "move", "trash", "restore"}, "rename")
  /\ Device[j.from] = Device[j.to]
  /\ object[j.from] # None
  /\ object' = [object EXCEPT ![j.to] = object[j.from], ![j.from] = None]
  /\ IF j.op = "restore" THEN Goto(w, "unmeta") ELSE Done(w)
  /\ UNCHANGED <<meta, left, next, gone, asked>>

\* renameNoReplaceRoot on one file system.
RenameNoReplace(w) ==
  LET j == job[w] IN
  /\ Running(w, {"rename", "move", "trash", "restore"}, "rename")
  /\ Device[j.from] = Device[j.to]
  /\ object[j.from] # None /\ object[j.to] = None
  /\ object' = [object EXCEPT ![j.to] = object[j.from], ![j.from] = None]
  /\ IF j.op = "restore" THEN Goto(w, "unmeta") ELSE Done(w)
  /\ UNCHANGED <<meta, left, next, gone, asked>>

\* EXDEV: rename gives up (Fail), the others copy.
CrossDevice(w) ==
  /\ Running(w, {"move", "trash", "restore"}, "rename")
  /\ Device[job[w].from] # Device[job[w].to]
  /\ Goto(w, "copy")
  /\ UNCHANGED <<object, meta, left, next, gone, asked>>

\* Mutant: the copy is made at the target.
CopyTreeInPlace(w) ==
  LET j == job[w] IN
  /\ Running(w, {"move", "copy", "trash", "restore"}, "copy")
  /\ object[j.from] # None /\ object[j.to] = None
  /\ object' = [object EXCEPT ![j.to] = Torn(object[j.from])]
  /\ Done(w)
  /\ UNCHANGED <<meta, left, next, gone, asked>>

CopyTree(w) ==
  LET j == job[w] IN
  /\ Running(w, {"move", "copy", "trash", "restore"}, "copy")
  /\ object[j.from] # None
  /\ job' = [job EXCEPT ![w] = [@ EXCEPT !.stage = "verify", !.temp = object[j.from]]]
  /\ UNCHANGED <<object, meta, left, next, gone, asked>>

\* The source's own entry must not have changed meanwhile.
Verify(w) ==
  LET j == job[w] IN
  /\ Running(w, {"move", "copy", "trash", "restore"}, "verify")
  /\ Version(j.from) = j.seen.own
  /\ Goto(w, "place")
  /\ UNCHANGED <<object, meta, left, next, gone, asked>>

Place(w) ==
  LET j == job[w] IN
  /\ Running(w, {"move", "copy", "trash", "restore"}, "place")
  /\ object[j.to] = None
  /\ object' = [object EXCEPT ![j.to] = j.temp]
  /\ IF j.op = "copy" THEN Done(w)
     ELSE job' = [job EXCEPT ![w] = [@ EXCEPT !.stage = "remove", !.temp = None]]
  /\ UNCHANGED <<meta, left, next, gone, asked>>

-----------------------------------------------------------------------------
\* The trash: deleteTrash, emptyTrash, and the removal of a source.

Delete(w, s) == object[s] # None /\ Begin(w, "delete", s, None, "remove")

Empty(w) ==
  /\ Admit(w)
  /\ TrashCount <= MaxTrash
  /\ job' = [job EXCEPT ![w] =
              [op |-> "empty", from |-> None, to |-> None, stage |-> "next", seen |-> None,
               temp |-> None, todo |-> {s \in Slots : object[s] # None}]]
  /\ UNCHANGED <<object, meta, left, next, gone>>

EmptyNext(w) ==
  LET j == job[w] IN
  /\ Running(w, {"empty"}, "next")
  /\ \/ j.todo = {} /\ Done(w)
     \/ \E s \in j.todo :
          job' = [job EXCEPT ![w] =
                   [j EXCEPT !.todo = j.todo \ {s}, !.from = s, !.seen = object[s],
                             !.stage = IF object[s] = None THEN "next" ELSE "remove"]]
  /\ UNCHANGED <<object, meta, left, next, gone, asked>>

\* The next item, or the end of the request.
Proceed(w) == IF job[w].op = "empty" THEN Goto(w, "next") ELSE Done(w)

\* What a removal was asked to make away with.
Discarded(j) == IF j.op \in {"delete", "empty"} THEN StatesOf(j.seen) ELSE {}

RemoveAll(w) ==
  LET j == job[w] IN
  /\ Running(w, {"move", "trash", "restore", "delete", "empty"}, "remove")
  /\ object' = [object EXCEPT ![j.from] = None]
  /\ gone' = gone \cup Discarded(j)
  /\ IF j.op \in {"move", "trash"} THEN Done(w) ELSE Goto(w, "unmeta")
  /\ UNCHANGED <<meta, left, next, asked>>

\* Mutant: deleteTrash goes on to the metadata.
RemoveFailsUnmeta(w) ==
  LET j == job[w] IN
  /\ Running(w, {"move", "trash", "restore", "delete", "empty"}, "remove")
  /\ object[j.from] # None
  /\ object' = [object EXCEPT ![j.from] = Torn(@)]
  /\ gone' = gone \cup Discarded(j)
  /\ meta' = IF j.op = "trash" THEN [meta EXCEPT ![j.to] = None]
             ELSE IF j.op = "delete" THEN [meta EXCEPT ![j.from] = None] ELSE meta
  /\ Proceed(w)
  /\ UNCHANGED <<left, next, asked>>

\* RemoveAll stops half way.  trashOne then takes its metadata back, with the
\* data in the trash.
RemoveFails(w) ==
  LET j == job[w] IN
  /\ Running(w, {"move", "trash", "restore", "delete", "empty"}, "remove")
  /\ object[j.from] # None
  /\ object' = [object EXCEPT ![j.from] = Torn(@)]
  /\ gone' = gone \cup Discarded(j)
  /\ meta' = IF j.op = "trash" THEN [meta EXCEPT ![j.to] = None] ELSE meta
  /\ Proceed(w)
  /\ UNCHANGED <<left, next, asked>>

\* Remove(metadata), whose error is ignored.
Unmeta(w) ==
  /\ Running(w, {"restore", "delete", "empty"}, "unmeta")
  /\ meta' \in {meta, [meta EXCEPT ![job[w].from] = None]}
  /\ Proceed(w)
  /\ UNCHANGED <<object, left, next, gone, asked>>

-----------------------------------------------------------------------------
\* A check or a call fails: the temporary file and the metadata go again.
Fail(w) ==
  LET j == job[w] IN
  /\ job[w] # Idle /\ j.stage \notin {"next", "remove", "unmeta"}
  /\ meta' = IF j.op = "trash" /\ j.stage # "meta" THEN [meta EXCEPT ![j.to] = None] ELSE meta
  /\ Done(w)
  /\ UNCHANGED <<object, left, next, gone, asked>>

\* The process of a request ends where it is.
Kill(w) ==
  LET j == job[w] IN
  /\ job[w] # Idle
  /\ object' = IF j.stage = "remove" /\ object[j.from] # None
                 THEN [object EXCEPT ![j.from] = Torn(@)] ELSE object
  /\ gone' = IF j.stage = "remove" THEN gone \cup Discarded(j) ELSE gone
  /\ IF j.op = "trash" /\ j.temp # None THEN left < MaxLeft /\ left' = left + 1
     ELSE left' = left
  /\ Done(w)
  /\ UNCHANGED <<meta, next, asked>>

\* The places that two of the jobs name.
Shared(jobs) ==
  {x \in Places : \E v, w \in Workers : v # w /\ x \in Names(jobs[v]) \cap Names(jobs[w])}

\* Histories: what has been at a place that two requests in flight name, and the
\* items of the trash whose metadata the clean-up of trashOne took.
Histories ==
  /\ contended' = contended \cup
       UNION {StatesOf(object[x]) \cup StatesOf(object'[x]) : x \in Shared(job) \cup Shared(job')}
  /\ unreturned' = {s \in Slots : /\ object'[s] # None
                                  /\ s \in unreturned \/ \E w \in Workers :
                                       /\ Running(w, {"trash"}, "remove") /\ job[w].to = s
                                       /\ meta'[s] # meta[s]}

Content(w) ==
  \/ \E p \in Paths : \/ WriteText(w, p)
                      \/ \E op \in {"upload", "replace"} : Upload(w, p, op)
                      \/ WriteBelow(w, p)
                      \/ Mkdir(w, p)
                      \/ Chmod(w, p)
  \/ Fill(w) \/ Recheck(w) \/ Publish(w)

Transfer(w) ==
  \/ \E p, q \in Paths : Rename(w, p, q) \/ Move(w, p, q) \/ Copy(w, p, q)
  \/ \E p \in Paths, s \in Slots : Trash(w, p, s)
  \/ \E s \in Slots : Restore(w, s)
  \/ WriteMeta(w) \/ RenameNoReplace(w) \/ CrossDevice(w) \/ CopyTree(w) \/ Verify(w) \/ Place(w)

Removal(w) ==
  \/ \E s \in Slots : Delete(w, s)
  \/ Empty(w) \/ EmptyNext(w) \/ RemoveAll(w) \/ RemoveFails(w) \/ Unmeta(w)

\* No request in flight, and none comes.
Rest == (\A w \in Workers : job[w] = Idle) /\ UNCHANGED vars

Next ==
  \/ Rest
  \/ /\ \E w \in Workers : Content(w) \/ Transfer(w) \/ Removal(w) \/ Fail(w) \/ Kill(w)
     /\ Histories

Spec == Init /\ [][Next]_vars

-----------------------------------------------------------------------------
Contents == {"edit", "upload", "replace", "below", "mkdir", "chmod"}
Transfers == {"rename", "move", "copy", "trash", "restore"}
Removals == {"delete", "empty"}
Stages ==
  {"fill", "recheck", "publish", "meta", "rename", "copy", "verify", "place", "next", "remove",
   "unmeta"}

Jobs ==
  [op : Contents \cup Transfers \cup Removals, from : Places \cup {None}, to : Places \cup {None},
   stage : Stages, temp : Object \cup {None}, todo : SUBSET Slots, seen : Object \cup {None}]

\* The types; nothing is held, removed or contended that has not been made.
TypeOK ==
  /\ object \in [Places -> Object \cup {None}]
  /\ meta \in [Slots -> Paths \cup {None}]
  /\ left \in 0 .. MaxLeft
  /\ next \in 1 .. MaxStates + 1 /\ asked \in 0 .. MaxRequests
  /\ gone \subseteq Made /\ contended \subseteq Made /\ Held \subseteq Made
  /\ unreturned \subseteq Slots
  /\ job \in [Workers -> Jobs \cup {Idle}]

\* Whatever was at a path and nobody asked to remove or to replace is still
\* somewhere, at a path or in the trash, whichever calls failed and wherever a
\* request was cut off: only what two requests in flight named at once can be
\* lost (moveOne, trashOne and restoreTrash copy, publish and only then remove).
\* And an item of the trash has the metadata that restores it, except where the
\* source could not be removed and trashOne took the metadata back.
NothingIsLost ==
  /\ Made \subseteq Held \cup gone \cup contended
  /\ \A s \in Slots : object[s] # None => meta[s] # None \/ s \in unreturned

\* What each kind of request names, and what it has with it: nothing but states that
\* have been made.
AimFits(j) ==
  /\ j.op \in Contents =>
       j.from = None /\ j.to \in Paths /\ j.stage \in {"fill", "recheck", "publish"}
  /\ j.op \in {"rename", "move", "copy"} => j.from \in Paths /\ j.to \in Paths \ {j.from}
  /\ j.op = "trash" => j.from \in Paths /\ j.to \in Slots
  /\ j.op = "restore" => j.from \in Slots /\ j.to \in Paths
  /\ j.op \in Transfers => j.stage \notin {"fill", "recheck", "publish", "next"}
  /\ j.op \in Removals => j.to = None /\ j.stage \in {"next", "remove", "unmeta"}
  /\ j.op \in Removals /\ j.stage # "next" => j.from \in Slots
  /\ j.op \in {"upload", "replace"} /\ j.stage # "fill" =>
       j.temp \in Object /\ j.temp.kind = "file"
  /\ j.stage \in {"verify", "place"} => j.temp \in Object
  /\ StatesOf(j.temp) \cup StatesOf(j.seen) \subseteq Made

\* The place a request looked at when it began.
Looked(j) == IF j.from = None THEN j.to ELSE j.from

\* What a request has seen is there still, or is contended.
SeenStays(j) ==
  j.stage \notin {"next", "unmeta"} =>
    object[Looked(j)] = j.seen \/ StatesOf(object[Looked(j)]) \subseteq contended

\* A source that is being copied is covered by its copy, under way or in place.
CopyCovers(j) ==
  j.op \in Transfers =>
    /\ j.stage \in {"verify", "place"} =>
         StatesOf(object[j.from]) \subseteq StatesOf(j.temp) \cup contended
    /\ j.stage = "remove" =>
         StatesOf(object[j.from]) \subseteq StatesOf(object[j.to]) \cup contended

\* Until its item is in, an id of the trash is known to nobody else, and the metadata
\* is there before the item.
SlotIsFresh(w, j) ==
  j.op = "trash" /\ j.stage # "remove" =>
    /\ object[j.to] = None
    /\ j.stage # "meta" => meta[j.to] # None
    /\ \A v \in Workers \ {w} : j.to \notin Names(job[v])

\* Metadata goes only after its item.
ItemBeforeMeta(j) == j.stage = "unmeta" => j.from \in Slots /\ object[j.from] = None

JobFits(w, j) ==
  j # Idle =>
    AimFits(j) /\ SeenStays(j) /\ CopyCovers(j) /\ SlotIsFresh(w, j) /\ ItemBeforeMeta(j)

\* The inductive invariant behind NothingIsLost.
FileInv == TypeOK /\ NothingIsLost /\ \A w \in Workers : JobFits(w, job[w])

\* Two requests at one path: what is there is replaced only by a request that
\* was told to (an edit, an upload with overwrite), never by a move, a copy, a
\* restore, a plain upload or a mkdir that looked while the path was free.
NothingReplacedUnasked ==
  [][\A x \in Places :
       object[x] # None /\ object'[x] # None /\ object'[x].own \notin {object[x].own, 0}
         => \E w \in Workers : /\ job[w] # Idle /\ job[w].to = x
                               /\ job[w].op \in {"edit", "replace", "chmod"}]_vars

\* No half of an object appears at a path: a copy that is still being made, or
\* was cut off, is nowhere a client can see it.  (What was cut in a removal can
\* be copied on; an upload cut in the pipe is UploadsAreWhole's.)
ArrivesWhole ==
  [][\A x \in Places :
       object[x] = None /\ object'[x] # None /\ ~object'[x].whole
         => \/ \E y \in Places : object[y] # None /\ ~object[y].whole
            \/ \E w \in Workers : job[w] # Idle /\ job[w].temp # None /\ ~job[w].temp.whole]_vars

\* manager.go:424: a version that is given must be the current one, anything else
\* is a concurrent change.  The check and the rename are two calls, and the mutex
\* around them belongs to the request alone.
EditsAreNotLost ==
  [][\A w \in Workers :
       Running(w, {"edit"}, "publish") /\ object'[job[w].to] # object[job[w].to] /\ job'[w] = Idle
         => object[job[w].to] = None \/ object[job[w].to].own = job[w].seen.own]_vars

\* service.go:4: both modes share one implementation.  An upload whose connection
\* breaks is given up by the direct one, and published by the other.
UploadsAreWhole == \A x \in Places : Kind(x) = "file" => object[x].whole
=============================================================================
