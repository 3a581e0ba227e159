-------------------------- MODULE FileManagerProofs --------------------------
(***************************************************************************)
(* Proofs about FileManager, for any paths, slots, file systems and number   *)
(* of requests in flight.  The invariant says of every request what it knows *)
(* of the places it names; what another request does at such a place is       *)
(* contended, and nothing else is lost.  Then about Archive, for any tree of *)
(* files, any archives and limits: what is packed, what is unpacked, how      *)
(* much of it, and under which names.                                       *)
(***************************************************************************)
EXTENDS FileManager, Archive, FiniteSetTheorems, SequenceTheorems, WellFoundedInduction, TLAPS

-----------------------------------------------------------------------------
(* Objects and jobs.                                                        *)

LEMMA ObjectFacts ==
  ASSUME NEW o \in Object
  PROVE  /\ o # None /\ o.kind \in {"file", "directory"} /\ o.whole \in BOOLEAN
         /\ o.own \in Number /\ o.below \in Number /\ (o.kind = "file" => o.below = 0)
         /\ StatesOf(o) = {o.own, o.below} \ {0}
<1>1. o # None
  BY NoneAssumption
<1>2. /\ o.kind \in {"file", "directory"} /\ o.whole \in BOOLEAN
      /\ o.own \in Number /\ o.below \in Number /\ (o.kind = "file" => o.below = 0)
  BY PlacesAssumption DEF Object, Number
<1>3. QED
  BY <1>1, <1>2 DEF StatesOf

LEMMA NothingHasNoState == StatesOf(None) = {}
BY DEF StatesOf

LEMMA FileFacts ==
  ASSUME NEW n \in Number
  PROVE  /\ File(n) \in Object /\ File(n).kind = "file" /\ File(n).own = n
         /\ StatesOf(File(n)) = {n} \ {0} /\ File(n).whole
<1>1. /\ File(n) \in Object /\ File(n).own = n /\ File(n).below = 0 /\ File(n).kind = "file"
      /\ File(n).whole
  BY DEF File, Object
<1>2. QED
  BY <1>1, ObjectFacts

LEMMA DirectoryFacts ==
  ASSUME NEW n \in Number, NEW b \in Number
  PROVE  /\ Directory(n, b) \in Object /\ Directory(n, b).kind = "directory"
         /\ StatesOf(Directory(n, b)) = {n, b} \ {0} /\ Directory(n, b).whole
<1>1. /\ Directory(n, b) \in Object /\ Directory(n, b).own = n /\ Directory(n, b).below = b
      /\ Directory(n, b).kind = "directory" /\ Directory(n, b).whole
  BY DEF Directory, Object
<1>2. QED
  BY <1>1, ObjectFacts

\* The part of an upload that came in, as a file without a state yet.
LEMMA UploadFacts ==
  ASSUME NEW whole \in BOOLEAN
  PROVE  /\ [File(0) EXCEPT !.whole = whole] \in Object
         /\ [File(0) EXCEPT !.whole = whole].kind = "file"
         /\ StatesOf([File(0) EXCEPT !.whole = whole]) = {}
<1>1. PICK o : o = [File(0) EXCEPT !.whole = whole]
  OBVIOUS
<1>2. o = [kind |-> "file", own |-> 0, below |-> 0, whole |-> whole]
  BY <1>1 DEF File
<1>3. 0 \in Number
  BY PlacesAssumption DEF Number
<1>4. o \in Object /\ o.own = 0 /\ o.below = 0 /\ o.kind = "file"
  BY <1>2, <1>3 DEF Object
<1>5. QED
  BY <1>1, <1>4, ObjectFacts

LEMMA OwnRewritten ==
  ASSUME NEW o \in Object, NEW n \in Number
  PROVE  /\ [o EXCEPT !.own = n] \in Object
         /\ [o EXCEPT !.own = n].kind = o.kind
         /\ [o EXCEPT !.own = n].own = n
         /\ [o EXCEPT !.own = n].whole = o.whole
         /\ StatesOf([o EXCEPT !.own = n]) = {n, o.below} \ {0}
<1>1. PICK c : c = [o EXCEPT !.own = n]
  OBVIOUS
<1>2. CASE o \in [kind: {"file"}, own: Number, below: {0}, whole: BOOLEAN]
  <2>1. c \in [kind: {"file"}, own: Number, below: {0}, whole: BOOLEAN]
        /\ c.kind = o.kind /\ c.own = n /\ c.below = o.below /\ c.whole = o.whole
    BY <1>1, <1>2
  <2>2. c \in Object
    BY <2>1 DEF Object
  <2>3. QED
    BY <1>1, <2>1, <2>2, ObjectFacts
<1>3. CASE o \in [kind: {"directory"}, own: Number, below: Number, whole: BOOLEAN]
  <2>1. c \in [kind: {"directory"}, own: Number, below: Number, whole: BOOLEAN]
        /\ c.kind = o.kind /\ c.own = n /\ c.below = o.below /\ c.whole = o.whole
    BY <1>1, <1>3
  <2>2. c \in Object
    BY <2>1 DEF Object
  <2>3. QED
    BY <1>1, <2>1, <2>2, ObjectFacts
<1>4. QED
  BY <1>2, <1>3 DEF Object

LEMMA BelowRewritten ==
  ASSUME NEW o \in Object, o.kind = "directory", NEW n \in Number
  PROVE  /\ [o EXCEPT !.below = n] \in Object
         /\ [o EXCEPT !.below = n].own = o.own
         /\ [o EXCEPT !.below = n].whole = o.whole
         /\ StatesOf([o EXCEPT !.below = n]) = {o.own, n} \ {0}
<1>1. PICK c : c = [o EXCEPT !.below = n]
  OBVIOUS
<1>2. o \in [kind: {"directory"}, own: Number, below: Number, whole: BOOLEAN]
  BY DEF Object
<1>3. /\ c \in [kind: {"directory"}, own: Number, below: Number, whole: BOOLEAN]
      /\ c.own = o.own /\ c.below = n /\ c.whole = o.whole
  BY <1>1, <1>2
<1>4. c \in Object
  BY <1>3 DEF Object
<1>5. QED
  BY <1>1, <1>3, <1>4, ObjectFacts

\* What a removal leaves when it stops half way is an object with no state that was
\* not there before.
LEMMA TornFacts ==
  ASSUME NEW o \in Object
  PROVE  /\ Torn(o) \in Object /\ StatesOf(Torn(o)) \subseteq StatesOf(o)
         /\ Torn(o).own \in {o.own, 0}
<1>1. CASE o.kind = "file"
  BY <1>1 DEF Torn
<1>2. CASE o.kind # "file"
  <2>1. PICK c : c = [o EXCEPT !.own = 0, !.below = 0, !.whole = FALSE]
    OBVIOUS
  <2>2. o \in [kind: {"directory"}, own: Number, below: Number, whole: BOOLEAN]
    BY <1>2 DEF Object
  <2>3. 0 \in Number
    BY PlacesAssumption DEF Number
  <2>4. /\ c \in [kind: {"directory"}, own: Number, below: Number, whole: BOOLEAN]
        /\ c.own = 0 /\ c.below = 0
    BY <2>1, <2>2, <2>3
  <2>5. c \in Object /\ StatesOf(c) = {}
    BY <2>4, ObjectFacts DEF Object
  <2>6. Torn(o) = c
    BY <1>2, <2>1 DEF Torn
  <2>7. QED
    BY <2>4, <2>5, <2>6
<1>3. QED
  BY <1>1, <1>2

\* The fields of a job.
LEMMA JobFields ==
  ASSUME NEW j \in Jobs
  PROVE  /\ j # Idle /\ j.op \in Contents \cup Transfers \cup Removals /\ j.stage \in Stages
         /\ j.from \in Places \cup {None} /\ j.to \in Places \cup {None}
         /\ j.temp \in Object \cup {None} /\ j.seen \in Object \cup {None}
         /\ j.todo \subseteq Slots
         /\ Names(j) = ({j.from, j.to} \cup j.todo) \ {None}
         /\ Names(j) \subseteq Places
<1>1. /\ j.op \in Contents \cup Transfers \cup Removals /\ j.stage \in Stages
      /\ j.from \in Places \cup {None} /\ j.to \in Places \cup {None}
      /\ j.temp \in Object \cup {None} /\ j.seen \in Object \cup {None}
      /\ j.todo \subseteq Slots
  BY DEF Jobs
<1>2. j # Idle
  <2>1. j.op # "idle"
    BY <1>1 DEF Contents, Transfers, Removals
  <2>2. Idle.op = "idle"
    BY DEF Idle
  <2>3. QED
    BY <2>1, <2>2
<1>3. Names(j) = ({j.from, j.to} \cup j.todo) \ {None}
  BY <1>2 DEF Names
<1>4. QED
  BY <1>1, <1>2, <1>3 DEF Places

\* A job that goes on to another stage, with the same names.
LEMMA Restaged ==
  ASSUME NEW j \in Jobs, NEW stage \in Stages
  PROVE  LET c == [j EXCEPT !.stage = stage] IN
         /\ c \in Jobs /\ c.op = j.op /\ c.from = j.from /\ c.to = j.to /\ c.stage = stage
         /\ c.temp = j.temp /\ c.seen = j.seen /\ Names(c) = Names(j)
<1>1. PICK c : c = [j EXCEPT !.stage = stage]
  OBVIOUS
<1>2. /\ c \in Jobs /\ c.op = j.op /\ c.from = j.from /\ c.to = j.to /\ c.stage = stage
      /\ c.temp = j.temp /\ c.seen = j.seen /\ c.todo = j.todo
  BY <1>1 DEF Jobs
<1>3. Names(c) = Names(j)
  BY <1>2, JobFields
<1>4. QED
  BY <1>1, <1>2, <1>3

\* What the invariant says of the job of a worker.
LEMMA JobOf ==
  ASSUME FileInv, NEW w \in Workers, job[w] # Idle
  PROVE  /\ TypeOK /\ job[w] \in Jobs /\ AimFits(job[w]) /\ SeenStays(job[w])
         /\ CopyCovers(job[w]) /\ SlotIsFresh(w, job[w]) /\ ItemBeforeMeta(job[w])
<1>1. TypeOK /\ JobFits(w, job[w])
  BY DEF FileInv
<1>2. job[w] \in Jobs
  BY <1>1 DEF TypeOK
<1>3. QED
  BY <1>1, <1>2 DEF JobFits

\* A request knows a place: the one it looked at.
LEMMA LookedIsNamed ==
  ASSUME NEW j \in Jobs, AimFits(j), j.stage # "next"
  PROVE  Looked(j) \in Places /\ Looked(j) \in Names(j)
<1>1. j.op \in Contents \cup Transfers \cup Removals /\ None \notin Places
  BY JobFields, PlacesAssumption
<1>2. CASE j.op \in Contents
  BY <1>1, <1>2, JobFields DEF AimFits, Looked, Places
<1>3. CASE j.op \in Transfers
  BY <1>1, <1>3, JobFields DEF AimFits, Looked, Places, Transfers
<1>4. CASE j.op \in Removals
  BY <1>1, <1>4, JobFields DEF AimFits, Looked, Places
<1>5. QED
  BY <1>1, <1>2, <1>3, <1>4

\* Source and target of a transfer.
LEMMA TransferNames ==
  ASSUME NEW j \in Jobs, AimFits(j), j.op \in Transfers
  PROVE  /\ j.from \in Places /\ j.to \in Places /\ j.from # j.to
         /\ j.from \in Names(j) /\ j.to \in Names(j)
         /\ j.to \in Slots => j.op = "trash"
<1>1. None \notin Places /\ Paths \cap Slots = {}
  BY PlacesAssumption
<1>2. /\ j.from \in Places /\ j.to \in Places /\ j.from # j.to
      /\ j.to \in Slots => j.op = "trash"
  BY <1>1 DEF AimFits, Transfers, Places
<1>3. QED
  BY <1>1, <1>2, JobFields

-----------------------------------------------------------------------------
(* What a step of one request leaves of what the others know.               *)

\* A step of worker w alone: it alters only what w names, takes no slot that another
\* request is about to fill, and puts nothing into a slot that another one names.
Alone(w) ==
  /\ \A v \in Workers \ {w} : job'[v] = job[v]
  /\ \A x \in Places : object'[x] # object[x] => x \in Names(job[w])
  /\ \A s \in Slots : meta'[s] # meta[s] => s \in Names(job[w])
  /\ \A s \in Slots : s \in Names(job'[w]) =>
       \/ s \in Names(job[w])
       \/ object[s] # None
       \/ \A v \in Workers \ {w} : s \notin Names(job[v])
  /\ \A s \in Slots : object[s] = None /\ object'[s] # None =>
       \A v \in Workers \ {w} : s \notin Names(job[v])
  /\ next' \in Nat /\ next' >= next

LEMMA Contends ==
  ASSUME TypeOK, Histories, NEW w \in Workers, Alone(w)
  PROVE  /\ contended \subseteq contended'
         /\ \A v \in Workers \ {w} : \A x \in Places : x \in Names(job[v]) =>
              \/ object'[x] = object[x]
              \/ StatesOf(object[x]) \subseteq contended' /\ StatesOf(object'[x]) \subseteq contended'
<1>1. contended \subseteq contended'
  BY DEF Histories
<1>2. ASSUME NEW v \in Workers \ {w}, NEW x \in Places, x \in Names(job[v]), object'[x] # object[x]
      PROVE  StatesOf(object[x]) \subseteq contended' /\ StatesOf(object'[x]) \subseteq contended'
  <2>1. x \in Names(job[w])
    BY <1>2 DEF Alone
  <2>2. x \in Shared(job)
    BY <1>2, <2>1 DEF Shared
  <2>3. StatesOf(object[x]) \cup StatesOf(object'[x]) \subseteq contended'
    BY <2>2 DEF Histories
  <2>4. QED
    BY <2>3
<1>3. QED
  BY <1>1, <1>2

LEMMA UpToGrows ==
  ASSUME NEW m \in Int, NEW n \in Int, m <= n
  PROVE  1 .. m - 1 \subseteq 1 .. n - 1
OBVIOUS

LEMMA MadeGrows ==
  ASSUME TypeOK, NEW w \in Workers, Alone(w)
  PROVE  Made \subseteq Made'
<1>1. next \in Int
  BY PlacesAssumption DEF TypeOK
<1>2. next' \in Int /\ next' >= next
  BY DEF Alone
<1>3. PICK m \in Int, n \in Int : m = next /\ n = next' /\ n >= m
  BY <1>1, <1>2
<1>4. 1 .. m - 1 \subseteq 1 .. n - 1
  BY <1>3, UpToGrows
<1>5. Made = 1 .. m - 1 /\ Made' = 1 .. n - 1
  BY <1>3 DEF Made
<1>6. QED
  BY <1>4, <1>5

LEMMA OthersStep ==
  ASSUME FileInv, Histories, NEW w \in Workers, Alone(w), NEW v \in Workers \ {w}
  PROVE  JobFits(v, job[v])'
<1>0. TypeOK /\ job'[v] = job[v] /\ Made \subseteq Made'
  BY MadeGrows DEF FileInv, Alone
<1>1. SUFFICES ASSUME job[v] # Idle PROVE JobFits(v, job[v])'
  BY <1>0 DEF JobFits
<1>2. PICK j \in Jobs : j = job[v]
  BY <1>1, JobOf
<1>3. AimFits(j) /\ SeenStays(j) /\ CopyCovers(j) /\ SlotIsFresh(v, j) /\ ItemBeforeMeta(j)
  BY <1>1, <1>2, JobOf
<1>4. /\ contended \subseteq contended'
      /\ \A x \in Places : x \in Names(j) =>
           \/ object'[x] = object[x]
           \/ StatesOf(object[x]) \subseteq contended' /\ StatesOf(object'[x]) \subseteq contended'
  BY <1>0, <1>2, Contends
<1>5. AimFits(j)'
  BY <1>0, <1>3 DEF AimFits
<1>6. SeenStays(j)'
  <2> SUFFICES ASSUME j.stage \notin {"next", "unmeta"}
               PROVE  object'[Looked(j)] = j.seen \/ StatesOf(object'[Looked(j)]) \subseteq contended'
    BY DEF SeenStays, Looked
  <2>1. PICK x \in Places : x = Looked(j) /\ x \in Names(j)
    BY <1>3, LookedIsNamed
  <2>2. object[x] = j.seen \/ StatesOf(object[x]) \subseteq contended
    BY <1>3, <2>1 DEF SeenStays
  <2>3. object'[x] = j.seen \/ StatesOf(object'[x]) \subseteq contended'
    BY <1>4, <2>1, <2>2
  <2>4. QED
    BY <2>1, <2>3
<1>7. CopyCovers(j)'
  <2> SUFFICES ASSUME j.op \in Transfers
               PROVE  /\ j.stage \in {"verify", "place"} =>
                           StatesOf(object'[j.from]) \subseteq StatesOf(j.temp) \cup contended'
                      /\ j.stage = "remove" =>
                           StatesOf(object'[j.from]) \subseteq StatesOf(object'[j.to]) \cup contended'
    BY DEF CopyCovers
  <2>1. j.from \in Places /\ j.to \in Places /\ j.from \in Names(j) /\ j.to \in Names(j)
    BY <1>3, TransferNames
  <2>2. CASE object'[j.from] = object[j.from]
    <3>1. /\ j.stage \in {"verify", "place"} =>
               StatesOf(object[j.from]) \subseteq StatesOf(j.temp) \cup contended
          /\ j.stage = "remove" =>
               StatesOf(object[j.from]) \subseteq StatesOf(object[j.to]) \cup contended
      BY <1>3 DEF CopyCovers
    <3>2. object'[j.to] = object[j.to] \/ StatesOf(object[j.to]) \subseteq contended'
      BY <1>4, <2>1
    <3>3. QED
      BY <1>4, <2>2, <3>1, <3>2
  <2>3. CASE object'[j.from] # object[j.from]
    BY <1>4, <2>1, <2>3
  <2>4. QED
    BY <2>2, <2>3
<1>8. SlotIsFresh(v, j)'
  <2> SUFFICES ASSUME j.op = "trash", j.stage # "remove"
               PROVE  /\ object'[j.to] = None
                      /\ j.stage # "meta" => meta'[j.to] # None
                      /\ \A u \in Workers \ {v} : j.to \notin Names(job'[u])
    BY DEF SlotIsFresh
  <2>1. /\ object[j.to] = None /\ (j.stage # "meta" => meta[j.to] # None)
        /\ \A u \in Workers \ {v} : j.to \notin Names(job[u])
    BY <1>3 DEF SlotIsFresh
  <2>2. j.to \in Slots /\ j.to \in Names(job[v])
    BY <1>2, <1>3, TransferNames DEF AimFits, Transfers
  <2>3. object'[j.to] = None
    BY <2>1, <2>2 DEF Alone
  <2>4. meta'[j.to] = meta[j.to]
    BY <2>1, <2>2 DEF Alone
  <2>5. j.to \notin Names(job'[w])
    BY <2>1, <2>2 DEF Alone
  <2>6. \A u \in Workers \ {v} : j.to \notin Names(job'[u])
    BY <2>1, <2>5 DEF Alone
  <2>7. QED
    BY <2>1, <2>3, <2>4, <2>6
<1>9. ItemBeforeMeta(j)'
  <2> SUFFICES ASSUME j.stage = "unmeta" PROVE j.from \in Slots /\ object'[j.from] = None
    BY DEF ItemBeforeMeta
  <2>1. j.from \in Slots /\ object[j.from] = None
    BY <1>3 DEF ItemBeforeMeta
  <2>2. j.from \in Names(job[v])
    BY <1>2, <2>1, JobFields, PlacesAssumption DEF Places
  <2>3. QED
    BY <2>1, <2>2 DEF Alone
<1>10. JobFits(v, j)'
  BY <1>5, <1>6, <1>7, <1>8, <1>9 DEF JobFits
<1>11. QED
  BY <1>0, <1>2, <1>10 DEF JobFits, AimFits, SeenStays, Looked, CopyCovers, SlotIsFresh, ItemBeforeMeta

\* What is at a place is held.
LEMMA HeldHas ==
  ASSUME NEW x \in Places
  PROVE  StatesOf(object[x]) \subseteq Held
BY DEF Held

\* The step of a request as a whole: it is enough to look at the places it alters and
\* at the request itself.
LEMMA RequestStep ==
  ASSUME FileInv, Histories, NEW w \in Workers, Alone(w),
         object' \in [Places -> Object \cup {None}], meta' \in [Slots -> Paths \cup {None}],
         left' \in 0 .. MaxLeft, next' \in 1 .. MaxStates + 1, asked' \in 0 .. MaxRequests,
         job' \in [Workers -> Jobs \cup {Idle}],
         \A x \in Places : object'[x] # object[x] =>
           /\ StatesOf(object'[x]) \subseteq Made'
           /\ StatesOf(object[x]) \subseteq Held' \cup gone' \cup contended',
         Made' \subseteq Made \cup Held',
         gone \subseteq gone', gone' \subseteq Made',
         \A s \in Slots : object'[s] # None /\ (object'[s] # object[s] \/ meta'[s] # meta[s])
           => meta'[s] # None \/ s \in unreturned',
         JobFits(w, job[w])'
  PROVE  FileInv'
<1>0. /\ TypeOK /\ NothingIsLost /\ Made \subseteq Made' /\ contended \subseteq contended'
      /\ Held \subseteq Made /\ contended \subseteq Made
  BY MadeGrows, Contends DEF FileInv, TypeOK
<1>1. \A x \in Places : StatesOf(object[x]) \subseteq Made'
  BY <1>0, HeldHas
<1>2. \A x \in Places : StatesOf(object'[x]) \subseteq Made'
  BY <1>1
<1>3. TypeOK'
  <2>1. Held' \subseteq Made'
    BY <1>2 DEF Held
  <2>2. contended' \subseteq Made'
    <3>1. Shared(job) \subseteq Places /\ Shared(job') \subseteq Places
      BY DEF Shared
    <3>2. QED
      BY <1>0, <1>1, <1>2, <3>1 DEF Histories
  <2>3. unreturned' \subseteq Slots
    BY DEF Histories
  <2>4. QED
    BY <2>1, <2>2, <2>3 DEF TypeOK
<1>4. NothingIsLost'
  <2>1. ASSUME NEW n \in Made' PROVE n \in Held' \cup gone' \cup contended'
    <3>1. CASE n \in Held' \/ n \in gone \/ n \in contended
      BY <1>0, <3>1
    <3>2. CASE n \in Held
      <4>1. PICK x \in Places : n \in StatesOf(object[x])
        BY <3>2 DEF Held
      <4>2. CASE object'[x] = object[x]
        BY <4>1, <4>2 DEF Held
      <4>3. CASE object'[x] # object[x]
        BY <4>1, <4>3
      <4>4. QED
        BY <4>2, <4>3
    <3>3. n \in Made \cup Held'
      BY <2>1
    <3>4. QED
      BY <1>0, <3>1, <3>2, <3>3 DEF NothingIsLost
  <2>2. ASSUME NEW s \in Slots, object'[s] # None PROVE meta'[s] # None \/ s \in unreturned'
    <3>1. CASE object'[s] = object[s] /\ meta'[s] = meta[s]
      <4>1. meta[s] # None \/ s \in unreturned
        BY <1>0, <2>2, <3>1 DEF NothingIsLost
      <4>2. s \in unreturned => s \in unreturned'
        BY <2>2 DEF Histories
      <4>3. QED
        BY <3>1, <4>1, <4>2
    <3>2. CASE object'[s] # object[s] \/ meta'[s] # meta[s]
      BY <2>2, <3>2
    <3>3. QED
      BY <3>1, <3>2
  <2>3. QED
    BY <2>1, <2>2 DEF NothingIsLost
<1>5. \A v \in Workers : JobFits(v, job[v])'
  BY OthersStep
<1>6. QED
  BY <1>3, <1>4, <1>5 DEF FileInv

\* A step that alters nothing of the host: only what the request knows has changed.
LEMMA QuietStep ==
  ASSUME FileInv, Histories, NEW w \in Workers, NEW j \in Jobs \cup {Idle},
         job' = [job EXCEPT ![w] = j],
         UNCHANGED <<object, meta, next, gone>>,
         left' \in 0 .. MaxLeft, asked' \in 0 .. MaxRequests,
         \A s \in Slots : s \in Names(j) =>
           \/ s \in Names(job[w])
           \/ object[s] # None
           \/ \A v \in Workers \ {w} : s \notin Names(job[v]),
         JobFits(w, j)
  PROVE  FileInv'
<1>0. TypeOK
  BY DEF FileInv
<1>1. /\ job' \in [Workers -> Jobs \cup {Idle}] /\ job'[w] = j
      /\ \A v \in Workers \ {w} : job'[v] = job[v]
  BY <1>0 DEF TypeOK
<1>2. next \in 1 .. MaxStates + 1 /\ next' = next
  BY <1>0 DEF TypeOK
<1>3. Alone(w)
  BY <1>1, <1>2, PlacesAssumption DEF Alone
<1>4. Made' = Made /\ gone \subseteq Made
  BY <1>0 DEF Made, TypeOK
<1>5. contended \subseteq contended'
  BY <1>0, <1>3, Contends
<1>6. JobFits(w, j)'
  BY <1>1, <1>4, <1>5 DEF JobFits, AimFits, SeenStays, Looked, CopyCovers, SlotIsFresh,
                          ItemBeforeMeta
<1>7. JobFits(w, job[w])'
  BY <1>1, <1>6 DEF JobFits, AimFits, SeenStays, Looked, CopyCovers, SlotIsFresh, ItemBeforeMeta
<1>8. /\ object' \in [Places -> Object \cup {None}] /\ meta' \in [Slots -> Paths \cup {None}]
      /\ next' \in 1 .. MaxStates + 1
  BY <1>0 DEF TypeOK
<1>9. QED
  BY <1>1, <1>3, <1>4, <1>7, <1>8, RequestStep

-----------------------------------------------------------------------------
(* How a request begins.                                                    *)

LEMMA BeginStep ==
  ASSUME FileInv, Histories, NEW w \in Workers, NEW op, NEW from, NEW to, NEW stage,
         Begin(w, op, from, to, stage),
         \/ /\ op \in {"edit", "below", "mkdir", "chmod"} /\ stage = "publish"
            /\ from = None /\ to \in Paths
         \/ op \in {"upload", "replace"} /\ stage = "fill" /\ from = None /\ to \in Paths
         \/ op \in {"rename", "move"} /\ stage = "rename" /\ from \in Paths /\ to \in Paths \ {from}
         \/ op = "copy" /\ stage = "copy" /\ from \in Paths /\ to \in Paths \ {from}
         \/ /\ op = "trash" /\ stage = "meta" /\ from \in Paths /\ to \in Slots
            /\ object[to] = None /\ \A v \in Workers \ {w} : to \notin Names(job[v])
         \/ /\ op = "restore" /\ stage = "rename" /\ from \in Slots /\ to \in Paths
            /\ object[from] # None
         \/ /\ op = "delete" /\ stage = "remove" /\ from \in Slots /\ to = None
            /\ object[from] # None
  PROVE  FileInv'
<1>0. TypeOK /\ Paths \cap Slots = {} /\ None \notin Places
  BY PlacesAssumption DEF FileInv
<1>1. PICK j : j = [op |-> op, from |-> from, to |-> to, stage |-> stage, temp |-> None,
                    todo |-> {}, seen |-> IF from = None THEN object[to] ELSE object[from]]
  OBVIOUS
<1>2. job' = [job EXCEPT ![w] = j] /\ UNCHANGED <<object, meta, left, next, gone>>
  BY <1>1 DEF Begin
<1>3. left' \in 0 .. MaxLeft /\ asked' \in 0 .. MaxRequests
  BY <1>0, <1>2, PlacesAssumption DEF Begin, Admit, TypeOK
<1>4. /\ j.op = op /\ j.from = from /\ j.to = to /\ j.stage = stage /\ j.temp = None
      /\ j.todo = {} /\ j.seen = object[Looked(j)]
  BY <1>1 DEF Looked
<1>5. /\ from \in Places \cup {None} /\ to \in Places \cup {None} /\ Looked(j) \in Places
      /\ op \in Contents \cup Transfers \cup Removals /\ stage \in Stages
  BY <1>0, <1>4 DEF Places, Contents, Transfers, Removals, Stages, Looked
<1>6. j.seen \in Object \cup {None}
  BY <1>0, <1>4, <1>5 DEF TypeOK
<1>7. j \in Jobs
  BY <1>1, <1>4, <1>5, <1>6 DEF Jobs
<1>8. StatesOf(j.temp) \cup StatesOf(j.seen) \subseteq Made
  BY <1>0, <1>4, <1>5, HeldHas, NothingHasNoState DEF TypeOK
<1>9. AimFits(j)
  BY <1>4, <1>8 DEF AimFits, Contents, Transfers, Removals
<1>10. SeenStays(j)
  BY <1>4 DEF SeenStays
<1>11. CopyCovers(j)
  BY <1>4 DEF CopyCovers, Transfers
<1>12. SlotIsFresh(w, j)
  BY <1>4 DEF SlotIsFresh
<1>13. ItemBeforeMeta(j)
  BY <1>4 DEF ItemBeforeMeta
<1>14. JobFits(w, j)
  BY <1>9, <1>10, <1>11, <1>12, <1>13 DEF JobFits
<1>15. Names(j) \subseteq {from, to}
  BY <1>4, <1>7, JobFields
<1>16. ASSUME NEW s \in Slots, s \in Names(j)
       PROVE  object[s] # None \/ \A v \in Workers \ {w} : s \notin Names(job[v])
  BY <1>0, <1>15, <1>16 DEF Places
<1>17. QED
  BY <1>2, <1>3, <1>7, <1>14, <1>16, QuietStep

LEMMA ContentBegins ==
  ASSUME FileInv, Histories, NEW w \in Workers, NEW p \in Paths,
         \/ WriteText(w, p) \/ WriteBelow(w, p) \/ Mkdir(w, p) \/ Chmod(w, p)
         \/ \E op \in {"upload", "replace"} : Upload(w, p, op)
  PROVE  FileInv'
<1>1. CASE WriteText(w, p)
  <2>1. Begin(w, "edit", None, p, "publish")
    BY <1>1 DEF WriteText
  <2>2. QED
    BY <2>1, BeginStep
<1>2. CASE WriteBelow(w, p)
  <2>1. Begin(w, "below", None, p, "publish")
    BY <1>2 DEF WriteBelow
  <2>2. QED
    BY <2>1, BeginStep
<1>3. CASE Mkdir(w, p)
  <2>1. Begin(w, "mkdir", None, p, "publish")
    BY <1>3 DEF Mkdir
  <2>2. QED
    BY <2>1, BeginStep
<1>4. CASE Chmod(w, p)
  <2>1. Begin(w, "chmod", None, p, "publish")
    BY <1>4 DEF Chmod
  <2>2. QED
    BY <2>1, BeginStep
<1>5. ASSUME NEW op \in {"upload", "replace"}, Upload(w, p, op) PROVE FileInv'
  <2>1. Begin(w, op, None, p, "fill")
    BY <1>5 DEF Upload
  <2>2. QED
    BY <2>1, BeginStep
<1>6. QED
  BY <1>1, <1>2, <1>3, <1>4, <1>5

LEMMA TransferBegins ==
  ASSUME FileInv, Histories, NEW w \in Workers,
         \/ \E p, q \in Paths : Rename(w, p, q) \/ Move(w, p, q) \/ Copy(w, p, q)
         \/ \E p \in Paths, s \in Slots : Trash(w, p, s)
         \/ \E s \in Slots : Restore(w, s) \/ Delete(w, s)
  PROVE  FileInv'
<1>1. ASSUME NEW p \in Paths, NEW q \in Paths, Rename(w, p, q) PROVE FileInv'
  <2>1. Begin(w, "rename", p, q, "rename") /\ p # q
    BY <1>1 DEF Rename
  <2>2. QED
    BY <2>1, BeginStep
<1>2. ASSUME NEW p \in Paths, NEW q \in Paths, Move(w, p, q) PROVE FileInv'
  <2>1. Begin(w, "move", p, q, "rename") /\ p # q
    BY <1>2 DEF Move
  <2>2. QED
    BY <2>1, BeginStep
<1>3. ASSUME NEW p \in Paths, NEW q \in Paths, Copy(w, p, q) PROVE FileInv'
  <2>1. Begin(w, "copy", p, q, "copy") /\ p # q
    BY <1>3 DEF Copy
  <2>2. QED
    BY <2>1, BeginStep
<1>4. ASSUME NEW p \in Paths, NEW s \in Slots, Trash(w, p, s) PROVE FileInv'
  <2>1. /\ Begin(w, "trash", p, s, "meta") /\ object[s] = None
        /\ \A v \in Workers \ {w} : s \notin Names(job[v])
    BY <1>4 DEF Trash
  <2>2. QED
    BY <2>1, BeginStep
<1>5. ASSUME NEW s \in Slots, Restore(w, s) PROVE FileInv'
  <2>1. PICK q : q = meta[s]
    OBVIOUS
  <2>2. Begin(w, "restore", s, q, "rename") /\ object[s] # None /\ q \in Paths
    BY <1>5, <2>1 DEF Restore, FileInv, TypeOK
  <2>3. QED
    BY <2>2, BeginStep
<1>6. ASSUME NEW s \in Slots, Delete(w, s) PROVE FileInv'
  <2>1. Begin(w, "delete", s, None, "remove") /\ object[s] # None
    BY <1>6 DEF Delete
  <2>2. QED
    BY <2>1, BeginStep
<1>7. QED
  BY <1>1, <1>2, <1>3, <1>4, <1>5, <1>6

LEMMA EmptyStep ==
  ASSUME FileInv, Histories, NEW w \in Workers, Empty(w)
  PROVE  FileInv'
<1>0. TypeOK
  BY DEF FileInv
<1>1. PICK j : j = [op |-> "empty", from |-> None, to |-> None, stage |-> "next", seen |-> None,
                    temp |-> None, todo |-> {s \in Slots : object[s] # None}]
  OBVIOUS
<1>2. job' = [job EXCEPT ![w] = j] /\ UNCHANGED <<object, meta, left, next, gone>>
  BY <1>1 DEF Empty
<1>3. left' \in 0 .. MaxLeft /\ asked' \in 0 .. MaxRequests
  BY <1>0, <1>2, PlacesAssumption DEF Empty, Admit, TypeOK
<1>4. /\ j.op = "empty" /\ j.from = None /\ j.to = None /\ j.stage = "next" /\ j.seen = None
      /\ j.temp = None /\ j.todo = {s \in Slots : object[s] # None}
  BY <1>1
<1>5. j \in Jobs
  BY <1>1 DEF Jobs, Removals, Stages
<1>6. AimFits(j)
  BY <1>4, NothingHasNoState DEF AimFits, Contents, Transfers, Removals
<1>7. JobFits(w, j)
  BY <1>4, <1>6 DEF JobFits, SeenStays, CopyCovers, SlotIsFresh, ItemBeforeMeta, Transfers
<1>8. \A s \in Slots : s \in Names(j) => object[s] # None
  BY <1>4, <1>5, JobFields
<1>9. QED
  BY <1>2, <1>3, <1>5, <1>7, <1>8, QuietStep

-----------------------------------------------------------------------------
(* Looks and copies, which alter nothing at a place.                        *)

\* A request at a stage.
LEMMA AtStage ==
  ASSUME FileInv, NEW w \in Workers, NEW ops, NEW stage, Running(w, ops, stage)
  PROVE  /\ job[w] # Idle /\ job[w] \in Jobs /\ job[w].op \in ops /\ job[w].stage = stage
         /\ TypeOK /\ AimFits(job[w]) /\ SeenStays(job[w]) /\ CopyCovers(job[w])
         /\ SlotIsFresh(w, job[w]) /\ ItemBeforeMeta(job[w])
<1>1. job[w] # Idle /\ job[w].op \in ops /\ job[w].stage = stage
  BY DEF Running
<1>2. QED
  BY <1>1, JobOf

LEMMA GotoStep ==
  ASSUME FileInv, Histories, NEW w \in Workers, job[w] # Idle, NEW stage \in Stages,
         Goto(w, stage), UNCHANGED <<object, meta, left, next, gone, asked>>,
         \/ job[w].op \in Contents /\ job[w].stage = "recheck" /\ stage = "publish"
         \/ job[w].op \in Transfers /\ job[w].stage = "rename" /\ stage = "copy"
         \/ job[w].op \in Transfers /\ job[w].stage = "verify" /\ stage = "place"
  PROVE  FileInv'
<1>0. PICK i \in Jobs : i = job[w]
  BY JobOf
<1>a. PICK j : j = [i EXCEPT !.stage = stage]
  OBVIOUS
<1>1. /\ j \in Jobs /\ j.op = i.op /\ j.from = i.from /\ j.to = i.to /\ j.stage = stage
      /\ j.temp = i.temp /\ j.seen = i.seen /\ Names(j) = Names(i)
  BY <1>a, Restaged
<1>2. /\ AimFits(i) /\ SeenStays(i) /\ CopyCovers(i) /\ SlotIsFresh(w, i) /\ ItemBeforeMeta(i)
      /\ TypeOK
  BY <1>0, JobOf
<1>3. job' = [job EXCEPT ![w] = j]
  BY <1>0, <1>a, <1>2 DEF Goto, TypeOK
<1>4. AimFits(j)
  BY <1>0, <1>1, <1>2 DEF AimFits, Contents, Transfers
<1>5. SeenStays(j)
  BY <1>0, <1>1, <1>2 DEF SeenStays, Looked
<1>6. CopyCovers(j)
  BY <1>0, <1>1, <1>2 DEF CopyCovers, Contents, Transfers
<1>7. SlotIsFresh(w, j)
  BY <1>0, <1>1, <1>2 DEF SlotIsFresh, Contents, Transfers
<1>8. ItemBeforeMeta(j)
  BY <1>0, <1>1 DEF ItemBeforeMeta
<1>9. JobFits(w, j)
  BY <1>4, <1>5, <1>6, <1>7, <1>8 DEF JobFits
<1>10. left' \in 0 .. MaxLeft /\ asked' \in 0 .. MaxRequests
  BY <1>2 DEF TypeOK
<1>11. QED
  BY <1>0, <1>1, <1>3, <1>9, <1>10, QuietStep

LEMMA LooksStep ==
  ASSUME FileInv, Histories, NEW w \in Workers, Recheck(w) \/ CrossDevice(w) \/ Verify(w)
  PROVE  FileInv'
<1>1. CASE Recheck(w)
  BY <1>1, GotoStep DEF Recheck, Running, Contents, Stages
<1>2. CASE CrossDevice(w)
  BY <1>2, GotoStep DEF CrossDevice, Running, Transfers, Stages
<1>3. CASE Verify(w)
  BY <1>3, GotoStep DEF Verify, Running, Transfers, Stages
<1>4. QED
  BY <1>1, <1>2, <1>3

LEMMA FillStep ==
  ASSUME FileInv, Histories, NEW w \in Workers, Fill(w)
  PROVE  FileInv'
<1>0. Running(w, {"upload", "replace"}, "fill") /\ UNCHANGED <<object, meta, left, next, gone, asked>>
  BY DEF Fill
<1>1. PICK i \in Jobs : i = job[w]
  BY <1>0, AtStage
<1>2. AimFits(i) /\ SeenStays(i) /\ i.op \in {"upload", "replace"} /\ i.stage = "fill" /\ TypeOK
  BY <1>0, <1>1, AtStage
<1>3. PICK whole \in BOOLEAN : job' = [job EXCEPT ![w] =
        [i EXCEPT !.stage = "recheck", !.temp = [File(0) EXCEPT !.whole = whole]]]
  BY <1>1, PlacesAssumption DEF Fill
<1>4. PICK temp \in Object : /\ temp = [File(0) EXCEPT !.whole = whole]
                             /\ temp.kind = "file" /\ StatesOf(temp) = {}
  BY UploadFacts
<1>a. PICK j : j = [i EXCEPT !.stage = "recheck", !.temp = temp]
  OBVIOUS
<1>b. "recheck" \in Stages /\ temp \in Object \cup {None}
  BY DEF Stages
<1>c. /\ j \in Jobs /\ j.op = i.op /\ j.from = i.from /\ j.to = i.to /\ j.stage = "recheck"
      /\ j.temp = temp /\ j.seen = i.seen /\ j.todo = i.todo
  BY <1>a, <1>b DEF Jobs
<1>5. /\ j \in Jobs /\ j.op = i.op /\ j.from = i.from /\ j.to = i.to /\ j.stage = "recheck"
      /\ j.temp = temp /\ j.seen = i.seen /\ Names(j) = Names(i)
  BY <1>c, JobFields
<1>6. job' = [job EXCEPT ![w] = j]
  BY <1>3, <1>4, <1>a
<1>7. AimFits(j)
  BY <1>2, <1>4, <1>5 DEF AimFits, Contents, Transfers, Removals
<1>8. JobFits(w, j)
  BY <1>2, <1>5, <1>7 DEF JobFits, SeenStays, Looked, CopyCovers, SlotIsFresh, ItemBeforeMeta,
                          Transfers
<1>9. left' \in 0 .. MaxLeft /\ asked' \in 0 .. MaxRequests
  BY <1>0, <1>2 DEF TypeOK
<1>10. QED
  BY <1>0, <1>1, <1>5, <1>6, <1>8, <1>9, QuietStep

LEMMA CopyTreeStep ==
  ASSUME FileInv, Histories, NEW w \in Workers, CopyTree(w)
  PROVE  FileInv'
<1>0. /\ Running(w, {"move", "copy", "trash", "restore"}, "copy")
      /\ UNCHANGED <<object, meta, left, next, gone, asked>>
  BY DEF CopyTree
<1>1. PICK i \in Jobs : i = job[w]
  BY <1>0, AtStage
<1>2. /\ AimFits(i) /\ SeenStays(i) /\ SlotIsFresh(w, i) /\ TypeOK
      /\ i.op \in Transfers /\ i.stage = "copy"
  BY <1>0, <1>1, AtStage DEF Transfers
<1>3. i.from \in Places
  BY <1>2, TransferNames
<1>4. PICK temp \in Object : temp = object[i.from]
  BY <1>1, <1>2, <1>3 DEF CopyTree, TypeOK
<1>5. StatesOf(temp) \subseteq Made
  BY <1>2, <1>3, <1>4, HeldHas DEF TypeOK
<1>a. PICK j : j = [i EXCEPT !.stage = "verify", !.temp = temp]
  OBVIOUS
<1>b. "verify" \in Stages /\ temp \in Object \cup {None}
  BY DEF Stages
<1>c. /\ j \in Jobs /\ j.op = i.op /\ j.from = i.from /\ j.to = i.to /\ j.stage = "verify"
      /\ j.temp = temp /\ j.seen = i.seen /\ j.todo = i.todo
  BY <1>a, <1>b DEF Jobs
<1>6. /\ j \in Jobs /\ j.op = i.op /\ j.from = i.from /\ j.to = i.to /\ j.stage = "verify"
      /\ j.temp = temp /\ j.seen = i.seen /\ Names(j) = Names(i)
  BY <1>c, JobFields
<1>7. job' = [job EXCEPT ![w] = j]
  BY <1>1, <1>4, <1>a DEF CopyTree
<1>8. AimFits(j)
  BY <1>2, <1>5, <1>6 DEF AimFits, Contents, Transfers, Removals
<1>9. SeenStays(j)
  BY <1>2, <1>6 DEF SeenStays, Looked
<1>10. CopyCovers(j)
  BY <1>4, <1>6 DEF CopyCovers
<1>11. SlotIsFresh(w, j)
  BY <1>2, <1>6 DEF SlotIsFresh
<1>12. ItemBeforeMeta(j)
  BY <1>6 DEF ItemBeforeMeta
<1>13. JobFits(w, j)
  BY <1>8, <1>9, <1>10, <1>11, <1>12 DEF JobFits
<1>14. left' \in 0 .. MaxLeft /\ asked' \in 0 .. MaxRequests
  BY <1>0, <1>2 DEF TypeOK
<1>15. QED
  BY <1>0, <1>1, <1>6, <1>7, <1>13, <1>14, QuietStep

LEMMA EmptyNextStep ==
  ASSUME FileInv, Histories, NEW w \in Workers, EmptyNext(w)
  PROVE  FileInv'
<1>0. Running(w, {"empty"}, "next") /\ UNCHANGED <<object, meta, left, next, gone, asked>>
  BY DEF EmptyNext
<1>1. PICK i \in Jobs : i = job[w]
  BY <1>0, AtStage
<1>2. AimFits(i) /\ TypeOK /\ i.op = "empty" /\ i.to = None
  BY <1>0, <1>1, AtStage DEF AimFits, Removals
<1>3. left' \in 0 .. MaxLeft /\ asked' \in 0 .. MaxRequests
  BY <1>0, <1>2 DEF TypeOK
<1>4. CASE Done(w)
  <2>1. job' = [job EXCEPT ![w] = Idle] /\ Names(Idle) = {} /\ JobFits(w, Idle)
    BY <1>4 DEF Done, Names, JobFits
  <2>2. QED
    BY <1>0, <1>3, <2>1, QuietStep
<1>5. ASSUME NEW s \in i.todo,
             job' = [job EXCEPT ![w] = [i EXCEPT !.todo = i.todo \ {s}, !.from = s, !.seen = object[s],
                       !.stage = IF object[s] = None THEN "next" ELSE "remove"]]
      PROVE  FileInv'
  <2>1. PICK j : j = [i EXCEPT !.todo = i.todo \ {s}, !.from = s, !.seen = object[s],
                       !.stage = IF object[s] = None THEN "next" ELSE "remove"]
    OBVIOUS
  <2>2. s \in Slots /\ s \in Places /\ s # None /\ i.todo \subseteq Slots
    BY JobFields, PlacesAssumption DEF Places
  <2>3. PICK seen \in Object \cup {None} : seen = object[s] /\ StatesOf(seen) \subseteq Made
    BY <1>2, <2>2, HeldHas DEF TypeOK
  <2>4. /\ j.op = "empty" /\ j.from = s /\ j.to = None /\ j.seen = seen /\ j.temp = i.temp
        /\ j.todo = i.todo \ {s} /\ j.stage \in {"next", "remove"} /\ j \in Jobs
    BY <1>2, <2>1, <2>2, <2>3 DEF Jobs, Stages
  <2>5. Names(j) \subseteq Names(i)
    BY <1>2, <2>2, <2>4, JobFields
  <2>6. AimFits(j)
    BY <1>2, <2>2, <2>3, <2>4 DEF AimFits, Contents, Transfers, Removals
  <2>7. SeenStays(j)
    BY <2>2, <2>3, <2>4 DEF SeenStays, Looked
  <2>8. JobFits(w, j)
    BY <2>4, <2>6, <2>7 DEF JobFits, CopyCovers, SlotIsFresh, ItemBeforeMeta, Transfers
  <2>9. job' = [job EXCEPT ![w] = j]
    BY <1>5, <2>1
  <2>10. QED
    BY <1>0, <1>1, <1>3, <2>4, <2>5, <2>8, <2>9, QuietStep
<1>6. QED
  BY <1>1, <1>4, <1>5 DEF EmptyNext

-----------------------------------------------------------------------------
(* A write arrives.                                                         *)

LEMMA DoneFacts ==
  ASSUME TypeOK, NEW w \in Workers, Done(w)
  PROVE  /\ job' \in [Workers -> Jobs \cup {Idle}] /\ job'[w] = Idle
         /\ \A v \in Workers \ {w} : job'[v] = job[v]
         /\ Names(job'[w]) = {} /\ JobFits(w, job[w])'
<1>1. /\ job' \in [Workers -> Jobs \cup {Idle}] /\ job'[w] = Idle
      /\ \A v \in Workers \ {w} : job'[v] = job[v]
  BY DEF Done, TypeOK
<1>2. QED
  BY <1>1 DEF Names, JobFits

\* What has a state above the entry's own, or replaces what the request was told to.
LEMMA WrittenFacts ==
  ASSUME TypeOK, NEW j \in Jobs, AimFits(j), SeenStays(j), j.op \in Contents,
         j.stage = "publish", Accepts(j), next <= MaxStates
  PROVE  /\ Written(j) \in Object /\ next \in StatesOf(Written(j))
         /\ StatesOf(Written(j)) \subseteq StatesOf(object[j.to]) \cup {next}
         /\ StatesOf(object[j.to]) \subseteq StatesOf(Written(j)) \cup Replaced(j) \cup contended
<1>1. next \in Number /\ next # 0 /\ 0 \in Number
  BY PlacesAssumption DEF TypeOK, Number
<1>2. j.to \in Paths /\ j.to \in Places /\ j.from = None
  BY DEF AimFits, Places
<1>3. PICK o \in Object \cup {None} : o = object[j.to]
  BY <1>2 DEF TypeOK
<1>4. o = j.seen \/ StatesOf(o) \subseteq contended
  BY <1>2, <1>3 DEF SeenStays, Looked
<1>5. Kind(j.to) = (IF o = None THEN None ELSE o.kind)
  BY <1>3 DEF Kind
<1>6. None \notin {"file", "directory"}
  BY NoneAssumption
\* A file that is replaced, or nothing.
<1>7. ASSUME o = None \/ (o.kind = "file" /\ j.op \in {"edit", "replace"})
      PROVE  StatesOf(o) \subseteq Replaced(j) \cup contended
  <2>1. CASE o = None
    BY <2>1, NothingHasNoState
  <2>2. CASE o # None /\ o = j.seen
    <3>1. StatesOf(o) \subseteq {o.own} \ {0}
      BY <1>7, <2>2, ObjectFacts
    <3>2. Replaced(j) = {o.own} \ {0}
      BY <1>7, <2>2 DEF Replaced
    <3>3. QED
      BY <3>1, <3>2
  <2>3. QED
    BY <1>4, <2>1, <2>2
<1>8. CASE j.op = "edit"
  <2>1. Written(j) = File(next)
    BY <1>8 DEF Written
  <2>2. o = None \/ o.kind = "file"
    BY <1>3, <1>5, <1>8, ObjectFacts DEF Accepts
  <2>3. QED
    BY <1>1, <1>3, <1>7, <1>8, <2>1, <2>2, FileFacts
<1>9. CASE j.op \in {"upload", "replace"}
  <2>1. PICK t \in Object : t = j.temp /\ t.kind = "file"
    BY <1>9 DEF AimFits
  <2>2. Written(j) = [t EXCEPT !.own = next]
    BY <1>9, <2>1 DEF Written
  <2>3. Written(j) \in Object /\ StatesOf(Written(j)) = {next}
    BY <1>1, <2>1, <2>2, OwnRewritten, ObjectFacts
  <2>4. o = None \/ (o.kind = "file" /\ j.op = "replace")
    BY <1>3, <1>5, <1>6, <1>9, ObjectFacts DEF Accepts
  <2>5. QED
    BY <1>3, <1>7, <2>3, <2>4
<1>10. CASE j.op = "mkdir"
  <2>1. Written(j) = Directory(next, 0)
    BY <1>10 DEF Written
  <2>2. o = None
    BY <1>3, <1>5, <1>6, <1>10, ObjectFacts DEF Accepts
  <2>3. QED
    BY <1>1, <1>3, <1>7, <2>1, <2>2, DirectoryFacts
<1>11. CASE j.op = "below"
  <2>1. Written(j) = [o EXCEPT !.below = next]
    BY <1>3, <1>11 DEF Written
  <2>2. o \in Object /\ o.kind = "directory"
    BY <1>3, <1>5, <1>6, <1>11 DEF Accepts
  <2>3. /\ Written(j) \in Object /\ StatesOf(Written(j)) = {o.own, next} \ {0}
        /\ StatesOf(o) = {o.own, o.below} \ {0}
    BY <1>1, <2>1, <2>2, BelowRewritten, ObjectFacts
  <2>4. o = j.seen => Replaced(j) = {o.below} \ {0}
    BY <1>11, <2>2, NoneAssumption DEF Replaced
  <2>5. QED
    BY <1>1, <1>3, <1>4, <2>3, <2>4
<1>12. CASE j.op = "chmod"
  <2>1. Written(j) = [o EXCEPT !.own = next]
    BY <1>3, <1>12 DEF Written
  <2>2. o \in Object
    BY <1>3, <1>5, <1>12 DEF Accepts
  <2>3. /\ Written(j) \in Object /\ StatesOf(Written(j)) = {next, o.below} \ {0}
        /\ StatesOf(o) = {o.own, o.below} \ {0}
    BY <1>1, <2>1, <2>2, OwnRewritten, ObjectFacts
  <2>4. o = j.seen => Replaced(j) = {o.own} \ {0}
    BY <1>12, <2>2, NoneAssumption DEF Replaced
  <2>5. QED
    BY <1>1, <1>3, <1>4, <2>3, <2>4
<1>13. QED
  BY <1>8, <1>9, <1>10, <1>11, <1>12 DEF Contents

LEMMA PublishStep ==
  ASSUME FileInv, Histories, NEW w \in Workers, Publish(w)
  PROVE  FileInv'
<1>0. PICK i \in Jobs : i = job[w]
  BY AtStage DEF Publish
<1>1. /\ AimFits(i) /\ SeenStays(i) /\ i.op \in Contents /\ i.stage = "publish" /\ TypeOK
  BY <1>0, AtStage DEF Publish, Contents
<1>2. /\ next <= MaxStates /\ Accepts(i) /\ object' = [object EXCEPT ![i.to] = Written(i)]
      /\ gone' = gone \cup Replaced(i) /\ next' = next + 1 /\ Done(w)
      /\ UNCHANGED <<meta, left, asked>>
  BY <1>0 DEF Publish
<1>3. PICK p \in Paths : p = i.to /\ p \in Places /\ p \notin Slots /\ p \in Names(i)
  BY <1>1, JobFields, PlacesAssumption DEF AimFits, Places
<1>4. PICK o : o = Written(i)
  OBVIOUS
<1>5. /\ o \in Object /\ next \in StatesOf(o)
      /\ StatesOf(o) \subseteq StatesOf(object[p]) \cup {next}
      /\ StatesOf(object[p]) \subseteq StatesOf(o) \cup Replaced(i) \cup contended
  BY <1>1, <1>2, <1>3, <1>4, WrittenFacts
<1>6. /\ object' \in [Places -> Object \cup {None}] /\ object'[p] = o
      /\ \A x \in Places : x # p => object'[x] = object[x]
  BY <1>1, <1>2, <1>3, <1>4, <1>5 DEF TypeOK
<1>7. /\ Made' = Made \cup {next} /\ next' \in 1 .. MaxStates + 1 /\ next' >= next
      /\ next' \in Nat
  BY <1>1, <1>2, PlacesAssumption DEF Made, TypeOK
<1>8. /\ job' \in [Workers -> Jobs \cup {Idle}] /\ Names(job'[w]) = {} /\ JobFits(w, job[w])'
      /\ \A v \in Workers \ {w} : job'[v] = job[v]
  BY <1>1, <1>2, DoneFacts
<1>9. Alone(w)
  BY <1>0, <1>2, <1>3, <1>6, <1>7, <1>8 DEF Alone
<1>10. contended \subseteq contended'
  BY <1>1, <1>9, Contends
<1>11. StatesOf(o) \subseteq Held'
  BY <1>3, <1>6 DEF Held
<1>12. StatesOf(object[p]) \subseteq Made
  BY <1>1, <1>3, HeldHas DEF TypeOK
<1>13. Replaced(i) \subseteq Made
  <2>1. StatesOf(i.seen) \subseteq Made
    BY <1>1 DEF AimFits
  <2>2. Replaced(i) \subseteq StatesOf(i.seen)
    <3>1. CASE i.seen = None
      BY <3>1 DEF Replaced
    <3>2. CASE i.seen # None
      <4>1. i.seen \in Object
        BY <3>2, JobFields
      <4>2. Replaced(i) \subseteq {i.seen.own, i.seen.below} \ {0}
        BY <3>2 DEF Replaced
      <4>3. QED
        BY <4>1, <4>2, ObjectFacts
    <3>3. QED
      BY <3>1, <3>2
  <2>3. QED
    BY <2>1, <2>2
<1>14. gone' \subseteq Made'
  BY <1>1, <1>2, <1>7, <1>13 DEF TypeOK
<1>15. ASSUME NEW x \in Places, object'[x] # object[x]
       PROVE  /\ StatesOf(object'[x]) \subseteq Made'
              /\ StatesOf(object[x]) \subseteq Held' \cup gone' \cup contended'
  <2>1. x = p
    BY <1>6, <1>15
  <2>2. StatesOf(o) \subseteq Made'
    BY <1>5, <1>7, <1>12
  <2>3. StatesOf(object[p]) \subseteq Held' \cup gone' \cup contended'
    BY <1>2, <1>5, <1>10, <1>11
  <2>4. QED
    BY <1>6, <2>1, <2>2, <2>3
<1>16. Made' \subseteq Made \cup Held' /\ gone \subseteq gone'
  BY <1>2, <1>5, <1>7, <1>11
<1>17. /\ meta' \in [Slots -> Paths \cup {None}] /\ left' \in 0 .. MaxLeft
       /\ asked' \in 0 .. MaxRequests /\ meta' = meta
  BY <1>1, <1>2 DEF TypeOK
<1>18. \A s \in Slots : s \in Places /\ object'[s] = object[s]
  BY <1>3, <1>6 DEF Places
<1>19. QED
  BY <1>6, <1>7, <1>8, <1>9, <1>14, <1>15, <1>16, <1>17, <1>18, RequestStep

-----------------------------------------------------------------------------
(* Whole objects from place to place.                                       *)

\* What the invariant says of a job that has just been set, said of its value.
LEMMA FitsNext ==
  ASSUME NEW w \in Workers, NEW j, job'[w] = j,
         AimFits(j)', SeenStays(j)', CopyCovers(j)', SlotIsFresh(w, j)', ItemBeforeMeta(j)'
  PROVE  JobFits(w, job[w])'
BY DEF JobFits, AimFits, SeenStays, Looked, CopyCovers, SlotIsFresh, ItemBeforeMeta

\* The last stages of a request: its metadata, or the next item.
LEMMA GoesOn ==
  ASSUME TypeOK, NEW w \in Workers, NEW i \in Jobs, i = job[w], AimFits(i), NEW stage,
         Goto(w, stage), next' = next,
         \/ /\ stage = "unmeta" /\ i.op \in {"restore", "delete", "empty"}
            /\ i.stage \in {"rename", "remove"} /\ object'[i.from] = None
         \/ stage = "next" /\ i.op = "empty"
  PROVE  /\ job' \in [Workers -> Jobs \cup {Idle}] /\ \A v \in Workers \ {w} : job'[v] = job[v]
         /\ Names(job'[w]) = Names(i) /\ JobFits(w, job[w])'
<1>1. stage \in Stages
  BY DEF Stages
<1>2. PICK j : j = [i EXCEPT !.stage = stage]
  OBVIOUS
<1>3. /\ j \in Jobs /\ j.op = i.op /\ j.from = i.from /\ j.to = i.to /\ j.stage = stage
      /\ j.temp = i.temp /\ j.seen = i.seen /\ Names(j) = Names(i)
  BY <1>1, <1>2, Restaged
<1>4. job' = [job EXCEPT ![w] = j]
  BY <1>2 DEF Goto, TypeOK
<1>5. /\ job' \in [Workers -> Jobs \cup {Idle}] /\ job'[w] = j
      /\ \A v \in Workers \ {w} : job'[v] = job[v]
  BY <1>3, <1>4 DEF TypeOK
<1>6. Made' = Made
  BY DEF Made
<1>7. AimFits(j)'
  BY <1>3, <1>6 DEF AimFits, Contents, Transfers, Removals
<1>8. ItemBeforeMeta(j)'
  <2>1. stage = "unmeta" => i.from \in Slots
    BY DEF AimFits, Removals
  <2>2. QED
    BY <1>3, <2>1 DEF ItemBeforeMeta
<1>9. SeenStays(j)' /\ CopyCovers(j)' /\ SlotIsFresh(w, j)'
  BY <1>3 DEF SeenStays, CopyCovers, SlotIsFresh, Transfers
<1>10. JobFits(w, job[w])'
  BY <1>5, <1>7, <1>8, <1>9, FitsNext
<1>11. QED
  BY <1>3, <1>5, <1>10

LEMMA WriteMetaStep ==
  ASSUME FileInv, Histories, NEW w \in Workers, WriteMeta(w)
  PROVE  FileInv'
<1>0. PICK i \in Jobs : i = job[w]
  BY AtStage DEF WriteMeta
<1>1. /\ AimFits(i) /\ SeenStays(i) /\ SlotIsFresh(w, i) /\ i.op = "trash" /\ i.stage = "meta"
      /\ TypeOK
  BY <1>0, AtStage DEF WriteMeta
<1>2. /\ meta' = [meta EXCEPT ![i.to] = i.from] /\ Goto(w, "rename")
      /\ UNCHANGED <<object, left, next, gone, asked>>
  BY <1>0 DEF WriteMeta
<1>3. /\ i.to \in Slots /\ i.from \in Paths /\ i.to \in Names(i) /\ object[i.to] = None
      /\ i.from # None
  BY <1>1, TransferNames, PlacesAssumption DEF AimFits, SlotIsFresh, Transfers, Places
<1>4. /\ meta' \in [Slots -> Paths \cup {None}] /\ meta'[i.to] = i.from
      /\ \A s \in Slots : s # i.to => meta'[s] = meta[s]
  BY <1>1, <1>2, <1>3 DEF TypeOK
<1>5. "rename" \in Stages
  BY DEF Stages
<1>6. PICK j : j = [i EXCEPT !.stage = "rename"]
  OBVIOUS
<1>7. /\ j \in Jobs /\ j.op = i.op /\ j.from = i.from /\ j.to = i.to /\ j.stage = "rename"
      /\ j.temp = i.temp /\ j.seen = i.seen /\ Names(j) = Names(i)
  BY <1>5, <1>6, Restaged
<1>8. job' = [job EXCEPT ![w] = j]
  BY <1>0, <1>1, <1>2, <1>6 DEF Goto, TypeOK
<1>9. /\ job' \in [Workers -> Jobs \cup {Idle}] /\ job'[w] = j
      /\ \A v \in Workers \ {w} : job'[v] = job[v]
  BY <1>1, <1>7, <1>8 DEF TypeOK
<1>10. Made' = Made /\ next' = next /\ next \in Nat /\ next' \in 1 .. MaxStates + 1
       /\ gone \subseteq Made
  BY <1>1, <1>2, PlacesAssumption DEF Made, TypeOK
<1>11. Alone(w)
  BY <1>0, <1>2, <1>3, <1>4, <1>7, <1>9, <1>10 DEF Alone
<1>12. contended \subseteq contended'
  BY <1>1, <1>11, Contends
<1>13. AimFits(j)'
  BY <1>1, <1>7, <1>10 DEF AimFits, Contents, Transfers, Removals
<1>14. SeenStays(j)'
  BY <1>1, <1>2, <1>7, <1>12 DEF SeenStays, Looked
<1>15. SlotIsFresh(w, j)'
  BY <1>1, <1>2, <1>3, <1>4, <1>7, <1>9 DEF SlotIsFresh
<1>16. CopyCovers(j)' /\ ItemBeforeMeta(j)'
  BY <1>7 DEF CopyCovers, ItemBeforeMeta
<1>17. JobFits(w, job[w])'
  BY <1>9, <1>13, <1>14, <1>15, <1>16, FitsNext
<1>18. \A x \in Places : object'[x] = object[x]
  BY <1>2
<1>19. ASSUME NEW s \in Slots, object'[s] # None, object'[s] # object[s] \/ meta'[s] # meta[s]
       PROVE  meta'[s] # None
  BY <1>2, <1>3, <1>4, <1>19
<1>20. /\ object' \in [Places -> Object \cup {None}] /\ left' \in 0 .. MaxLeft
       /\ asked' \in 0 .. MaxRequests
  BY <1>1, <1>2 DEF TypeOK
<1>21. gone' = gone
  BY <1>2
<1>22. QED
  BY <1>4, <1>9, <1>10, <1>11, <1>17, <1>18, <1>19, <1>20, <1>21, RequestStep

\* An object appears at the target of a transfer: nobody else is about to take the slot.
LEMMA TargetIsFree ==
  ASSUME NEW w \in Workers, NEW i \in Jobs, AimFits(i), SlotIsFresh(w, i), i.op \in Transfers,
         i.stage \notin {"meta", "remove"}, i.to \in Slots
  PROVE  meta[i.to] # None /\ \A v \in Workers \ {w} : i.to \notin Names(job[v])
BY TransferNames DEF SlotIsFresh

LEMMA RenameStep ==
  ASSUME FileInv, Histories, NEW w \in Workers, RenameNoReplace(w)
  PROVE  FileInv'
<1>0. PICK i \in Jobs : i = job[w]
  BY AtStage DEF RenameNoReplace
<1>1. /\ AimFits(i) /\ SlotIsFresh(w, i) /\ i.op \in {"rename", "move", "trash", "restore"}
      /\ i.stage = "rename" /\ TypeOK
  BY <1>0, AtStage DEF RenameNoReplace
<1>2. /\ object[i.from] # None /\ object[i.to] = None
      /\ object' = [object EXCEPT ![i.to] = object[i.from], ![i.from] = None]
      /\ IF i.op = "restore" THEN Goto(w, "unmeta") ELSE Done(w)
      /\ UNCHANGED <<meta, left, next, gone, asked>>
  BY <1>0 DEF RenameNoReplace
<1>3. /\ i.from \in Places /\ i.to \in Places /\ i.from # i.to
      /\ i.from \in Names(i) /\ i.to \in Names(i) /\ i.op \in Transfers
  BY <1>1, TransferNames DEF Transfers
<1>4. /\ object' \in [Places -> Object \cup {None}]
      /\ object'[i.to] = object[i.from] /\ object'[i.from] = None
      /\ \A x \in Places : x \notin {i.from, i.to} => object'[x] = object[x]
  BY <1>1, <1>2, <1>3 DEF TypeOK
<1>5. /\ job' \in [Workers -> Jobs \cup {Idle}] /\ \A v \in Workers \ {w} : job'[v] = job[v]
      /\ Names(job'[w]) \subseteq Names(i) /\ JobFits(w, job[w])'
  <2>1. next' = next
    BY <1>2
  <2>2. CASE i.op = "restore"
    BY <1>0, <1>1, <1>2, <1>4, <2>1, <2>2, GoesOn
  <2>3. CASE i.op # "restore"
    BY <1>0, <1>1, <1>2, <2>3, DoneFacts
  <2>4. QED
    BY <2>2, <2>3
<1>6. Made' = Made /\ next' = next /\ next \in Nat /\ next' \in 1 .. MaxStates + 1
      /\ gone \subseteq Made
  BY <1>1, <1>2, PlacesAssumption DEF Made, TypeOK
<1>7. i.to \in Slots => meta[i.to] # None /\ \A v \in Workers \ {w} : i.to \notin Names(job[v])
  BY <1>1, <1>3, TargetIsFree
<1>8. \A s \in Slots : s \in Places /\ meta'[s] = meta[s]
  BY <1>2 DEF Places
<1>9. \A s \in Slots : object[s] = None /\ object'[s] # None => s = i.to
  BY <1>3, <1>4, <1>8
<1>10. \A x \in Places : object'[x] # object[x] => x \in Names(i)
  BY <1>3, <1>4
<1>11. Alone(w)
  BY <1>0, <1>5, <1>6, <1>7, <1>8, <1>9, <1>10 DEF Alone
<1>12. ASSUME NEW x \in Places, object'[x] # object[x]
       PROVE  /\ StatesOf(object'[x]) \subseteq Made'
              /\ StatesOf(object[x]) \subseteq Held' \cup gone' \cup contended'
  <2>1. StatesOf(object[i.from]) \subseteq Made
    BY <1>1, <1>3, HeldHas DEF TypeOK
  <2>2. StatesOf(object[i.from]) \subseteq Held'
    BY <1>3, <1>4 DEF Held
  <2>3. x = i.from \/ x = i.to
    BY <1>4, <1>12
  <2>4. QED
    BY <1>2, <1>4, <1>6, <2>1, <2>2, <2>3, NothingHasNoState
<1>13. ASSUME NEW s \in Slots, object'[s] # None, object'[s] # object[s] \/ meta'[s] # meta[s]
       PROVE  meta'[s] # None
  BY <1>4, <1>7, <1>8, <1>13
<1>14. /\ meta' \in [Slots -> Paths \cup {None}] /\ left' \in 0 .. MaxLeft
       /\ asked' \in 0 .. MaxRequests /\ gone' = gone
  BY <1>1, <1>2 DEF TypeOK
<1>15. QED
  BY <1>4, <1>5, <1>6, <1>11, <1>12, <1>13, <1>14, RequestStep

LEMMA PlaceStep ==
  ASSUME FileInv, Histories, NEW w \in Workers, Place(w)
  PROVE  FileInv'
<1>0. PICK i \in Jobs : i = job[w]
  BY AtStage DEF Place
<1>1. /\ AimFits(i) /\ SlotIsFresh(w, i) /\ SeenStays(i) /\ CopyCovers(i)
      /\ i.op \in Transfers /\ i.stage = "place" /\ TypeOK
  BY <1>0, AtStage DEF Place, Transfers
<1>2. /\ object[i.to] = None /\ object' = [object EXCEPT ![i.to] = i.temp]
      /\ UNCHANGED <<meta, left, next, gone, asked>>
  BY <1>0 DEF Place
<1>3. /\ i.from \in Places /\ i.to \in Places /\ i.from # i.to
      /\ i.from \in Names(i) /\ i.to \in Names(i)
  BY <1>1, TransferNames
<1>4. i.temp \in Object /\ StatesOf(i.temp) \subseteq Made /\ i.temp # None
  BY <1>1, NoneAssumption DEF AimFits
<1>5. /\ object' \in [Places -> Object \cup {None}] /\ object'[i.to] = i.temp
      /\ \A x \in Places : x # i.to => object'[x] = object[x]
  BY <1>1, <1>2, <1>3, <1>4 DEF TypeOK
<1>6. Made' = Made /\ next' = next /\ next \in Nat /\ next' \in 1 .. MaxStates + 1
      /\ gone \subseteq Made
  BY <1>1, <1>2, PlacesAssumption DEF Made, TypeOK
<1>7. i.to \in Slots => meta[i.to] # None /\ \A v \in Workers \ {w} : i.to \notin Names(job[v])
  BY <1>1, TargetIsFree
<1>8. \A s \in Slots : s \in Places /\ meta'[s] = meta[s]
  BY <1>2 DEF Places
<1>9. PICK j : j = IF i.op = "copy" THEN Idle ELSE [i EXCEPT !.stage = "remove", !.temp = None]
  OBVIOUS
<1>10. job' = [job EXCEPT ![w] = j]
  BY <1>0, <1>9 DEF Place, Done
<1>11. i.op # "copy" =>
         /\ j \in Jobs /\ j.op = i.op /\ j.from = i.from /\ j.to = i.to /\ j.stage = "remove"
         /\ j.temp = None /\ j.seen = i.seen /\ Names(j) = Names(i)
  <2> SUFFICES ASSUME i.op # "copy"
               PROVE  /\ j \in Jobs /\ j.op = i.op /\ j.from = i.from /\ j.to = i.to
                      /\ j.stage = "remove" /\ j.temp = None /\ j.seen = i.seen
                      /\ Names(j) = Names(i)
    OBVIOUS
  <2>1. j = [i EXCEPT !.stage = "remove", !.temp = None] /\ "remove" \in Stages
    BY <1>9 DEF Stages
  <2>2. /\ j \in Jobs /\ j.op = i.op /\ j.from = i.from /\ j.to = i.to /\ j.stage = "remove"
        /\ j.temp = None /\ j.seen = i.seen /\ j.todo = i.todo
    BY <2>1 DEF Jobs
  <2>3. QED
    BY <2>2, JobFields
<1>12. j \in Jobs \cup {Idle} /\ Names(j) \subseteq Names(i)
  BY <1>9, <1>11 DEF Names
<1>13. /\ job' \in [Workers -> Jobs \cup {Idle}] /\ job'[w] = j
       /\ \A v \in Workers \ {w} : job'[v] = job[v]
  BY <1>1, <1>10, <1>12 DEF TypeOK
<1>14. \A s \in Slots : object[s] = None /\ object'[s] # None => s = i.to
  BY <1>5, <1>8
<1>15. \A x \in Places : object'[x] # object[x] => x \in Names(i)
  BY <1>3, <1>5
<1>16. Alone(w)
  BY <1>0, <1>6, <1>7, <1>8, <1>12, <1>13, <1>14, <1>15 DEF Alone
<1>17. contended \subseteq contended'
  BY <1>1, <1>16, Contends
<1>18. JobFits(w, job[w])'
  <2>1. CASE i.op = "copy"
    BY <1>9, <1>13, <2>1 DEF JobFits
  <2>2. CASE i.op # "copy"
    <3>1. StatesOf(j.temp) \cup StatesOf(j.seen) \subseteq Made
      BY <1>1, <1>11, <2>2, NothingHasNoState DEF AimFits
    <3>2. AimFits(j)'
      BY <1>1, <1>6, <1>11, <2>2, <3>1 DEF AimFits, Contents, Transfers, Removals
    <3>3. SeenStays(j)'
      <4>1. Looked(j) = i.from /\ Looked(i) = i.from
        BY <1>3, <1>11, <2>2, PlacesAssumption DEF Looked
      <4>2. object[i.from] = i.seen \/ StatesOf(object[i.from]) \subseteq contended
        BY <1>1, <4>1 DEF SeenStays
      <4>3. QED
        BY <1>3, <1>5, <1>11, <1>17, <2>2, <4>1, <4>2 DEF SeenStays, Looked
    <3>4. CopyCovers(j)'
      <4>1. StatesOf(object[i.from]) \subseteq StatesOf(i.temp) \cup contended
        BY <1>1 DEF CopyCovers
      <4>2. QED
        BY <1>3, <1>5, <1>11, <1>17, <2>2, <4>1 DEF CopyCovers
    <3>5. SlotIsFresh(w, j)' /\ ItemBeforeMeta(j)'
      BY <1>11, <2>2 DEF SlotIsFresh, ItemBeforeMeta
    <3>6. QED
      BY <1>13, <3>2, <3>3, <3>4, <3>5, FitsNext
  <2>3. QED
    BY <2>1, <2>2
<1>19. ASSUME NEW x \in Places, object'[x] # object[x]
       PROVE  /\ StatesOf(object'[x]) \subseteq Made'
              /\ StatesOf(object[x]) \subseteq Held' \cup gone' \cup contended'
  BY <1>2, <1>4, <1>5, <1>6, <1>19, NothingHasNoState
<1>20. ASSUME NEW s \in Slots, object'[s] # None, object'[s] # object[s] \/ meta'[s] # meta[s]
       PROVE  meta'[s] # None
  BY <1>5, <1>7, <1>8, <1>20
<1>21. /\ meta' \in [Slots -> Paths \cup {None}] /\ left' \in 0 .. MaxLeft
       /\ asked' \in 0 .. MaxRequests /\ gone' = gone
  BY <1>1, <1>2 DEF TypeOK
<1>22. QED
  BY <1>5, <1>6, <1>13, <1>16, <1>18, <1>19, <1>20, <1>21, RequestStep

-----------------------------------------------------------------------------
(* Removals, and requests that end early.                                   *)

\* What a removal takes from a place was to be discarded, or is at another place still.
LEMMA RemovalIsCovered ==
  ASSUME TypeOK, NEW i \in Jobs, AimFits(i), SeenStays(i), CopyCovers(i), i.stage = "remove"
  PROVE  /\ i.from \in Places /\ i.from \in Names(i)
         /\ Discarded(i) \subseteq Made
         /\ \/ StatesOf(object[i.from]) \subseteq Discarded(i) \cup contended
            \/ /\ i.to \in Places /\ i.to # i.from
               /\ StatesOf(object[i.from]) \subseteq StatesOf(object[i.to]) \cup contended
<1>1. i.op \in Transfers \cup Removals
  BY JobFields DEF AimFits
<1>2. StatesOf(i.seen) \subseteq Made
  BY DEF AimFits
<1>3. Discarded(i) \subseteq Made
  BY <1>2 DEF Discarded
<1>4. CASE i.op \in Transfers
  BY <1>3, <1>4, TransferNames DEF CopyCovers
<1>5. CASE i.op \in Removals
  <2>1. i.from \in Slots /\ i.from \in Places /\ i.from # None
    BY <1>5, PlacesAssumption DEF AimFits, Places
  <2>2. object[i.from] = i.seen \/ StatesOf(object[i.from]) \subseteq contended
    BY <2>1 DEF SeenStays, Looked
  <2>3. Discarded(i) = StatesOf(i.seen)
    BY <1>5 DEF Discarded, Removals
  <2>4. i.from \in Names(i)
    BY <2>1, JobFields
  <2>5. QED
    BY <1>3, <2>1, <2>2, <2>3, <2>4
<1>6. QED
  BY <1>1, <1>4, <1>5

\* A removal, whole or not: what is left of the object has no other states.
LEMMA RemovalStep ==
  ASSUME FileInv, Histories, NEW w \in Workers, NEW i \in Jobs, i = job[w], i.stage = "remove",
         NEW o \in Object \cup {None}, object' = [object EXCEPT ![i.from] = o],
         StatesOf(o) \subseteq StatesOf(object[i.from]), o # None => object[i.from] # None,
         gone' = gone \cup Discarded(i), next' = next,
         left' \in 0 .. MaxLeft, asked' = asked,
         meta' = meta \/ (i.op = "trash" /\ meta' = [meta EXCEPT ![i.to] = None]),
         job' \in [Workers -> Jobs \cup {Idle}], \A v \in Workers \ {w} : job'[v] = job[v],
         Names(job'[w]) \subseteq Names(i), JobFits(w, job[w])'
  PROVE  FileInv'
<1>1. /\ TypeOK /\ AimFits(i) /\ SeenStays(i) /\ CopyCovers(i) /\ NothingIsLost
      /\ job[w] # Idle
  BY JobOf, JobFields DEF FileInv
<1>2. PICK p \in Places : p = i.from /\ p \in Names(i)
  BY <1>1, RemovalIsCovered
<1>3. /\ object' \in [Places -> Object \cup {None}] /\ object'[p] = o
      /\ \A x \in Places : x # p => object'[x] = object[x]
  BY <1>1, <1>2 DEF TypeOK
<1>4. Made' = Made /\ next \in Nat /\ next' \in 1 .. MaxStates + 1 /\ gone \subseteq Made
      /\ asked' \in 0 .. MaxRequests
  BY <1>1, PlacesAssumption DEF Made, TypeOK
<1>5. i.op = "trash" => i.to \in Slots /\ i.to \in Names(i) /\ i.from \in Paths
  BY <1>1, TransferNames DEF AimFits, Transfers
<1>6. /\ meta' \in [Slots -> Paths \cup {None}]
      /\ \A s \in Slots : meta'[s] # meta[s] => i.op = "trash" /\ s = i.to
  BY <1>1, <1>5 DEF TypeOK
<1>7. \A s \in Slots : object'[s] # None => object[s] # None
  BY <1>2, <1>3 DEF Places
<1>8. \A x \in Places : object'[x] # object[x] => x \in Names(i)
  BY <1>2, <1>3
<1>9. Alone(w)
  BY <1>4, <1>5, <1>6, <1>7, <1>8 DEF Alone
<1>10. contended \subseteq contended'
  BY <1>1, <1>9, Contends
<1>11. StatesOf(object[p]) \subseteq Held' \cup gone' \cup contended'
  <2>1. CASE StatesOf(object[p]) \subseteq Discarded(i) \cup contended
    BY <1>10, <2>1
  <2>2. CASE /\ i.to \in Places /\ i.to # p
             /\ StatesOf(object[p]) \subseteq StatesOf(object[i.to]) \cup contended
    <3>1. object'[i.to] = object[i.to]
      BY <1>3, <2>2
    <3>2. StatesOf(object[i.to]) \subseteq Held'
      BY <2>2, <3>1 DEF Held
    <3>3. QED
      BY <1>10, <2>2, <3>2
  <2>3. QED
    BY <1>1, <1>2, <2>1, <2>2, RemovalIsCovered
<1>12. gone' \subseteq Made' /\ gone \subseteq gone'
  BY <1>1, <1>4, RemovalIsCovered
<1>13. ASSUME NEW x \in Places, object'[x] # object[x]
       PROVE  /\ StatesOf(object'[x]) \subseteq Made'
              /\ StatesOf(object[x]) \subseteq Held' \cup gone' \cup contended'
  <2>1. x = p
    BY <1>3, <1>13
  <2>2. StatesOf(object[p]) \subseteq Made
    BY <1>1, HeldHas DEF TypeOK
  <2>3. QED
    BY <1>2, <1>3, <1>4, <1>11, <2>1, <2>2
<1>14. ASSUME NEW s \in Slots, object'[s] # None, object'[s] # object[s] \/ meta'[s] # meta[s]
       PROVE  meta'[s] # None \/ s \in unreturned'
  <2>1. CASE meta'[s] # meta[s]
    <3>1. Running(w, {"trash"}, "remove") /\ job[w].to = s
      BY <1>1, <1>6, <2>1 DEF Running
    <3>2. QED
      BY <1>14, <2>1, <3>1 DEF Histories
  <2>2. CASE meta'[s] = meta[s]
    <3>1. meta[s] # None \/ s \in unreturned
      BY <1>1, <1>7, <1>14 DEF NothingIsLost
    <3>2. QED
      BY <1>14, <2>2, <3>1 DEF Histories
  <2>3. QED
    BY <2>1, <2>2
<1>15. Made' \subseteq Made \cup Held'
  BY <1>4
<1>16. QED
  BY <1>3, <1>4, <1>6, <1>9, <1>12, <1>13, <1>14, <1>15, RequestStep

\* A job at the removal of its source, or of an item.
LEMMA AtRemoval ==
  ASSUME FileInv, NEW w \in Workers, NEW ops, Running(w, ops, "remove")
  PROVE  /\ TypeOK /\ job[w] \in Jobs /\ job[w].stage = "remove" /\ job[w].op \in ops
         /\ AimFits(job[w]) /\ job[w].from \in Places
         /\ object[job[w].from] \in Object \cup {None} /\ left \in 0 .. MaxLeft
<1>1. /\ TypeOK /\ job[w] \in Jobs /\ job[w].stage = "remove" /\ job[w].op \in ops
      /\ AimFits(job[w]) /\ SeenStays(job[w]) /\ CopyCovers(job[w])
  BY AtStage
<1>2. job[w].from \in Places
  BY <1>1, RemovalIsCovered
<1>3. QED
  BY <1>1, <1>2 DEF TypeOK

LEMMA RemoveAllStep ==
  ASSUME FileInv, Histories, NEW w \in Workers, RemoveAll(w)
  PROVE  FileInv'
<1>0. PICK i : i = job[w]
  OBVIOUS
<1>1. /\ TypeOK /\ i \in Jobs /\ i.stage = "remove" /\ AimFits(i) /\ i.from \in Places
      /\ i.op \in {"move", "trash", "restore", "delete", "empty"} /\ left \in 0 .. MaxLeft
  BY <1>0, AtRemoval DEF RemoveAll
<1>2. /\ object' = [object EXCEPT ![i.from] = None] /\ gone' = gone \cup Discarded(i)
      /\ IF i.op \in {"move", "trash"} THEN Done(w) ELSE Goto(w, "unmeta")
      /\ meta' = meta /\ left' = left /\ next' = next /\ asked' = asked
  BY <1>0 DEF RemoveAll
<1>3. object'[i.from] = None
  BY <1>1, <1>2 DEF TypeOK
<1>4. /\ job' \in [Workers -> Jobs \cup {Idle}] /\ \A v \in Workers \ {w} : job'[v] = job[v]
      /\ Names(job'[w]) \subseteq Names(i) /\ JobFits(w, job[w])'
  <2>1. CASE i.op \in {"move", "trash"}
    BY <1>1, <1>2, <2>1, DoneFacts
  <2>2. CASE i.op \notin {"move", "trash"}
    <3>1. Goto(w, "unmeta") /\ i.op \in {"restore", "delete", "empty"}
      BY <1>1, <1>2, <2>2
    <3>2. QED
      BY <1>0, <1>1, <1>2, <1>3, <3>1, GoesOn
  <2>3. QED
    BY <2>1, <2>2
<1>5. QED
  BY <1>0, <1>1, <1>2, <1>4, NothingHasNoState, RemovalStep

\* The next item, or the end of the request.
LEMMA ProceedFacts ==
  ASSUME TypeOK, NEW w \in Workers, NEW i \in Jobs, i = job[w], AimFits(i), next' = next,
         Proceed(w)
  PROVE  /\ job' \in [Workers -> Jobs \cup {Idle}] /\ \A v \in Workers \ {w} : job'[v] = job[v]
         /\ Names(job'[w]) \subseteq Names(i) /\ JobFits(w, job[w])'
<1>1. CASE i.op = "empty"
  BY <1>1, GoesOn DEF Proceed
<1>2. CASE i.op # "empty"
  BY <1>2, DoneFacts DEF Proceed
<1>3. QED
  BY <1>1, <1>2

LEMMA RemoveFailsStep ==
  ASSUME FileInv, Histories, NEW w \in Workers, RemoveFails(w)
  PROVE  FileInv'
<1>0. PICK i : i = job[w]
  OBVIOUS
<1>1. /\ TypeOK /\ i \in Jobs /\ i.stage = "remove" /\ AimFits(i) /\ i.from \in Places
      /\ object[i.from] \in Object \cup {None} /\ left \in 0 .. MaxLeft
  BY <1>0, AtRemoval DEF RemoveFails
<1>2. /\ object[i.from] # None /\ object' = [object EXCEPT ![i.from] = Torn(object[i.from])]
      /\ gone' = gone \cup Discarded(i)
      /\ meta' = IF i.op = "trash" THEN [meta EXCEPT ![i.to] = None] ELSE meta
      /\ Proceed(w) /\ left' = left /\ next' = next /\ asked' = asked
  BY <1>0 DEF RemoveFails
<1>3. PICK o \in Object : o = Torn(object[i.from]) /\ StatesOf(o) \subseteq StatesOf(object[i.from])
  BY <1>1, <1>2, TornFacts
<1>4. /\ job' \in [Workers -> Jobs \cup {Idle}] /\ \A v \in Workers \ {w} : job'[v] = job[v]
      /\ Names(job'[w]) \subseteq Names(i) /\ JobFits(w, job[w])'
  BY <1>0, <1>1, <1>2, ProceedFacts
<1>5. meta' = meta \/ (i.op = "trash" /\ meta' = [meta EXCEPT ![i.to] = None])
  BY <1>2
<1>6. object' = [object EXCEPT ![i.from] = o]
  BY <1>2, <1>3
<1>7. QED
  BY <1>0, <1>1, <1>2, <1>3, <1>4, <1>5, <1>6, RemovalStep

\* A step that leaves what is at the places and takes metadata of a slot with nothing in it.
LEMMA MetaStep ==
  ASSUME FileInv, Histories, NEW w \in Workers, NEW i \in Jobs, i = job[w],
         object' = object, gone' = gone, next' = next, left' \in 0 .. MaxLeft, asked' = asked,
         NEW s, meta' = meta \/ meta' = [meta EXCEPT ![s] = None],
         meta' = meta \/ (s \in Slots /\ s \in Names(i) /\ object[s] = None),
         job' \in [Workers -> Jobs \cup {Idle}], \A v \in Workers \ {w} : job'[v] = job[v],
         Names(job'[w]) \subseteq Names(i), JobFits(w, job[w])'
  PROVE  FileInv'
<1>1. TypeOK
  BY DEF FileInv
<1>2. Made' = Made /\ next \in Nat /\ next' \in 1 .. MaxStates + 1 /\ gone \subseteq Made
      /\ asked' \in 0 .. MaxRequests
  BY <1>1, PlacesAssumption DEF Made, TypeOK
<1>3. /\ meta' \in [Slots -> Paths \cup {None}]
      /\ \A u \in Slots : meta'[u] # meta[u] => u \in Names(i) /\ object[u] = None
  BY <1>1 DEF TypeOK
<1>4. Alone(w)
  BY <1>2, <1>3 DEF Alone
<1>5. object' \in [Places -> Object \cup {None}]
  BY <1>1 DEF TypeOK
<1>6. QED
  BY <1>2, <1>3, <1>4, <1>5, RequestStep

LEMMA UnmetaStep ==
  ASSUME FileInv, Histories, NEW w \in Workers, Unmeta(w)
  PROVE  FileInv'
<1>0. PICK i \in Jobs : i = job[w]
  BY AtStage DEF Unmeta
<1>1. TypeOK /\ AimFits(i) /\ i.from \in Slots /\ object[i.from] = None
  BY <1>0, AtStage DEF Unmeta, ItemBeforeMeta
<1>2. /\ object' = object /\ gone' = gone /\ next' = next /\ left' = left /\ asked' = asked
      /\ meta' = meta \/ meta' = [meta EXCEPT ![i.from] = None]
      /\ Proceed(w)
  BY <1>0 DEF Unmeta
<1>3. i.from \in Names(i)
  BY <1>1, JobFields, PlacesAssumption DEF Places
<1>4. /\ job' \in [Workers -> Jobs \cup {Idle}] /\ \A v \in Workers \ {w} : job'[v] = job[v]
      /\ Names(job'[w]) \subseteq Names(i) /\ JobFits(w, job[w])'
  BY <1>0, <1>1, <1>2, ProceedFacts
<1>5. left' \in 0 .. MaxLeft
  BY <1>1, <1>2 DEF TypeOK
<1>6. QED
  BY <1>0, <1>1, <1>2, <1>3, <1>4, <1>5, MetaStep

LEMMA FailStep ==
  ASSUME FileInv, Histories, NEW w \in Workers, Fail(w)
  PROVE  FileInv'
<1>0. PICK i \in Jobs : i = job[w]
  BY JobOf DEF Fail
<1>1. TypeOK /\ AimFits(i) /\ SlotIsFresh(w, i) /\ i.stage \notin {"next", "remove", "unmeta"}
  BY <1>0, JobOf DEF Fail
<1>2. /\ object' = object /\ gone' = gone /\ next' = next /\ left' = left /\ asked' = asked
      /\ meta' = IF i.op = "trash" /\ i.stage # "meta" THEN [meta EXCEPT ![i.to] = None] ELSE meta
      /\ Done(w)
  BY <1>0 DEF Fail
<1>3. meta' = meta \/ meta' = [meta EXCEPT ![i.to] = None]
  BY <1>2
<1>4. meta' = meta \/ (i.to \in Slots /\ i.to \in Names(i) /\ object[i.to] = None)
  <2>1. CASE i.op = "trash"
    BY <1>1, <2>1, TransferNames DEF SlotIsFresh, AimFits, Transfers
  <2>2. CASE i.op # "trash"
    BY <1>2, <2>2
  <2>3. QED
    BY <2>1, <2>2
<1>5. /\ job' \in [Workers -> Jobs \cup {Idle}] /\ \A v \in Workers \ {w} : job'[v] = job[v]
      /\ Names(job'[w]) \subseteq Names(i) /\ JobFits(w, job[w])'
  BY <1>1, <1>2, DoneFacts
<1>6. left' \in 0 .. MaxLeft
  BY <1>1, <1>2 DEF TypeOK
<1>7. QED
  BY <1>0, <1>2, <1>3, <1>4, <1>5, <1>6, MetaStep

LEMMA KillStep ==
  ASSUME FileInv, Histories, NEW w \in Workers, Kill(w)
  PROVE  FileInv'
<1>0. PICK i \in Jobs : i = job[w]
  BY JobOf DEF Kill
<1>1. TypeOK /\ AimFits(i) /\ job[w] # Idle
  BY <1>0, JobOf DEF Kill
<1>2. /\ object' = IF i.stage = "remove" /\ object[i.from] # None
                     THEN [object EXCEPT ![i.from] = Torn(object[i.from])] ELSE object
      /\ gone' = IF i.stage = "remove" THEN gone \cup Discarded(i) ELSE gone
      /\ left' = left \/ (left < MaxLeft /\ left' = left + 1)
      /\ Done(w) /\ meta' = meta /\ next' = next /\ asked' = asked
  BY <1>0 DEF Kill
<1>3. left' \in 0 .. MaxLeft
  BY <1>1, <1>2, PlacesAssumption DEF TypeOK
<1>4. /\ job' \in [Workers -> Jobs \cup {Idle}] /\ \A v \in Workers \ {w} : job'[v] = job[v]
      /\ Names(job'[w]) \subseteq Names(i) /\ JobFits(w, job[w])'
  BY <1>1, <1>2, DoneFacts
<1>5. CASE i.stage # "remove"
  <2>1. object' = object /\ gone' = gone
    BY <1>2, <1>5
  <2>2. QED
    BY <1>0, <1>2, <1>3, <1>4, <2>1, MetaStep
<1>6. CASE i.stage = "remove"
  <2>1. Running(w, {i.op}, "remove")
    BY <1>0, <1>1, <1>6 DEF Running
  <2>2. i.from \in Places /\ object[i.from] \in Object \cup {None}
    BY <1>0, <2>1, AtRemoval
  <2>3. PICK o \in Object \cup {None} :
          o = IF object[i.from] # None THEN Torn(object[i.from]) ELSE None
    BY <2>2, TornFacts
  <2>4. StatesOf(o) \subseteq StatesOf(object[i.from]) /\ (o # None => object[i.from] # None)
    BY <2>2, <2>3, TornFacts
  <2>5. object' = [object EXCEPT ![i.from] = o]
    <3>1. CASE object[i.from] # None
      BY <1>2, <1>6, <2>3, <3>1
    <3>2. CASE object[i.from] = None
      <4>1. object' = object /\ o = None
        BY <1>2, <1>6, <2>3, <3>2
      <4>2. object \in [Places -> Object \cup {None}]
        BY <1>1 DEF TypeOK
      <4>3. QED
        BY <2>2, <3>2, <4>1, <4>2
    <3>3. QED
      BY <3>1, <3>2
  <2>6. gone' = gone \cup Discarded(i)
    BY <1>2, <1>6
  <2>7. QED
    BY <1>0, <1>2, <1>3, <1>4, <1>6, <2>3, <2>4, <2>5, <2>6, RemovalStep
<1>7. QED
  BY <1>5, <1>6

-----------------------------------------------------------------------------
(* The invariant.                                                           *)

LEMMA InitFits == Init => FileInv
<1> SUFFICES ASSUME Init PROVE FileInv
  OBVIOUS
<1>1. PICK p \in Paths, o \in {File(1), Directory(1, 2)} :
        /\ object = [x \in Places |-> IF x = p THEN o ELSE None]
        /\ next = IF o.kind = "file" THEN 2 ELSE 3
  BY DEF Init
<1>2. 1 \in Number /\ 2 \in Number
  BY PlacesAssumption DEF Number
<1>3. /\ File(1) \in Object /\ File(1).kind = "file" /\ StatesOf(File(1)) = {1}
      /\ Directory(1, 2) \in Object /\ Directory(1, 2).kind = "directory"
      /\ StatesOf(Directory(1, 2)) = {1, 2}
  BY <1>2, FileFacts, DirectoryFacts
<1>4. /\ o \in Object /\ p \in Places
      /\ \/ StatesOf(o) = {1} /\ next = 2
         \/ StatesOf(o) = {1, 2} /\ next = 3
  BY <1>1, <1>3 DEF Places
<1>5. StatesOf(o) = Made /\ next \in 1 .. MaxStates + 1
  <2>1. 1 .. 2 - 1 = {1} /\ 1 .. 3 - 1 = {1, 2}
    OBVIOUS
  <2>2. next = 2 \/ next = 3
    BY <1>4
  <2>3. StatesOf(o) = Made
    BY <1>4, <2>1 DEF Made
  <2>4. QED
    BY <2>2, <2>3, PlacesAssumption
<1>6. /\ object \in [Places -> Object \cup {None}] /\ object[p] = o
      /\ \A x \in Places : x # p => object[x] = None
  BY <1>1, <1>4
<1>7. Held = Made
  <2>1. StatesOf(o) \subseteq Held
    BY <1>4, <1>6 DEF Held
  <2>2. \A x \in Places : StatesOf(object[x]) \subseteq StatesOf(o)
    BY <1>6, NothingHasNoState
  <2>3. Held \subseteq StatesOf(o)
    BY <2>2 DEF Held
  <2>4. QED
    BY <1>5, <2>1, <2>3
<1>8. TypeOK
  BY <1>5, <1>6, <1>7, PlacesAssumption DEF Init, TypeOK
<1>9. NothingIsLost
  <2>1. \A s \in Slots : object[s] = None
    BY <1>1, <1>6, PlacesAssumption DEF Places
  <2>2. QED
    BY <1>7, <2>1 DEF NothingIsLost
<1>10. \A w \in Workers : JobFits(w, job[w])
  BY DEF Init, JobFits
<1>11. QED
  BY <1>8, <1>9, <1>10 DEF FileInv

LEMMA StepFits == FileInv /\ [Next]_vars => FileInv'
<1> SUFFICES ASSUME FileInv, [Next]_vars PROVE FileInv'
  OBVIOUS
<1>1. CASE UNCHANGED vars
  <2>1. TypeOK' /\ NothingIsLost'
    BY <1>1 DEF vars, FileInv, TypeOK, NothingIsLost, Made, Held
  <2>2. \A w \in Workers : JobFits(w, job[w])'
    BY <1>1 DEF vars, FileInv, JobFits, AimFits, SeenStays, Looked, CopyCovers, SlotIsFresh,
                ItemBeforeMeta, Made
  <2>3. QED
    BY <2>1, <2>2 DEF FileInv
<1>2. ASSUME NEW w \in Workers, Histories, Content(w) PROVE FileInv'
  BY <1>2, ContentBegins, FillStep, LooksStep, PublishStep DEF Content
<1>3. ASSUME NEW w \in Workers, Histories, Transfer(w) PROVE FileInv'
  BY <1>3, TransferBegins, WriteMetaStep, RenameStep, LooksStep, CopyTreeStep, PlaceStep
     DEF Transfer
<1>4. ASSUME NEW w \in Workers, Histories, Removal(w) PROVE FileInv'
  BY <1>4, TransferBegins, EmptyStep, EmptyNextStep, RemoveAllStep, RemoveFailsStep, UnmetaStep
     DEF Removal
<1>5. ASSUME NEW w \in Workers, Histories, Fail(w) \/ Kill(w) PROVE FileInv'
  BY <1>5, FailStep, KillStep
<1>6. QED
  BY <1>1, <1>2, <1>3, <1>4, <1>5 DEF Next, Rest

\* What every request in flight knows of the places it names stays true, or is contended.
THEOREM FileInvariant == Spec => []FileInv
BY InitFits, StepFits, PTL DEF Spec

\* The types, and nothing is held, removed or contended that has not been made.
THEOREM FileTypeTheorem == Spec => []TypeOK
<1>1. FileInv => TypeOK
  BY DEF FileInv
<1>2. QED
  BY <1>1, FileInvariant, PTL

\* Whatever call fails and wherever a request is cut off, nothing that one request alone
\* works on is lost, and no item of the trash loses its way back except by the clean-up of
\* trashOne (manager.go, moveOne, trashOne and restoreTrash).
THEOREM NothingIsLostTheorem == Spec => []NothingIsLost
<1>1. FileInv => NothingIsLost
  BY DEF FileInv
<1>2. QED
  BY <1>1, FileInvariant, PTL

-----------------------------------------------------------------------------
(* What a step puts where.                                                  *)

\* The system calls that alter what is at a place.
Alters(w) ==
  Publish(w) \/ RenameNoReplace(w) \/ Place(w) \/ RemoveAll(w) \/ RemoveFails(w) \/ Kill(w)

LEMMA OthersAlterNothing ==
  ASSUME Next, \A w \in Workers : ~Alters(w)
  PROVE  object' = object
<1>1. CASE Rest
  BY <1>1 DEF Rest, vars
<1>2. ASSUME NEW w \in Workers, Content(w) PROVE object' = object
  BY <1>2 DEF Content, Alters, WriteText, Upload, WriteBelow, Mkdir, Chmod, Begin, Fill, Recheck
<1>3. ASSUME NEW w \in Workers, Transfer(w) PROVE object' = object
  BY <1>3 DEF Transfer, Alters, Rename, Move, Copy, Trash, Restore, Begin, WriteMeta, CrossDevice,
              CopyTree, Verify
<1>4. ASSUME NEW w \in Workers, Removal(w) PROVE object' = object
  BY <1>4 DEF Removal, Alters, Delete, Begin, Empty, EmptyNext, Unmeta
<1>5. ASSUME NEW w \in Workers, Fail(w) PROVE object' = object
  BY <1>5 DEF Fail
<1>6. QED
  BY <1>1, <1>2, <1>3, <1>4, <1>5 DEF Next, Alters

\* What a removal that stops half way leaves, and where.
LEMMA TornStep ==
  ASSUME FileInv, NEW w \in Workers, RemoveFails(w) \/ Kill(w), NEW x \in Places,
         object'[x] # object[x]
  PROVE  object[x] # None /\ object'[x].own \in {object[x].own, 0}
<1>1. TypeOK
  BY DEF FileInv
<1>2. PICK p : p = job[w].from
  OBVIOUS
<1>3. object[p] # None /\ object' = [object EXCEPT ![p] = Torn(object[p])]
  BY <1>2 DEF RemoveFails, Kill
<1>4. x = p /\ object'[x] = Torn(object[x])
  BY <1>1, <1>3 DEF TypeOK
<1>5. object[x] \in Object
  BY <1>1, <1>3, <1>4 DEF TypeOK
<1>6. QED
  BY <1>3, <1>4, <1>5, TornFacts

LEMMA PublishPuts ==
  ASSUME FileInv, NEW w \in Workers, Publish(w), NEW x \in Places, object'[x] # object[x]
  PROVE  \E j \in Jobs : /\ j = job[w] /\ j.to = x /\ j.op \in Contents /\ Accepts(j)
                         /\ AimFits(j) /\ j.stage = "publish" /\ next \in Number
                         /\ object'[x] = Written(j) /\ object[x] \in Object \cup {None}
<1>1. PICK j \in Jobs : j = job[w]
  BY AtStage DEF Publish
<1>2. TypeOK /\ AimFits(j) /\ j.op \in Contents /\ j.stage = "publish"
  BY <1>1, AtStage DEF Publish, Contents
<1>3. next <= MaxStates /\ Accepts(j) /\ object' = [object EXCEPT ![j.to] = Written(j)]
  BY <1>1 DEF Publish
<1>4. x = j.to /\ object'[x] = Written(j) /\ object[x] \in Object \cup {None}
  BY <1>2, <1>3 DEF TypeOK
<1>5. next \in Number
  BY <1>2, <1>3, PlacesAssumption DEF TypeOK, Number
<1>6. QED
  BY <1>1, <1>2, <1>3, <1>4, <1>5

LEMMA RenamePuts ==
  ASSUME FileInv, NEW w \in Workers, RenameNoReplace(w), NEW x \in Places,
         object'[x] # object[x]
  PROVE  \/ object'[x] = None
         \/ object[x] = None /\ \E y \in Places : object[y] # None /\ object'[x] = object[y]
<1>1. PICK i \in Jobs : i = job[w]
  BY AtStage DEF RenameNoReplace
<1>2. TypeOK /\ AimFits(i) /\ i.op \in Transfers
  BY <1>1, AtStage DEF RenameNoReplace, Transfers
<1>3. i.from \in Places /\ i.to \in Places /\ i.from # i.to
  BY <1>2, TransferNames
<1>4. /\ object[i.from] # None /\ object[i.to] = None
      /\ object' = [object EXCEPT ![i.to] = object[i.from], ![i.from] = None]
  BY <1>1 DEF RenameNoReplace
<1>5. /\ object'[i.to] = object[i.from] /\ object'[i.from] = None
      /\ \A y \in Places : y \notin {i.from, i.to} => object'[y] = object[y]
  BY <1>2, <1>3, <1>4 DEF TypeOK
<1>6. x = i.from \/ x = i.to
  BY <1>5
<1>7. QED
  BY <1>3, <1>4, <1>5, <1>6

LEMMA PlacePuts ==
  ASSUME FileInv, NEW w \in Workers, Place(w), NEW x \in Places, object'[x] # object[x]
  PROVE  object[x] = None /\ job[w] # Idle /\ object'[x] = job[w].temp
<1>1. TypeOK
  BY DEF FileInv
<1>2. PICK i : i = job[w] /\ i # Idle
  BY DEF Place, Running
<1>3. object[i.to] = None /\ object' = [object EXCEPT ![i.to] = i.temp]
  BY <1>2 DEF Place
<1>4. QED
  BY <1>1, <1>2, <1>3 DEF TypeOK

LEMMA RemoveAllPuts ==
  ASSUME FileInv, NEW w \in Workers, RemoveAll(w), NEW x \in Places, object'[x] # object[x]
  PROVE  object'[x] = None
<1>1. PICK p : object' = [object EXCEPT ![p] = None]
  BY DEF RemoveAll
<1>2. QED
  BY <1>1 DEF FileInv, TypeOK

Replaces(x) ==
  \E w \in Workers : job[w] # Idle /\ job[w].to = x /\ job[w].op \in {"edit", "replace", "chmod"}

LEMMA ReplacedUnaskedStep ==
  ASSUME FileInv, Next, NEW x \in Places,
         object[x] # None, object'[x] # None, object'[x].own \notin {object[x].own, 0}
  PROVE  Replaces(x)
<1>1. object'[x] # object[x]
  OBVIOUS
<1>2. PICK w \in Workers : Alters(w)
  BY <1>1, OthersAlterNothing
<1>3. CASE Publish(w)
  <2>1. PICK j \in Jobs : /\ j = job[w] /\ j.to = x /\ j.op \in Contents /\ Accepts(j)
                          /\ next \in Number
                          /\ object'[x] = Written(j) /\ object[x] \in Object \cup {None}
    BY <1>1, <1>3, PublishPuts
  <2>2. j # Idle
    BY JobFields
  <2>3. PICK o \in Object : o = object[x]
    BY <2>1
  <2>4. Kind(j.to) = o.kind /\ o.kind # None
    BY <2>1, <2>3, ObjectFacts, NoneAssumption DEF Kind
  <2>5. j.op \notin {"upload", "mkdir"}
    BY <2>1, <2>4 DEF Accepts
  <2>6. j.op # "below"
    <3>1. SUFFICES ASSUME j.op = "below" PROVE FALSE
      OBVIOUS
    <3>2. o.kind = "directory" /\ Written(j) = [o EXCEPT !.below = next]
      BY <2>1, <2>3, <2>4, <3>1 DEF Accepts, Written
    <3>3. Written(j).own = o.own
      BY <2>1, <3>2, BelowRewritten
    <3>4. QED
      BY <2>1, <2>3, <3>3
  <2>7. QED
    BY <2>1, <2>2, <2>5, <2>6 DEF Contents, Replaces
<1>4. CASE RenameNoReplace(w) \/ Place(w) \/ RemoveAll(w)
  BY <1>1, <1>4, RenamePuts, PlacePuts, RemoveAllPuts
<1>5. CASE RemoveFails(w) \/ Kill(w)
  BY <1>1, <1>5, TornStep
<1>6. QED
  BY <1>2, <1>3, <1>4, <1>5 DEF Alters

\* Two requests at one path: only an edit, an upload told to overwrite or a chmod puts
\* another version in the place of the one that is there (renameNoReplaceRoot).
THEOREM UnaskedTheorem == Spec => NothingReplacedUnasked
<1> DEFINE A == \A x \in Places :
                  object[x] # None /\ object'[x] # None /\ object'[x].own \notin {object[x].own, 0}
                    => \E w \in Workers : /\ job[w] # Idle /\ job[w].to = x
                                          /\ job[w].op \in {"edit", "replace", "chmod"}
<1>1. FileInv /\ [Next]_vars => [A]_vars
  BY ReplacedUnaskedStep DEF Replaces
<1>2. QED
  BY <1>1, FileInvariant, PTL DEF Spec, NothingReplacedUnasked

\* Where half of an object may come from.
HalfAlready(x) ==
  \/ \E y \in Places : object[y] # None /\ ~object[y].whole
  \/ \E w \in Workers : job[w] # Idle /\ job[w].temp # None /\ ~job[w].temp.whole

LEMMA ArrivesWholeStep ==
  ASSUME FileInv, Next, NEW x \in Places,
         object[x] = None, object'[x] # None, ~object'[x].whole
  PROVE  HalfAlready(x)
<1>1. object'[x] # object[x]
  OBVIOUS
<1>2. PICK w \in Workers : Alters(w)
  BY <1>1, OthersAlterNothing
<1>3. CASE Publish(w)
  <2>1. PICK j \in Jobs : /\ j = job[w] /\ j.to = x /\ j.op \in Contents /\ Accepts(j)
                          /\ AimFits(j) /\ j.stage = "publish" /\ next \in Number
                          /\ object'[x] = Written(j)
    BY <1>1, <1>3, PublishPuts
  <2>2. j # Idle
    BY JobFields
  <2>3. j.op \notin {"below", "chmod"}
    BY <2>1, NoneAssumption DEF Accepts, Kind
  <2>4. j.op # "edit"
    <3>1. j.op = "edit" => Written(j) = File(next)
      BY DEF Written
    <3>2. QED
      BY <2>1, <3>1, FileFacts
  <2>5. j.op # "mkdir"
    <3>1. j.op = "mkdir" => Written(j) = Directory(next, 0)
      BY DEF Written
    <3>2. 0 \in Number
      BY PlacesAssumption DEF Number
    <3>3. QED
      BY <2>1, <3>1, <3>2, DirectoryFacts
  <2>6. j.op \in {"upload", "replace"}
    BY <2>1, <2>3, <2>4, <2>5 DEF Contents
  <2>7. PICK t \in Object : t = j.temp
    BY <2>1, <2>6 DEF AimFits
  <2>8. Written(j) = [t EXCEPT !.own = next]
    BY <2>6, <2>7 DEF Written
  <2>9. ~t.whole /\ t # None
    BY <2>1, <2>7, <2>8, OwnRewritten, NoneAssumption
  <2>10. QED
    BY <2>1, <2>2, <2>7, <2>9 DEF HalfAlready
<1>4. CASE RenameNoReplace(w)
  BY <1>1, <1>4, RenamePuts DEF HalfAlready
<1>5. CASE Place(w)
  BY <1>1, <1>5, PlacePuts DEF HalfAlready
<1>6. CASE RemoveAll(w) \/ RemoveFails(w) \/ Kill(w)
  BY <1>1, <1>6, RemoveAllPuts, TornStep
<1>7. QED
  BY <1>2, <1>3, <1>4, <1>5, <1>6 DEF Alters

\* A copy that is under way, or was cut off, is at no path: half of an object comes only
\* from half of one (manager.go renames what is complete).
THEOREM ArrivesWholeTheorem == Spec => ArrivesWhole
<1> DEFINE A == \A x \in Places :
                  object[x] = None /\ object'[x] # None /\ ~object'[x].whole
                    => \/ \E y \in Places : object[y] # None /\ ~object[y].whole
                       \/ \E w \in Workers : job[w] # Idle /\ job[w].temp # None /\ ~job[w].temp.whole
<1>1. FileInv /\ [Next]_vars => [A]_vars
  BY ArrivesWholeStep DEF HalfAlready
<1>2. QED
  BY <1>1, FileInvariant, PTL DEF Spec, ArrivesWhole

-----------------------------------------------------------------------------
(* Archive: the sizes of files, in whatever order they are added up.        *)

LEMMA LeastSubset ==
  ASSUME NEW S, IsFiniteSet(S), NEW B \in SUBSET SUBSET S, B # {}
  PROVE  \E b \in B : \A t \in B : ~(t \subseteq b /\ t # b)
<1>1. B \subseteq FiniteSubsetsOf(S)
  BY FS_FiniteSubsetsOfFinite
<1>2. PICK b \in B : \A t \in B : ~(<<t, b>> \in StrictSubsetOrdering(S))
  BY <1>1, FS_StrictSubsetOrderingWellFounded, WFMin, Zenon
<1>3. QED
  BY <1>2 DEF StrictSubsetOrdering

\* g adds up the sizes of every subset of S, one member after the other.
First(s) == CHOOSE x \in s : TRUE
Adds(S, g) == g = [s \in SUBSET S |-> IF s = {} THEN 0 ELSE First(s).size + g[s \ {First(s)}]]

LEMMA BytesChoice == 
  ASSUME NEW S
  PROVE  Bytes(S) = (CHOOSE g : Adds(S, g))[S]
  BY Zenon DEF Bytes, MapThenSumSet, MapThenFoldSet, Adds, First

LEMMA AddsOne ==
  ASSUME NEW S, IsFiniteSet(S), NEW g, NEW h, Adds(S, g), Adds(S, h)
  PROVE  g = h
<1> DEFINE B == {s \in SUBSET S : g[s] # h[s]}
<1>1. ASSUME NEW s \in SUBSET S
      PROVE  /\ g[s] = IF s = {} THEN 0 ELSE First(s).size + g[s \ {First(s)}]
             /\ h[s] = IF s = {} THEN 0 ELSE First(s).size + h[s \ {First(s)}]
  BY Zenon DEF Adds
<1>2. ASSUME B # {} PROVE FALSE
  <2>1. B \in SUBSET SUBSET S
    OBVIOUS
  <2> HIDE DEF B
  <2>2. PICK b \in B : \A t \in B : ~(t \subseteq b /\ t # b)
    BY <1>2, <2>1, LeastSubset
  <2> USE DEF B
  <2>3. b \in SUBSET S /\ g[b] # h[b]
    OBVIOUS
  <2>4. b # {}
    BY <1>1, <2>3
  <2>5. First(b) \in b
    BY <2>4 DEF First
  <2>6. b \ {First(b)} \notin B
    BY <2>2, <2>5
  <2>7. g[b \ {First(b)}] = h[b \ {First(b)}]
    BY <2>3, <2>6
  <2>8. QED
    BY <1>1, <2>3, <2>4, <2>7
<1>3. DOMAIN g = SUBSET S /\ DOMAIN h = SUBSET S /\ g = [s \in SUBSET S |-> g[s]] /\ h = [s \in SUBSET S |-> h[s]]
  BY Zenon DEF Adds
<1>4. \A s \in SUBSET S : g[s] = h[s]
  BY <1>2
<1>5. QED
  BY <1>3, <1>4, Zenon

\* What Bytes adds up: nothing of the empty set, else the size of one and of the rest.
LEMMA BytesSteps ==
  ASSUME NEW S, IsFiniteSet(S)
  PROVE  Bytes(S) = IF S = {} THEN 0 ELSE First(S).size + Bytes(S \ {First(S)})
<1> DEFINE Fits(s) == Bytes(s) = IF s = {} THEN 0 ELSE First(s).size + Bytes(s \ {First(s)})
           B == {s \in SUBSET S : ~Fits(s)}
<1>1. SUFFICES ASSUME B # {} PROVE FALSE
  OBVIOUS
<1>2. B \in SUBSET SUBSET S
  OBVIOUS
<1> HIDE DEF B
<1>3. PICK b \in B : \A t \in B : ~(t \subseteq b /\ t # b)
  BY <1>1, <1>2, LeastSubset
<1> USE DEF B
<1>4. b \in SUBSET S /\ ~Fits(b) /\ IsFiniteSet(b)
  BY FS_Subset
<1>5. \A t \in SUBSET b : t # b => Fits(t)
  BY <1>3, <1>4
<1> HIDE DEF B
<1> DEFINE V(s) == IF s = {} THEN 0 ELSE First(s).size + Bytes(s \ {First(s)})
           g == [s \in SUBSET b |-> IF s = b THEN V(s) ELSE Bytes(s)]
<1>6. Adds(b, g)
  <2>1. ASSUME NEW s \in SUBSET b
        PROVE  (IF s = b THEN V(s) ELSE Bytes(s)) = IF s = {} THEN 0 ELSE First(s).size + g[s \ {First(s)}]
    <3>1. (IF s = b THEN V(s) ELSE Bytes(s)) = V(s)
      BY <1>5
    <3>2. CASE s = {}
      BY <3>1, <3>2
    <3>3. CASE s # {}
      <4>1. First(s) \in s
        BY <3>3 DEF First
      <4>2. s \ {First(s)} \in SUBSET b /\ s \ {First(s)} # b
        BY <4>1
      <4> HIDE DEF V
      <4>3. g[s \ {First(s)}] = Bytes(s \ {First(s)})
        BY <4>2
      <4> HIDE DEF g
      <4> USE DEF V
      <4>4. QED
        BY <3>1, <3>3, <4>3
    <3>4. QED
      BY <3>2, <3>3
  <2>2. QED
    BY <2>1, Zenon DEF Adds
<1> HIDE DEF g
<1>7. Adds(b, CHOOSE h : Adds(b, h))
  BY <1>6, Zenon
<1>8. (CHOOSE h : Adds(b, h)) = g
  BY <1>4, <1>6, <1>7, AddsOne, Zenon
<1>9. Bytes(b) = g[b]
  BY <1>8, BytesChoice, Zenon
<1> USE DEF g
<1>10. g[b] = V(b)
  BY Zenon
<1>11. QED
  BY <1>4, <1>9, <1>10, Zenon

LEMMA BytesEmpty == Bytes({}) = 0
BY BytesSteps, FS_EmptySet

LEMMA BytesNat ==
  ASSUME NEW S, IsFiniteSet(S), \A f \in S : f.size \in Nat
  PROVE  Bytes(S) \in Nat
<1> DEFINE B == {s \in SUBSET S : Bytes(s) \notin Nat}
<1>1. SUFFICES ASSUME B # {} PROVE FALSE
  OBVIOUS
<1>2. B \in SUBSET SUBSET S
  OBVIOUS
<1> HIDE DEF B
<1>3. PICK b \in B : \A t \in B : ~(t \subseteq b /\ t # b)
  BY <1>1, <1>2, LeastSubset
<1> USE DEF B
<1>4. b \in SUBSET S /\ Bytes(b) \notin Nat /\ IsFiniteSet(b)
  BY FS_Subset
<1>5. b # {} /\ Bytes(b) = First(b).size + Bytes(b \ {First(b)})
  BY <1>4, BytesSteps
<1>6. First(b) \in b
  BY <1>5 DEF First
<1>7. b \ {First(b)} \in SUBSET S /\ b \ {First(b)} \notin B
  BY <1>3, <1>4, <1>6
<1>8. Bytes(b \ {First(b)}) \in Nat /\ First(b).size \in Nat
  BY <1>4, <1>6, <1>7
<1>9. QED
  BY <1>4, <1>5, <1>8

\* In whatever order the sizes are added up.
LEMMA BytesRemove ==
  ASSUME NEW S, IsFiniteSet(S), \A f \in S : f.size \in Nat, NEW x \in S
  PROVE  Bytes(S) = Bytes(S \ {x}) + x.size
<1> DEFINE B == {s \in SUBSET S : \E y \in s : Bytes(s) # Bytes(s \ {y}) + y.size}
<1>1. SUFFICES ASSUME B # {} PROVE FALSE
  OBVIOUS
<1>2. B \in SUBSET SUBSET S
  OBVIOUS
<1> HIDE DEF B
<1>3. PICK b \in B : \A t \in B : ~(t \subseteq b /\ t # b)
  BY <1>1, <1>2, LeastSubset
<1>4. b \in SUBSET S /\ IsFiniteSet(b)
  BY <1>2, <1>3, FS_Subset
<1>5. PICK y \in b : Bytes(b) # Bytes(b \ {y}) + y.size
  BY <1>3 DEF B
<1>6. \A t \in SUBSET b : t # b => \A z \in t : Bytes(t) = Bytes(t \ {z}) + z.size
  BY <1>3, <1>4 DEF B
<1> DEFINE c == First(b)
<1>7. c \in b /\ Bytes(b) = c.size + Bytes(b \ {c})
  BY <1>4, BytesSteps DEF First
<1> HIDE DEF c
<1>8. \A t \in SUBSET b : Bytes(t) \in Nat
  BY <1>4, FS_Subset, BytesNat
<1>9. c.size \in Nat /\ y.size \in Nat
  BY <1>4, <1>7
<1>10. y # c
  <2> SUFFICES ASSUME y = c PROVE FALSE
    OBVIOUS
  <2>1. Bytes(b \ {y}) \in Nat
    BY <1>8
  <2>2. Bytes(b) = y.size + Bytes(b \ {y})
    BY <1>7, Zenon
  <2>3. y.size + Bytes(b \ {y}) = Bytes(b \ {y}) + y.size
    BY <1>9, <2>1
  <2>4. QED
    BY <1>5, <2>2, <2>3, Zenon
<1> DEFINE rest == (b \ {c}) \ {y}
<1>11. rest = (b \ {y}) \ {c}
  OBVIOUS
<1>12. Bytes(b \ {c}) = Bytes(rest) + y.size
  <2>1. b \ {c} \in SUBSET b /\ b \ {c} # b /\ y \in b \ {c}
    BY <1>7, <1>10
  <2>2. QED
    BY <1>6, <2>1
<1>13. Bytes(b \ {y}) = Bytes(rest) + c.size
  <2>1. b \ {y} \in SUBSET b /\ b \ {y} # b /\ c \in b \ {y}
    BY <1>7, <1>10
  <2>2. QED
    BY <1>6, <1>11, <2>1
<1>14. Bytes(rest) \in Nat
  BY <1>8
<1> HIDE DEF rest
<1>15. QED
  BY <1>5, <1>7, <1>9, <1>12, <1>13, <1>14

LEMMA BytesAdd ==
  ASSUME NEW S, IsFiniteSet(S), \A f \in S : f.size \in Nat, NEW x, x.size \in Nat
  PROVE  Bytes(S \cup {x}) <= Bytes(S) + x.size
<1>1. Bytes(S) \in Nat
  BY BytesNat
<1>2. CASE x \in S
  <2>1. S \cup {x} = S
    BY <1>2
  <2>2. Bytes(S \cup {x}) = Bytes(S)
    BY <2>1, Zenon
  <2>3. QED
    BY <1>1, <2>2
<1>3. CASE x \notin S
  <2>1. IsFiniteSet(S \cup {x}) /\ (S \cup {x}) \ {x} = S
    BY <1>3, FS_AddElement
  <2>2. Bytes(S \cup {x}) = Bytes(S) + x.size
    BY <2>1, BytesRemove
  <2>3. QED
    BY <1>1, <2>2
<1>4. QED
  BY <1>2, <1>3

-----------------------------------------------------------------------------
(* Archive: the names that the sources of a request get.                    *)

LEMMA LeastNumber ==
  ASSUME NEW S \in SUBSET Nat, S # {}
  PROVE  \E i \in S : \A j \in S : i <= j
<1> DEFINE R == OpToRel(<, Nat)
<1>1. IsWellFoundedOn(R, Nat)
  BY NatLessThanWellFounded
<1>2. ASSUME NEW x \in Nat, NEW y \in Nat, y < x PROVE <<y, x>> \in R
  BY <1>2 DEF OpToRel
<1> HIDE DEF R
<1>3. PICK x \in S : \A y \in S : ~(<<y, x>> \in R)
  BY <1>1, WFMin, Zenon
<1>4. \A y \in S : x <= y
  <2> TAKE y \in S
  <2>1. x \in Nat /\ y \in Nat /\ ~(y < x)
    BY <1>2, <1>3
  <2> QED
    BY <2>1
<1>5. QED
  BY <1>4

\* g gives the names out one after the other, as far as n.
GivesTo(names, n, g) ==
  g = [i \in 0 .. n |-> IF i = 0 THEN <<>> ELSE Append(g[i-1], NameFor(names, g[i-1], i))]

LEMMA UniqueChoice ==
  ASSUME NEW names
  PROVE  Unique(names) = (CHOOSE g : GivesTo(names, Len(names), g))[Len(names)]
BY Zenon DEF Unique, GivesTo

LEMMA GivingGoesOn ==
  ASSUME NEW names, NEW n \in Nat
  PROVE  \E g : GivesTo(names, n, g)
<1> DEFINE Bad == {k \in Nat : ~\E g : GivesTo(names, k, g)}
<1>1. SUFFICES ASSUME Bad # {} PROVE FALSE
  OBVIOUS
<1>2. Bad \in SUBSET Nat
  OBVIOUS
<1> HIDE DEF Bad
<1>3. PICK k \in Bad : \A j \in Bad : k <= j
  BY <1>1, <1>2, LeastNumber
<1>4. k \in Nat /\ ~\E g : GivesTo(names, k, g)
  BY <1>3 DEF Bad
<1>5. k # 0
  <2> SUFFICES GivesTo(names, 0, [i \in 0 .. 0 |-> <<>>])
    BY <1>4
  <2>1. \A i \in 0 .. 0 : i = 0
    OBVIOUS
  <2> DEFINE e == [i \in 0 .. 0 |-> <<>>]
             f == [i \in 0 .. 0 |-> IF i = 0 THEN <<>> ELSE Append(e[i-1], NameFor(names, e[i-1], i))]
  <2>2. e = f
    BY <2>1, Zenon
  <2>3. QED
    BY <2>2, Zenon DEF GivesTo
<1>6. k - 1 \in Nat /\ k - 1 \notin Bad
  BY <1>3, <1>4, <1>5
<1>7. PICK g : GivesTo(names, k - 1, g)
  BY <1>6 DEF Bad
<1> DEFINE V(i) == Append(g[i-1], NameFor(names, g[i-1], i))
           h == [i \in 0 .. k |-> IF i = k THEN V(k) ELSE g[i]]
           W(i) == IF i = 0 THEN <<>> ELSE Append(h[i-1], NameFor(names, h[i-1], i))
<1>8. \A i \in 0 .. k - 1 : g[i] = IF i = 0 THEN <<>> ELSE V(i)
  BY <1>7, Zenon DEF GivesTo
<1>9. ASSUME NEW i \in 0 .. k PROVE (IF i = k THEN V(k) ELSE g[i]) = W(i)
  <2>1. CASE i = 0
    BY <1>4, <1>5, <1>8, <2>1
  <2>2. CASE i # 0
    <3>1. i - 1 \in 0 .. k /\ i - 1 # k
      BY <1>4, <2>2
    <3> HIDE DEF V
    <3>2. h[i-1] = g[i-1]
      BY <3>1
    <3> HIDE DEF h
    <3> USE DEF V
    <3>3. W(i) = V(i)
      BY <2>2, <3>2, Zenon
    <3>4. i # k => i \in 0 .. k - 1
      BY <1>4
    <3>5. i # k => g[i] = V(i)
      BY <1>8, <2>2, <3>4, Zenon
    <3>6. QED
      BY <3>3, <3>5, Zenon
  <2>3. QED
    BY <2>1, <2>2
<1> DEFINE f == [i \in 0 .. k |-> W(i)]
<1>10. h = f
  <2> HIDE DEF V, W
  <2>1. QED
    BY <1>9, Zenon
<1>11. GivesTo(names, k, h)
  BY <1>10, Zenon DEF GivesTo
<1>12. QED
  BY <1>4, <1>11

\* Of as many suffixes as there can be names, one is free.
LEMMA SuffixIsFree ==
  ASSUME NEW names \in Seq(Seq(Nat)), NEW used \in Seq(Seq(Nat)), Len(used) < Len(names),
         NEW name \in Seq(Nat)
  PROVE  \E n \in 2 .. 2 * Len(names) + 1 : Append(name, n) \notin ToSet(used) \cup ToSet(names)
<1> DEFINE N == Len(names)
           all == used \o names
           cands == 2 .. 2 * N + 1
<1>1. N \in Nat /\ Len(used) \in Nat /\ Len(used) + N < 2 * N
  BY LenProperties
<1>2. all \in Seq(Seq(Nat)) /\ Len(all) = Len(used) + N /\ DOMAIN all = 1 .. Len(all)
  BY ConcatProperties, LenProperties
<1>3. ToSet(used) \cup ToSet(names) \subseteq ToSet(all)
  <2>1. DOMAIN used = 1 .. Len(used) /\ DOMAIN names = 1 .. N
    BY LenProperties
  <2> DEFINE u == Len(used)
  <2>2. \A i \in 1 .. u + N : all[i] = IF i <= u THEN used[i] ELSE names[i - u]
    BY ConcatProperties
  <2>3. u \in Nat /\ N \in Nat /\ DOMAIN all = 1 .. u + N
    BY <1>1, <1>2
  <2> HIDE DEF all, N, u
  <2>4. ASSUME NEW i \in 1 .. u PROVE used[i] \in ToSet(all)
    <3>1. i \in 1 .. u + N /\ i <= u
      BY <2>3
    <3>2. all[i] = used[i]
      BY <2>2, <3>1
    <3>3. QED
      BY <2>3, <3>1, <3>2 DEF ToSet
  <2>5. ASSUME NEW i \in 1 .. N PROVE names[i] \in ToSet(all)
    <3> DEFINE k == i + u
    <3>1. k \in 1 .. u + N /\ ~(k <= u) /\ k - u = i
      BY <2>3
    <3> HIDE DEF k
    <3>2. all[k] = names[i]
      BY <2>2, <3>1
    <3>3. QED
      BY <2>3, <3>1, <3>2 DEF ToSet
  <2>6. QED
    BY <2>1, <2>4, <2>5 DEF ToSet, u
<1> HIDE DEF all
<1>4. IsFiniteSet(ToSet(all)) /\ Cardinality(ToSet(all)) <= Len(all)
  <2>1. all \in [1 .. Len(all) -> ToSet(all)]
    BY <1>2, LenProperties DEF ToSet
  <2>2. all \in Surjection(1 .. Len(all), ToSet(all))
    BY <1>2, <2>1 DEF Surjection, ToSet
  <2>3. IsFiniteSet(1 .. Len(all)) /\ Cardinality(1 .. Len(all)) = Len(all)
    BY <1>1, <1>2, FS_Interval
  <2>4. QED
    BY <2>2, <2>3, FS_Surjection
<1>5. IsFiniteSet(cands) /\ Cardinality(cands) = 2 * N
  BY <1>1, FS_Interval
<1>6. SUFFICES ASSUME \A n \in cands : Append(name, n) \in ToSet(all)
               PROVE  FALSE
  BY <1>3
<1> DEFINE f == [n \in cands |-> Append(name, n)]
<1>7. f \in [cands -> ToSet(all)]
  BY <1>6
<1>8. Cardinality(ToSet(all)) < Cardinality(cands)
  <2>1. Cardinality(ToSet(all)) \in Nat
    BY <1>4, FS_CardinalityType
  <2> HIDE DEF cands, N
  <2>2. QED
    BY <1>1, <1>2, <1>4, <1>5, <2>1
<1> HIDE DEF f
<1>9. PICK x \in cands, y \in cands : x # y /\ f[x] = f[y]
  BY <1>4, <1>5, <1>7, <1>8, FS_PigeonHole
<1>10. Append(name, x) = Append(name, y) /\ x \in Nat /\ y \in Nat
  BY <1>1, <1>9 DEF f
<1>11. Append(name, x)[Len(name) + 1] = x /\ Append(name, y)[Len(name) + 1] = y
  BY <1>10, AppendProperties
<1>12. QED
  BY <1>9, <1>10, <1>11

\* A name that is given out is nobody's before it, and one's own or no source's.
LEMMA NameForFacts ==
  ASSUME NEW names \in Seq(Seq(Nat)), NEW used \in Seq(Seq(Nat)),
         NEW i \in 1 .. Len(names), Len(used) = i - 1
  PROVE  /\ NameFor(names, used, i) \in Seq(Nat)
         /\ NameFor(names, used, i) \notin ToSet(used)
         /\ NameFor(names, used, i) = names[i] \/ NameFor(names, used, i) \notin ToSet(names)
         /\ names[i] \notin ToSet(used) => NameFor(names, used, i) = names[i]
<1> DEFINE free == {n \in 2 .. 2 * Len(names) + 1 :
                      Append(names[i], n) \notin ToSet(used) \cup ToSet(names)}
           least == CHOOSE n \in free : \A k \in free : n <= k
<1>1. names[i] \in Seq(Nat) /\ Len(names) \in Nat
  BY ElementOfSeq, LenProperties
<1>2. free # {}
  <2>1. Len(used) < Len(names)
    BY <1>1
  <2>2. QED
    BY <1>1, <2>1, SuffixIsFree
<1>3. free \in SUBSET Nat
  BY <1>1
<1>4. least \in free
  <2> HIDE DEF free
  <2>1. QED
    BY <1>2, <1>3, LeastNumber
<1>5. least \in Nat /\ Append(names[i], least) \notin ToSet(used) \cup ToSet(names)
  BY <1>3, <1>4
<1> HIDE DEF least
<1>6. Append(names[i], least) \in Seq(Nat)
  BY <1>1, <1>5, AppendProperties
<1>7. NameFor(names, used, i) = IF names[i] \notin ToSet(used) THEN names[i] ELSE Append(names[i], least)
  BY Zenon DEF NameFor, least
<1> HIDE DEF free
<1>8. QED
  BY <1>1, <1>5, <1>6, <1>7

\* What the names given out so far are.
Apart(names, used) ==
  /\ used \in Seq(Seq(Nat))
  /\ \A a, b \in 1 .. Len(used) : used[a] = used[b] => a = b
  /\ \A a \in 1 .. Len(used) :
       /\ used[a] = names[a] \/ used[a] \notin ToSet(names)
       /\ (\A b \in 1 .. a - 1 : names[b] # names[a]) => used[a] = names[a]

LEMMA OneMoreApart ==
  ASSUME NEW names \in Seq(Seq(Nat)), NEW used, Apart(names, used),
         NEW i \in 1 .. Len(names), Len(used) = i - 1
  PROVE  /\ Apart(names, Append(used, NameFor(names, used, i)))
         /\ Len(Append(used, NameFor(names, used, i))) = i
<1>1. used \in Seq(Seq(Nat)) /\ Len(names) \in Nat /\ i \in Nat
  BY LenProperties DEF Apart
<1>2. PICK name : name = NameFor(names, used, i)
  OBVIOUS
<1>3. /\ name \in Seq(Nat) /\ name \notin ToSet(used)
      /\ name = names[i] \/ name \notin ToSet(names)
      /\ names[i] \notin ToSet(used) => name = names[i]
  BY <1>1, <1>2, NameForFacts
<1>4. PICK now : now = Append(used, name)
  OBVIOUS
<1>5. /\ now \in Seq(Seq(Nat)) /\ Len(now) = i /\ now[i] = name
      /\ \A a \in 1 .. i - 1 : now[a] = used[a]
  BY <1>1, <1>3, <1>4, AppendProperties
<1>6. \A a \in 1 .. i - 1 : used[a] # name
  BY <1>1, <1>3, LenProperties DEF ToSet
<1>7. \A a, b \in 1 .. i : now[a] = now[b] => a = b
  <2> TAKE a, b \in 1 .. i
  <2>1. \A c \in 1 .. i : c = i \/ c \in 1 .. i - 1
    BY <1>1
  <2>2. \A c, d \in 1 .. i - 1 : used[c] = used[d] => c = d
    BY <1>1 DEF Apart
  <2>3. QED
    BY <1>5, <1>6, <2>1, <2>2
<1>8. ASSUME \A b \in 1 .. i - 1 : names[b] # names[i] PROVE name = names[i]
  <2>1. \A b \in 1 .. i - 1 : used[b] # names[i]
    <3> TAKE b \in 1 .. i - 1
    <3>1. names[i] \in ToSet(names)
      BY LenProperties DEF ToSet
    <3>2. used[b] = names[b] \/ used[b] \notin ToSet(names)
      BY DEF Apart
    <3>3. QED
      BY <1>8, <3>1, <3>2
  <2>2. names[i] \notin ToSet(used)
    BY <1>1, <2>1, LenProperties DEF ToSet
  <2>3. QED
    BY <1>3, <2>2
<1>9. ASSUME NEW a \in 1 .. i
      PROVE  /\ now[a] = names[a] \/ now[a] \notin ToSet(names)
             /\ (\A b \in 1 .. a - 1 : names[b] # names[a]) => now[a] = names[a]
  <2>1. CASE a = i
    BY <1>3, <1>5, <1>8, <2>1
  <2>2. CASE a \in 1 .. i - 1
    BY <1>5, <2>2 DEF Apart
  <2>3. QED
    BY <1>1, <2>1, <2>2
<1>10. Apart(names, now)
  BY <1>5, <1>7, <1>9 DEF Apart
<1>11. QED
  BY <1>2, <1>4, <1>5, <1>10

LEMMA UniqueFacts ==
  ASSUME NEW names \in Seq(Seq(Nat))
  PROVE  Apart(names, Unique(names)) /\ Len(Unique(names)) = Len(names)
<1> DEFINE N == Len(names)
           g == CHOOSE h : GivesTo(names, N, h)
<1>1. N \in Nat
  BY LenProperties
<1>2. GivesTo(names, N, g)
  BY <1>1, GivingGoesOn
<1>3. Unique(names) = g[N]
  BY UniqueChoice, Zenon
<1> HIDE DEF g
<1>4. \A i \in 0 .. N : g[i] = IF i = 0 THEN <<>> ELSE Append(g[i-1], NameFor(names, g[i-1], i))
  BY <1>2, Zenon DEF GivesTo
<1> HIDE DEF N
<1> DEFINE Bad == {i \in 0 .. N : ~(Apart(names, g[i]) /\ Len(g[i]) = i)}
<1>5. SUFFICES ASSUME Bad # {} PROVE FALSE
  BY <1>1, <1>3 DEF N
<1>6. Bad \in SUBSET Nat
  OBVIOUS
<1> HIDE DEF Bad
<1>7. PICK i \in Bad : \A j \in Bad : i <= j
  BY <1>5, <1>6, LeastNumber
<1>8. i \in 0 .. N /\ ~(Apart(names, g[i]) /\ Len(g[i]) = i)
  BY <1>7 DEF Bad
<1>9. i # 0
  <2> SUFFICES ASSUME i = 0 PROVE FALSE
    OBVIOUS
  <2>1. g[i] = <<>>
    BY <1>4, <1>8
  <2>2. <<>> \in Seq(Seq(Nat)) /\ Len(<<>>) = 0
    BY EmptySeq
  <2>3. Apart(names, <<>>)
    BY <2>2 DEF Apart
  <2>4. QED
    BY <1>8, <2>1, <2>2, <2>3
<1>10. i - 1 \in 0 .. N /\ i - 1 \notin Bad /\ i \in 1 .. N
  BY <1>1, <1>7, <1>8, <1>9
<1>11. Apart(names, g[i-1]) /\ Len(g[i-1]) = i - 1
  BY <1>10 DEF Bad
<1>12. g[i] = Append(g[i-1], NameFor(names, g[i-1], i))
  BY <1>4, <1>8, <1>9, Zenon
<1>13. Apart(names, g[i]) /\ Len(g[i]) = i
  <2>1. PICK used : used = g[i-1]
    OBVIOUS
  <2>2. Apart(names, used) /\ Len(used) = i - 1 /\ i \in 1 .. Len(names)
    BY <1>10, <1>11, <2>1 DEF N
  <2>3. Apart(names, Append(used, NameFor(names, used, i))) /\ Len(Append(used, NameFor(names, used, i))) = i
    BY <2>2, OneMoreApart
  <2>4. QED
    BY <1>12, <2>1, <2>3, Zenon
<1>14. QED
  BY <1>8, <1>13

-----------------------------------------------------------------------------
(* Archive: rows of records, and what they show.                            *)

Rec == Item \cup Output

LEMMA RecFacts ==
  ASSUME NEW x \in Rec
  PROVE  /\ x.entry \in Visible /\ x.entry \in Entries /\ x.info \in Nat \cup {Nil}
         /\ About(x) \in Item /\ About(x).entry = x.entry /\ About(x).info = x.info
<1>1. x.entry \in Visible /\ x.entry \in Entries /\ x.info \in Nat \cup {Nil}
  BY DEF Rec, Item, Output, Visible
<1>2. QED
  BY <1>1 DEF About, Item

LEMMA SetToSeqFacts ==
  ASSUME NEW S, IsFiniteSet(S)
  PROVE  /\ SetToSeq(S) \in Seq(S)
         /\ \A x \in S : \E i \in DOMAIN SetToSeq(S) : SetToSeq(S)[i] = x
<1> DEFINE n == Cardinality(S)
<1>1. n \in Nat /\ ExistsBijection(1 .. n, S)
  BY FS_CardinalityType
<1>2. \E f \in [1 .. n -> S] : IsInjective(f)
  BY <1>1 DEF ExistsBijection, Bijection, Injection
<1> DEFINE f == SetToSeq(S)
<1>3. f \in [1 .. n -> S] /\ IsInjective(f)
  BY <1>2, Zenon DEF SetToSeq
<1> HIDE DEF f
<1>4. f \in Seq(S)
  BY <1>1, <1>3, SeqDef
<1>5. f \in Injection(1 .. n, S)
  BY <1>3 DEF Injection
<1>6. Cardinality(1 .. n) = n
  BY <1>1, FS_Interval
<1>7. f \in Surjection(1 .. n, S)
  BY <1>5, <1>6, FS_Injection
<1>8. \A x \in S : \E i \in DOMAIN f : f[i] = x
  BY <1>7 DEF Surjection
<1>9. QED
  BY <1>4, <1>8 DEF f

\* What rows of records show.

LEMMA ShownHas ==
  ASSUME NEW s \in Seq(Rec)
  PROVE  /\ Shown(s) \subseteq Item
         /\ \A i \in 1 .. Len(s) : About(s[i]) \in Shown(s)
         /\ \A x \in Shown(s) : \E i \in 1 .. Len(s) : x = About(s[i])
<1>1. DOMAIN s = 1 .. Len(s) /\ \A i \in 1 .. Len(s) : s[i] \in Rec
  BY LenProperties, ElementOfSeq
<1>2. \A i \in 1 .. Len(s) : About(s[i]) \in Item
  BY <1>1, RecFacts
<1>3. QED
  BY <1>1, <1>2 DEF Shown

LEMMA ShownEmpty == Shown(<<>>) = {}
<1>1. DOMAIN <<>> = {}
  OBVIOUS
<1>2. QED
  BY <1>1 DEF Shown

LEMMA ShownConcat ==
  ASSUME NEW s \in Seq(Rec), NEW t \in Seq(Rec)
  PROVE  s \o t \in Seq(Rec) /\ Shown(s \o t) = Shown(s) \cup Shown(t)
<1> DEFINE m == Len(s)
           n == Len(t)
<1>1. PICK r : r = s \o t
  OBVIOUS
<1>2. r \in Seq(Rec) /\ Len(r) = m + n /\ m \in Nat /\ n \in Nat
  BY <1>1, ConcatProperties, LenProperties
<1>3. \A i \in 1 .. m + n : r[i] = IF i <= m THEN s[i] ELSE t[i - m]
  BY <1>1, ConcatProperties
<1>4. /\ DOMAIN s = 1 .. m /\ DOMAIN t = 1 .. n /\ DOMAIN r = 1 .. m + n
  BY <1>2, LenProperties
<1> HIDE DEF m, n
<1>5. \A i \in 1 .. m : i \in 1 .. m + n /\ r[i] = s[i]
  BY <1>2, <1>3
<1>6. \A i \in 1 .. n : i + m \in 1 .. m + n /\ r[i + m] = t[i]
  <2> TAKE i \in 1 .. n
  <2> DEFINE k == i + m
  <2>1. k \in 1 .. m + n /\ ~(k <= m) /\ k - m = i
    BY <1>2
  <2> HIDE DEF k
  <2>2. k \in 1 .. m + n /\ r[k] = t[i]
    BY <1>3, <2>1
  <2>3. QED
    BY <2>2 DEF k
<1>7. \A i \in 1 .. m + n : (i \in 1 .. m /\ r[i] = s[i]) \/ \E j \in 1 .. n : r[i] = t[j]
  <2> TAKE i \in 1 .. m + n
  <2>1. CASE i <= m
    BY <1>2, <1>3, <2>1
  <2>2. CASE ~(i <= m)
    <3>1. i - m \in 1 .. n
      BY <1>2, <2>2
    <3>2. QED
      BY <1>3, <2>2, <3>1
  <2>3. QED
    BY <2>1, <2>2
<1>8. Shown(r) = Shown(s) \cup Shown(t)
  BY <1>4, <1>5, <1>6, <1>7 DEF Shown
<1>9. QED
  BY <1>1, <1>2, <1>8

LEMMA ShownAppend ==
  ASSUME NEW s \in Seq(Rec), NEW x \in Rec
  PROVE  Append(s, x) \in Seq(Rec) /\ Shown(Append(s, x)) = Shown(s) \cup {About(x)}
<1>1. PICK r : r = Append(s, x)
  OBVIOUS
<1>2. /\ r \in Seq(Rec) /\ Len(r) = Len(s) + 1 /\ r[Len(s) + 1] = x
      /\ \A i \in 1 .. Len(s) : r[i] = s[i]
  BY <1>1, AppendProperties
<1>3. DOMAIN s = 1 .. Len(s) /\ DOMAIN r = 1 .. Len(s) + 1 /\ Len(s) \in Nat
  BY <1>2, LenProperties
<1>4. \A i : i \in 1 .. Len(s) + 1 <=> i \in 1 .. Len(s) \/ i = Len(s) + 1
  BY <1>3
<1>5. Shown(r) = Shown(s) \cup {About(x)}
  BY <1>2, <1>3, <1>4 DEF Shown
<1>6. QED
  BY <1>1, <1>2, <1>5

LEMMA ShownHead ==
  ASSUME NEW s \in Seq(Rec), s # <<>>
  PROVE  /\ s[1] \in Rec /\ Head(s) = s[1] /\ 1 \in 1 .. Len(s)
         /\ Tail(s) \in Seq(Rec)
         /\ Shown(s) = {About(s[1])} \cup Shown(Tail(s))
<1>1. /\ Tail(s) \in Seq(Rec) /\ Len(Tail(s)) = Len(s) - 1
      /\ \A i \in 1 .. Len(Tail(s)) : Tail(s)[i] = s[i + 1]
  BY HeadTailProperties
<1>2. Len(s) \in Nat \ {0} /\ 1 \in 1 .. Len(s) /\ s[1] \in Rec
  BY EmptySeq, ElementOfSeq
<1>3. Head(s) = s[1]
  OBVIOUS
<1>4. PICK t : t = Tail(s)
  OBVIOUS
<1>5. DOMAIN s = 1 .. Len(s) /\ DOMAIN t = 1 .. Len(s) - 1
  BY <1>1, <1>4, LenProperties
<1>6. \A i \in 1 .. Len(s) - 1 : i + 1 \in 1 .. Len(s) /\ t[i] = s[i + 1]
  BY <1>1, <1>2, <1>4
<1>7. \A i \in 1 .. Len(s) : i = 1 \/ \E j \in 1 .. Len(s) - 1 : s[i] = t[j]
  <2> TAKE i \in 1 .. Len(s)
  <2>1. i = 1 \/ i - 1 \in 1 .. Len(s) - 1
    BY <1>2
  <2>2. i - 1 \in 1 .. Len(s) - 1 => s[i] = t[i - 1]
    BY <1>2, <1>6
  <2>3. QED
    BY <2>1, <2>2
<1>8. Shown(s) = {About(s[1])} \cup Shown(t)
  BY <1>2, <1>5, <1>6, <1>7 DEF Shown
<1>9. QED
  BY <1>1, <1>2, <1>3, <1>4, <1>8

LEMMA ShownFirst ==
  ASSUME NEW x \in Rec, NEW s \in Seq(Rec)
  PROVE  /\ <<x>> \o s \in Seq(Rec) /\ Shown(<<x>> \o s) = {About(x)} \cup Shown(s)
<1>1. PICK o : o = <<x>>
  OBVIOUS
<1>2. o \in Seq(Rec) /\ Len(o) = 1 /\ o[1] = x /\ DOMAIN o = {1}
  <2>1. Len(o) = 1 /\ o[1] = x /\ o \in Seq(Rec)
    BY <1>1
  <2>2. QED
    BY <2>1, LenProperties
<1>3. Shown(o) = {About(x)}
  BY <1>2 DEF Shown
<1>4. QED
  BY <1>1, <1>2, <1>3, ShownConcat

-----------------------------------------------------------------------------
(* Archive: what a step of a request leaves alone.                          *)

LEMMA RecSeqs ==
  ASSUME ArchiveTypes
  PROVE  /\ todo \in Seq(Rec) /\ out \in Seq(Rec) /\ out \in Seq(Output)
         /\ \A i \in 1 .. Len(out) : out[i] \in Output /\ out[i].entry \in Entries /\ out[i].info \in Nat
         /\ DOMAIN out = 1 .. Len(out) /\ Len(out) \in Nat
<1>1. todo \in Seq(Rec) /\ out \in Seq(Output)
  BY DEF ArchiveTypes, Rec
<1>2. out \in Seq(Rec)
  BY <1>1, SeqMonotonic DEF Rec
<1>3. \A i \in 1 .. Len(out) : out[i] \in Output
  BY <1>1, ElementOfSeq
<1>4. \A x \in Output : x.entry \in Entries /\ x.info \in Nat
  BY DEF Output, Visible
<1>5. QED
  BY <1>1, <1>2, <1>3, <1>4, LenProperties

LEMMA ShownOutNumbers ==
  ASSUME ArchiveTypes
  PROVE  \A x \in Shown(out) : x.info \in Nat /\ x.entry \in Entries
<1>1. \A i \in 1 .. Len(out) : About(out[i]).info \in Nat /\ About(out[i]).entry \in Entries
  BY RecSeqs DEF About
<1>2. QED
  BY <1>1, RecSeqs, ShownHas

LEMMA PackFacts ==
  ASSUME ArchiveTypes, Packs
  PROVE  /\ req \in PackRequest /\ ~Unpacks
         /\ req.infos \in Seq(Rec)
         /\ \A x \in Shown(req.infos) : x.info \in Nat /\ x.entry \in Entries
<1>1. req \in PackRequest /\ ~Unpacks
  <2>1. req \notin UnpackRequest
    BY DEF Packs, UnpackRequest, PackOps, UnpackOps
  <2>2. QED
    BY <2>1 DEF Packs, Unpacks, ArchiveTypes, PackOps, UnpackOps
<1>2. req.infos \in Seq([entry: Visible, info: Nat])
  BY <1>1 DEF PackRequest
<1>3. [entry: Visible, info: Nat] \subseteq Rec
  BY DEF Rec, Item
<1>4. req.infos \in Seq(Rec)
  BY <1>2, <1>3, SeqMonotonic
<1>5. \A i \in 1 .. Len(req.infos) : req.infos[i].entry \in Entries /\ req.infos[i].info \in Nat
  <2> DEFINE T == [entry: Visible, info: Nat]
  <2>1. \A i \in 1 .. Len(req.infos) : req.infos[i] \in T
    BY <1>2, ElementOfSeq
  <2>2. QED
    BY <2>1 DEF Visible
<1>6. \A i \in 1 .. Len(req.infos) : About(req.infos[i]).info \in Nat /\ About(req.infos[i]).entry \in Entries
  BY <1>5 DEF About
<1>7. \A x \in Shown(req.infos) : x.info \in Nat /\ x.entry \in Entries
  BY <1>4, <1>6, ShownHas
<1>8. QED
  BY <1>1, <1>4, <1>7

LEMMA PackingFacts ==
  ASSUME ArchiveTypes, Packing
  PROVE  Packs /\ req \in PackRequest /\ ~Unpacks /\ result = "none" /\ req # Nil
<1>1. Packs /\ result = "none" /\ req # Nil
  BY DEF Packing, Packs, PackOps
<1>2. QED
  BY <1>1, PackFacts

LEMMA QuietWorld ==
  ASSUME ArchiveTypes, MomentsFollow, UNCHANGED <<world, moments>>,
         req' # Nil /\ result' = "none" => req # Nil /\ result = "none"
  PROVE  MomentsFollow'
BY DEF MomentsFollow, world

\* A step of a request that packs alters what is to be visited and what is written.
LEMMA PackGoesOn ==
  ASSUME ArchiveInv, Packing, UNCHANGED <<world, moments, tree, result>>,
         req' \in PackRequest, req'.op = req.op, req'.sources = req.sources,
         req'.infos = req.infos, req'.names = req.names,
         todo' \in Seq(Rec), out' \in Seq(Output),
         req'.stage \in {"preflight", "precheck"} => out' = <<>>,
         LookedBefore', SourcesVisited', DirsListed', FilesWhole', ShownTogether'
  PROVE  ArchiveInv'
<1>1. Packs /\ result = "none" /\ req # Nil
  BY PackingFacts DEF ArchiveInv
<1>2. req' # Nil /\ Packs' /\ ~Unpacks'
  BY <1>1, NilAssumption DEF Packs, Unpacks, PackOps, UnpackOps
<1>3. ArchiveTypes'
  BY DEF ArchiveInv, ArchiveTypes, Rec, world
<1>4. NothingYet'
  BY <1>1, <1>2 DEF ArchiveInv, NothingYet, NoTree
<1>5. MomentsFollow'
  BY <1>1, QuietWorld DEF ArchiveInv
<1>6. EndsChecked'
  BY <1>1, <1>2 DEF EndsChecked
<1>7. NamesGiven'
  BY <1>1, <1>2 DEF ArchiveInv, NamesGiven
<1>8. MembersCounted' /\ MembersThere' /\ FilesOfSource' /\ TimesSet'
  BY <1>2 DEF MembersCounted, MembersThere, FilesOfSource, TimesSet
<1>9. QED
  BY <1>3, <1>4, <1>5, <1>6, <1>7, <1>8 DEF ArchiveInv

LEMMA GiveStep ==
  ASSUME ArchiveInv, req # Nil, NEW o \in {"complete", "failed", "killed"}, Give(o),
         o = "complete" => EndsChecked'
  PROVE  ArchiveInv'
<1>1. UNCHANGED <<there, version, changes, moments, req, todo, out, tree>> /\ result' = o
  BY DEF Give, world
<1>2. ArchiveTypes'
  BY <1>1 DEF ArchiveInv, ArchiveTypes
<1>3. NothingYet'
  BY <1>1 DEF ArchiveInv, NothingYet, NoTree, Packs
<1>4. MomentsFollow'
  BY <1>1 DEF ArchiveInv, MomentsFollow
<1>5. EndsChecked'
  BY <1>1 DEF EndsChecked
<1>6. LookedBefore' /\ SourcesVisited' /\ DirsListed' /\ FilesWhole'
  BY <1>1 DEF ArchiveInv, LookedBefore, SourcesVisited, DirsListed, FilesWhole, Packs, Waiting, Packed, BeingRead
<1>7. ShownTogether' /\ NamesGiven'
  BY <1>1 DEF ArchiveInv, ShownTogether, ShowsItAt, Packed, Settled, NamesGiven, Packs
<1>8. MembersCounted' /\ MembersThere' /\ FilesOfSource' /\ TimesSet'
  BY <1>1 DEF ArchiveInv, MembersCounted, MembersThere, FilesOfSource, TimesSet, DirMembers, Unpacks
<1>9. QED
  BY <1>2, <1>3, <1>4, <1>5, <1>6, <1>7, <1>8 DEF ArchiveInv

LEMMA GivenUpStep ==
  ASSUME ArchiveInv, req # Nil, Give("failed") \/ Give("killed")
  PROVE  ArchiveInv'
<1>1. CASE Give("failed")
  <2>1. PICK o \in {"complete", "failed", "killed"} : o = "failed"
    OBVIOUS
  <2>2. QED
    BY <1>1, <2>1, GiveStep
<1>2. CASE Give("killed")
  <2>1. PICK o \in {"complete", "failed", "killed"} : o = "killed"
    OBVIOUS
  <2>2. QED
    BY <1>2, <2>1, GiveStep
<1>3. QED
  BY <1>1, <1>2

LEMMA StutterStep ==
  ASSUME ArchiveInv, UNCHANGED archiveVars
  PROVE  ArchiveInv'
<1>1. UNCHANGED <<there, version, changes, moments, req, todo, out, tree, result>>
  BY DEF archiveVars, world
<1>2. ArchiveTypes' /\ NothingYet' /\ MomentsFollow'
  BY <1>1 DEF ArchiveInv, ArchiveTypes, NothingYet, NoTree, Packs, MomentsFollow
<1>3. LookedBefore' /\ SourcesVisited' /\ DirsListed' /\ FilesWhole'
  BY <1>1 DEF ArchiveInv, LookedBefore, SourcesVisited, DirsListed, FilesWhole, Packs, Waiting, Packed, BeingRead
<1>4. ShownTogether' /\ NamesGiven'
  BY <1>1 DEF ArchiveInv, ShownTogether, ShowsItAt, Packed, Settled, NamesGiven, Packs
<1>5. MembersCounted' /\ MembersThere' /\ FilesOfSource' /\ TimesSet' /\ EndsChecked'
  BY <1>1 DEF ArchiveInv, MembersCounted, MembersThere, FilesOfSource, TimesSet, DirMembers, Unpacks, EndsChecked, Packs
<1>6. QED
  BY <1>2, <1>3, <1>4, <1>5 DEF ArchiveInv

-----------------------------------------------------------------------------
(* Archive: packing.                                                        *)

\* Nothing is half read but in front of the entry that comes next.
LEMMA AllRead ==
  ASSUME ArchiveInv, Packs, \A i \in DOMAIN out : out[i].entry \in Files => ~(out[i].last = Nil /\ BeingRead(i))
  PROVE  \A i \in DOMAIN out : out[i].entry \in Files =>
           out[i].first = out[i].info /\ out[i].last = out[i].info
BY DEF ArchiveInv, FilesWhole

LEMMA LookStep ==
  ASSUME ArchiveInv, Look
  PROVE  ArchiveInv'
<1>1. ArchiveTypes /\ Packing /\ todo # <<>> /\ Head(todo).info = Nil
  BY DEF ArchiveInv, Look, Walking
<1>2. Packs /\ req \in PackRequest /\ req # Nil /\ result = "none"
  BY <1>1, PackingFacts
<1>3. CASE Give("failed")
  BY <1>2, <1>3, GivenUpStep
<1>4. CASE ~Give("failed")
  <2> DEFINE h == todo[1]
             e == h.entry
             rest == Tail(todo)
             new == [entry |-> e, info |-> version[e]]
  <2>1. /\ h \in Rec /\ Head(todo) = h /\ rest \in Seq(Rec) /\ Shown(todo) = {About(h)} \cup Shown(rest)
    BY <1>1, RecSeqs, ShownHead
  <2>2. e \in Visible /\ e \in Entries /\ h.info = Nil /\ About(h).entry = e /\ About(h).info = Nil
    BY <1>1, <2>1, RecFacts
  <2>3. todo' = <<new>> \o rest /\ UNCHANGED <<world, moments, req, out, tree, result>>
    BY <1>4, <2>1, Zenon DEF Look
  <2>4. version[e] \in Nat /\ Nil \notin Nat
    BY <1>1, <2>2, TreeAssumption DEF ArchiveTypes
  <2>5. new \in Rec /\ About(new) = new
    BY <2>2, <2>4 DEF Rec, Item, About
  <2>6. todo' \in Seq(Rec) /\ Shown(todo') = {new} \cup Shown(rest)
    BY <2>1, <2>3, <2>5, ShownFirst
  <2> HIDE DEF rest
  <2>7. new.entry = e /\ new.info = version[e]
    OBVIOUS
  <2> HIDE DEF new, h
  <2>8. req.stage \in {"preflight", "walk"}
    BY DEF Look, Walking
  <2>9. LookedBefore'
    <3>1. version' = version /\ req' = req /\ out' = out
      BY <2>3 DEF world
    <3>2. \A x \in Shown(req.infos) \cup Shown(rest) \cup Shown(out) : x.info # Nil => x.info <= version[x.entry]
      BY <1>2, <2>1 DEF ArchiveInv, LookedBefore
    <3>3. new.info <= version[new.entry]
      BY <2>4, <2>7
    <3>4. QED
      BY <2>6, <3>1, <3>2, <3>3 DEF LookedBefore
  <2>10. SourcesVisited'
    <3>1. About(h) \notin Shown(req.infos)
      BY <1>1, <1>2, <2>2, <2>4, PackFacts
    <3>2. req.stage = "walk" => Shown(req.infos) \subseteq Shown(out) \cup {About(h)} \cup Shown(rest)
      BY <1>2, <2>1 DEF ArchiveInv, SourcesVisited, Waiting
    <3>3. QED
      BY <2>3, <2>6, <2>8, <3>1, <3>2 DEF SourcesVisited, Waiting
  <2>11. DirsListed'
    <3>1. {y.entry : y \in {new} \cup Shown(rest)} = {y.entry : y \in {About(h)} \cup Shown(rest)}
      BY <2>2, <2>7
    <3>2. Waiting' = (IF req.stage = "walk" THEN {new} \cup Shown(rest) ELSE {})
      BY <2>3, <2>6 DEF Waiting
    <3>3. {y.entry : y \in Waiting'} = {y.entry : y \in Waiting}
      BY <2>1, <3>1, <3>2 DEF Waiting
    <3>4. QED
      BY <1>2, <2>3, <3>3 DEF ArchiveInv, DirsListed, Packed, world, Packs
  <2>12. FilesWhole'
    <3>1. \A i \in DOMAIN out : ~BeingRead(i)
      BY <1>1, <2>2, <2>4, RecSeqs DEF BeingRead, h
    <3>2. QED
      BY <1>2, <2>3, <3>1, AllRead DEF FilesWhole
  <2>13. ShownTogether'
    BY <2>3, <2>8 DEF ShownTogether
  <2>14. req'.stage \in {"preflight", "precheck"} => out' = <<>>
    BY <1>2, <2>3 DEF ArchiveInv, NothingYet
  <2>15. QED
    BY <1>1, <1>2, <2>3, <2>6, <2>9, <2>10, <2>11, <2>12, <2>13, <2>14, RecSeqs, PackGoesOn
<1>5. QED
  BY <1>3, <1>4

\* The names in a directory, as what is to be visited.
LEMMA ListedFacts ==
  ASSUME NEW S \in SUBSET Visible, IsFiniteSet(S)
  PROVE  /\ Listed(SetToSeq(S)) \in Seq(Rec)
         /\ Shown(Listed(SetToSeq(S))) = {[entry |-> k, info |-> Nil] : k \in S}
<1> DEFINE found == SetToSeq(S)
<1>1. found \in Seq(S) /\ \A x \in S : \E i \in DOMAIN found : found[i] = x
  BY SetToSeqFacts
<1> HIDE DEF found
<1>2. DOMAIN found = 1 .. Len(found) /\ Len(found) \in Nat /\ \A i \in 1 .. Len(found) : found[i] \in S
  BY <1>1, LenProperties, ElementOfSeq
<1>3. \A k \in S : [entry |-> k, info |-> Nil] \in Rec /\ About([entry |-> k, info |-> Nil]) = [entry |-> k, info |-> Nil]
  BY DEF Rec, Item, About
<1> DEFINE l == Listed(found)
<1>4. DOMAIN l = 1 .. Len(found) /\ \A i \in 1 .. Len(found) : l[i] = [entry |-> found[i], info |-> Nil]
  BY <1>2 DEF Listed
<1>5. l \in [1 .. Len(found) -> Rec]
  BY <1>2, <1>3, <1>4 DEF Listed
<1>6. l \in Seq(Rec)
  BY <1>2, <1>5, SeqDef
<1> HIDE DEF l
<1>7. Shown(l) = {[entry |-> k, info |-> Nil] : k \in S}
  BY <1>1, <1>2, <1>3, <1>4 DEF Shown
<1>8. QED
  BY <1>6, <1>7 DEF l, found

LEMMA PutFacts ==
  ASSUME NEW x \in Rec, x.info \in Nat, NEW f \in Nat \cup {Nil}
  PROVE  /\ Put(x, f) \in Output /\ About(Put(x, f)) = About(x)
         /\ Put(x, f).entry = x.entry /\ Put(x, f).info = x.info
         /\ Put(x, f).first = f /\ Put(x, f).last = Nil
BY RecFacts DEF Put, Output, About

LEMMA AppendOut ==
  ASSUME ArchiveTypes, NEW x \in Output
  PROVE  /\ Append(out, x) \in Seq(Output)
         /\ Shown(Append(out, x)) = Shown(out) \cup {About(x)}
         /\ Len(Append(out, x)) = Len(out) + 1 /\ Append(out, x)[Len(out) + 1] = x
         /\ DOMAIN Append(out, x) = 1 .. Len(out) + 1
         /\ \A i \in 1 .. Len(out) : Append(out, x)[i] = out[i]
<1>1. out \in Seq(Output) /\ out \in Seq(Rec) /\ x \in Rec
  BY RecSeqs DEF Rec
<1>2. PICK o : o = Append(out, x)
  OBVIOUS
<1>3. /\ o \in Seq(Output) /\ Len(o) = Len(out) + 1 /\ o[Len(out) + 1] = x
      /\ \A i \in 1 .. Len(out) : o[i] = out[i]
  BY <1>1, <1>2, AppendProperties
<1>4. Shown(o) = Shown(out) \cup {About(x)}
  BY <1>1, <1>2, ShownAppend
<1>5. DOMAIN o = 1 .. Len(out) + 1
  BY <1>3, LenProperties
<1>6. QED
  BY <1>2, <1>3, <1>4, <1>5

\* The charge alters two counters of the request.
LEMMA ChargeFacts ==
  ASSUME req \in PackRequest, NEW n \in Nat, Charge(n)
  PROVE  /\ req' \in PackRequest
         /\ req'.op = req.op /\ req'.sources = req.sources /\ req'.infos = req.infos
         /\ req'.names = req.names /\ req'.stage = req.stage
<1>1. PICK r : r = req
  OBVIOUS
<1>2. r \in PackRequest /\ r.entries + 1 \in Nat /\ r.bytes + n \in Nat
  BY <1>1 DEF PackRequest
<1>3. PICK a \in Nat, b \in Nat : a = r.entries + 1 /\ b = r.bytes + n
  BY <1>2
<1>4. req' = [r EXCEPT !.entries = a, !.bytes = b]
  BY <1>1, <1>3 DEF Charge
<1>5. QED
  BY <1>1, <1>2, <1>4 DEF PackRequest

\* What a step has in front of it.
LEMMA NextFacts ==
  ASSUME ArchiveTypes, todo # <<>>
  PROVE  /\ todo[1] \in Rec /\ Head(todo) = todo[1] /\ Tail(todo) \in Seq(Rec)
         /\ Shown(todo) = {About(todo[1])} \cup Shown(Tail(todo))
         /\ todo[1].entry \in Entries /\ todo[1].entry \in Visible
         /\ todo[1].info \in Nat \cup {Nil}
         /\ About(todo[1]).entry = todo[1].entry /\ About(todo[1]).info = todo[1].info
<1>1. todo[1] \in Rec /\ Head(todo) = todo[1] /\ Tail(todo) \in Seq(Rec)
      /\ Shown(todo) = {About(todo[1])} \cup Shown(Tail(todo))
  BY RecSeqs, ShownHead
<1>2. QED
  BY <1>1, RecFacts

LEMMA EntriesShown ==
  ASSUME NEW s
  PROVE  {s[i].entry : i \in DOMAIN s} = {x.entry : x \in Shown(s)}
<1>1. \A i \in DOMAIN s : About(s[i]).entry = s[i].entry
  BY DEF About
<1>2. QED
  BY <1>1 DEF Shown

LEMMA PackedIsShown ==
  /\ Packed = {x.entry : x \in Shown(out)}
  /\ Packed' = {x.entry : x \in Shown(out')}
<1>1. Packed = {x.entry : x \in Shown(out)}
  BY EntriesShown DEF Packed
<1>2. PICK o : o = out'
  OBVIOUS
<1>3. {o[i].entry : i \in DOMAIN o} = {x.entry : x \in Shown(o)}
  BY EntriesShown
<1>4. QED
  BY <1>1, <1>2, <1>3 DEF Packed

LEMMA EnterStep ==
  ASSUME ArchiveInv, Enter
  PROVE  ArchiveInv'
<1>1. ArchiveTypes /\ Packing /\ todo # <<>>
  BY DEF ArchiveInv, Enter, Walking
<1>2. Packs /\ req \in PackRequest /\ req # Nil /\ result = "none"
  BY <1>1, PackingFacts
<1>3. CASE Give("failed")
  BY <1>2, <1>3, GivenUpStep
<1>4. CASE ~Give("failed")
  <2> DEFINE h == todo[1]
             e == h.entry
             rest == Tail(todo)
             kids == Shows(e) \cap there
             found == SetToSeq(kids)
             list == {[entry |-> k, info |-> Nil] : k \in kids}
             put == Put(h, Nil)
  <2>1. /\ h \in Rec /\ Head(todo) = h /\ rest \in Seq(Rec) /\ Shown(todo) = {About(h)} \cup Shown(rest)
        /\ e \in Entries /\ h.info \in Nat \cup {Nil} /\ About(h).entry = e /\ About(h).info = h.info
    BY <1>1, NextFacts
  <2>2. e \in Dirs /\ e \notin Files /\ h.info \in Nat
    BY <2>1, TreeAssumption, Zenon DEF Enter
  <2>3. /\ todo' = Listed(found) \o rest /\ Charge(0)
        /\ out' = IF req.stage = "preflight" THEN out ELSE Append(out, put)
        /\ UNCHANGED <<world, moments, tree, result>>
    BY <1>4, <2>1, Zenon DEF Enter
  <2>4. kids \in SUBSET Visible /\ IsFiniteSet(kids)
    <3>1. kids \subseteq Kids[e] /\ kids \subseteq Visible /\ IsFiniteSet(Kids[e])
      BY <2>2, TreeAssumption DEF Shows, Visible
    <3>2. QED
      BY <3>1, FS_Subset
  <2> HIDE DEF kids
  <2>5. Listed(found) \in Seq(Rec) /\ Shown(Listed(found)) = list
    BY <2>4, ListedFacts
  <2> HIDE DEF found
  <2>6. todo' \in Seq(Rec) /\ Shown(todo') = list \cup Shown(rest)
    BY <2>1, <2>3, <2>5, ShownConcat
  <2>7. put \in Output /\ About(put) = About(h) /\ put.entry = e
    BY <2>1, <2>2, PutFacts
  <2> HIDE DEF put
  <2>8. req.stage \in {"preflight", "walk"}
    BY DEF Enter, Walking
  <2>9. /\ req.stage = "preflight" => out' = <<>> /\ out = <<>> /\ Shown(out') = {} /\ Shown(out) = {}
        /\ req.stage = "walk" => /\ out' = Append(out, put)
                                 /\ Shown(out') = Shown(out) \cup {About(h)}
        /\ out' \in Seq(Output)
    <3>1. CASE req.stage = "preflight"
      <4>1. out' = out /\ out = <<>>
        BY <1>2, <2>3, <3>1 DEF ArchiveInv, NothingYet
      <4>2. Shown(out') = {} /\ Shown(out) = {} /\ out' \in Seq(Output)
        BY <1>1, <4>1, ShownEmpty, RecSeqs
      <4>3. QED
        BY <3>1, <4>1, <4>2
    <3>2. CASE req.stage = "walk"
      BY <1>1, <2>3, <2>7, <3>2, AppendOut
    <3>3. QED
      BY <2>8, <3>1, <3>2
  <2> HIDE DEF rest, h
  <2>10. \A i \in DOMAIN out : out[i].entry \in Files => ~BeingRead(i)
    BY <2>2 DEF BeingRead, h
  <2>11. /\ req' \in PackRequest /\ req'.op = req.op /\ req'.sources = req.sources
         /\ req'.infos = req.infos /\ req'.names = req.names /\ req'.stage = req.stage
    BY <1>2, <2>3, ChargeFacts
  <2>12. Packs' /\ version' = version /\ there' = there
    BY <1>2, <2>3, <2>11, NilAssumption DEF Packs, world
  <2>13. LookedBefore'
    <3>1. \A x \in Shown(req.infos) \cup {About(h)} \cup Shown(rest) \cup Shown(out) : x.info # Nil => x.info <= version[x.entry]
      BY <1>2, <2>1 DEF ArchiveInv, LookedBefore
    <3>2. \A x \in list : x.info = Nil
      OBVIOUS
    <3>3. Shown(out') \subseteq Shown(out) \cup {About(h)}
      BY <2>8, <2>9
    <3> HIDE DEF list
    <3>4. QED
      BY <2>6, <2>11, <2>12, <3>1, <3>2, <3>3 DEF LookedBefore
  <2>14. SourcesVisited'
    <3>1. req.stage = "walk" => Shown(req.infos) \subseteq Shown(out) \cup {About(h)} \cup Shown(rest)
      BY <1>2, <2>1 DEF ArchiveInv, SourcesVisited, Waiting
    <3>2. Waiting' = IF req.stage = "walk" THEN list \cup Shown(rest) ELSE {}
      BY <2>6, <2>11 DEF Waiting
    <3> HIDE DEF list
    <3>3. QED
      BY <2>8, <2>9, <2>11, <3>1, <3>2 DEF SourcesVisited
  <2>15. DirsListed'
    <3>1. CASE req.stage = "preflight"
      BY <2>9, <3>1 DEF DirsListed
    <3>2. CASE req.stage = "walk"
      <4>1. Waiting = {About(h)} \cup Shown(rest) /\ Waiting' = list \cup Shown(rest)
        BY <2>1, <2>6, <2>11, <3>2 DEF Waiting
      <4>2. {y.entry : y \in list} = kids
        <5>1. \A k \in kids : [entry |-> k, info |-> Nil].entry = k
          OBVIOUS
        <5>2. QED
          BY <5>1, Zenon
      <4>3. Packed' = {x.entry : x \in Shown(out')}
        BY PackedIsShown
      <4>4. Packed' = Packed \cup {e}
        BY <1>1, <2>1, <2>9, <3>2, <4>3, PackedIsShown
      <4> HIDE DEF list
      <4>5. {y.entry : y \in Waiting} \subseteq {e} \cup {y.entry : y \in Waiting'}
        BY <2>1, <4>1
      <4>6. kids \subseteq {y.entry : y \in Waiting'}
        BY <4>1, <4>2
      <4>7. ASSUME NEW x \in Shown(out'), x.entry \in Dirs, version[x.entry] = x.info
            PROVE  Shows(x.entry) \cap there \subseteq Packed' \cup {y.entry : y \in Waiting'}
        <5>1. CASE x \in Shown(out)
          <6>1. Shows(x.entry) \cap there \subseteq Packed \cup {y.entry : y \in Waiting}
            BY <1>2, <4>7, <5>1 DEF ArchiveInv, DirsListed
          <6>2. QED
            BY <4>4, <4>5, <6>1
        <5>2. CASE x = About(h)
          BY <2>1, <4>6, <5>2 DEF kids
        <5>3. QED
          BY <2>9, <3>2, <5>1, <5>2
      <4>8. QED
        BY <2>12, <4>7 DEF DirsListed
    <3>3. QED
      BY <2>8, <3>1, <3>2
  <2>16. FilesWhole'
    <3>1. CASE req.stage = "preflight"
      BY <2>9, <3>1 DEF FilesWhole
    <3>2. CASE req.stage = "walk"
      <4>1. \A i \in 1 .. Len(out) : out[i].entry \in Files => out[i].first = out[i].info /\ out[i].last = out[i].info
        BY <1>1, <1>2, <2>10, AllRead, RecSeqs
      <4>2. /\ DOMAIN out' = 1 .. Len(out) + 1 /\ out'[Len(out) + 1] = put /\ \A i \in 1 .. Len(out) : out'[i] = out[i]
        BY <1>1, <2>7, <2>9, <3>2, AppendOut
      <4>3. Len(out) \in Nat
        BY <1>1, RecSeqs
      <4>4. \A i \in 1 .. Len(out) + 1 : i \in 1 .. Len(out) \/ i = Len(out) + 1
        BY <4>3
      <4>5. QED
        BY <2>2, <2>7, <4>1, <4>2, <4>4 DEF FilesWhole
    <3>3. QED
      BY <2>8, <3>1, <3>2
  <2>17. ShownTogether'
    BY <2>8, <2>11 DEF ShownTogether
  <2>18. req'.stage \in {"preflight", "precheck"} => out' = <<>>
    BY <2>8, <2>9, <2>11
  <2>19. QED
    BY <1>1, <2>3, <2>6, <2>9, <2>11, <2>13, <2>14, <2>15, <2>16, <2>17, <2>18, PackGoesOn
<1>5. QED
  BY <1>3, <1>4

LEMMA OpenStep ==
  ASSUME ArchiveInv, Open
  PROVE  ArchiveInv'
<1>1. ArchiveTypes /\ Packing /\ todo # <<>> /\ ~Reading
  BY DEF ArchiveInv, Open, Walking
<1>2. Packs /\ req \in PackRequest /\ req # Nil /\ result = "none"
  BY <1>1, PackingFacts
<1>3. CASE Give("failed")
  BY <1>2, <1>3, GivenUpStep
<1>4. CASE ~Give("failed")
  <2> DEFINE h == todo[1]
             e == h.entry
             rest == Tail(todo)
             put == Put(h, version[e])
  <2>1. /\ h \in Rec /\ Head(todo) = h /\ rest \in Seq(Rec) /\ Shown(todo) = {About(h)} \cup Shown(rest)
        /\ e \in Entries /\ h.info \in Nat \cup {Nil} /\ About(h).entry = e /\ About(h).info = h.info
    BY <1>1, NextFacts
  <2>2. e \in Files /\ e \notin Dirs /\ h.info \in Nat
    BY <2>1, TreeAssumption, Zenon DEF Open
  <2>3. /\ Charge(1) /\ UNCHANGED <<world, moments, tree, result>>
        /\ IF req.stage = "preflight" THEN todo' = rest /\ out' = out
           ELSE todo' = todo /\ out' = Append(out, put)
    BY <1>4, <2>1, Zenon DEF Open
  <2>4. version[e] \in Nat
    BY <1>1, <2>1 DEF ArchiveTypes
  <2>5. put \in Output /\ About(put) = About(h) /\ put.entry = e /\ put.info = h.info /\ put.first = version[e] /\ put.last = Nil
    BY <2>1, <2>2, <2>4, PutFacts
  <2>6. h.info <= version[e]
    <3>1. About(h) \in Shown(todo) /\ Nil \notin Nat
      BY <2>1, TreeAssumption
    <3>2. QED
      BY <1>2, <2>1, <2>2, <3>1 DEF ArchiveInv, LookedBefore
  <2> HIDE DEF put
  <2>7. req.stage \in {"preflight", "walk"}
    BY DEF Open, Walking
  <2>8. /\ req' \in PackRequest /\ req'.op = req.op /\ req'.sources = req.sources
        /\ req'.infos = req.infos /\ req'.names = req.names /\ req'.stage = req.stage
    BY <1>2, <2>3, ChargeFacts
  <2>9. Packs' /\ version' = version /\ there' = there
    BY <1>2, <2>3, <2>8, NilAssumption DEF Packs, world
  <2>10. ASSUME NEW i \in DOMAIN out, out[i].entry \in Files PROVE out[i].last # Nil
    <3>1. Len(out) \in Nat /\ DOMAIN out = 1 .. Len(out) /\ out # <<>>
      BY <1>1, RecSeqs
    <3>2. ~(i = Len(out) /\ out[i].last = Nil)
      BY <1>1, <2>10, <3>1 DEF Reading
    <3>3. Nil \notin Nat
      BY TreeAssumption
    <3>4. out[i].info \in Nat
      BY <1>1, <3>1, RecSeqs
    <3>5. (out[i].last = Nil /\ BeingRead(i)) \/ out[i].last = out[i].info
      BY <1>2, <2>10 DEF ArchiveInv, FilesWhole
    <3>6. QED
      BY <3>2, <3>3, <3>4, <3>5 DEF BeingRead
  <2>11. \A i \in DOMAIN out : out[i].entry \in Files => out[i].first = out[i].info /\ out[i].last = out[i].info
    BY <1>2, <2>10, AllRead
  <2>12. CASE req.stage = "preflight"
    <3>1. out = <<>> /\ out' = <<>> /\ todo' = rest /\ Shown(out) = {} /\ Shown(out') = {} /\ out' \in Seq(Output)
      BY <1>2, <2>3, <2>12, ShownEmpty, EmptySeq DEF ArchiveInv, NothingYet
    <3>2. LookedBefore'
      BY <1>2, <2>1, <2>8, <2>9, <3>1 DEF ArchiveInv, LookedBefore
    <3>3. SourcesVisited' /\ ShownTogether'
      BY <2>8, <2>12 DEF SourcesVisited, ShownTogether
    <3>4. DirsListed' /\ FilesWhole'
      BY <3>1 DEF DirsListed, FilesWhole
    <3>5. QED
      BY <1>1, <2>1, <2>3, <2>8, <3>1, <3>2, <3>3, <3>4, PackGoesOn
  <2>13. CASE req.stage = "walk"
    <3>1. /\ out' = Append(out, put) /\ todo' = todo
      BY <2>3, <2>13
    <3>2. /\ out' \in Seq(Output) /\ Shown(out') = Shown(out) \cup {About(h)}
          /\ Len(out') = Len(out) + 1 /\ out'[Len(out) + 1] = put
          /\ DOMAIN out' = 1 .. Len(out) + 1 /\ \A i \in 1 .. Len(out) : out'[i] = out[i]
      BY <1>1, <2>5, <3>1, AppendOut
    <3>3. LookedBefore'
      BY <1>2, <2>1, <2>8, <2>9, <3>1, <3>2 DEF ArchiveInv, LookedBefore
    <3>4. SourcesVisited'
      BY <1>2, <2>8, <2>9, <2>13, <3>1, <3>2 DEF ArchiveInv, SourcesVisited, Waiting
    <3>5. ShownTogether'
      BY <2>8, <2>13 DEF ShownTogether
    <3>6. DirsListed'
      <4>1. Packed \subseteq Packed' /\ Waiting' = Waiting
        BY <2>8, <3>1, <3>2, PackedIsShown DEF Waiting
      <4>2. \A x \in Shown(out') : x.entry \in Dirs => x \in Shown(out)
        BY <2>1, <2>2, <3>2
      <4>3. QED
        BY <1>2, <2>9, <4>1, <4>2 DEF ArchiveInv, DirsListed
    <3>7. FilesWhole'
      <4>1. Len(out) \in Nat /\ DOMAIN out = 1 .. Len(out)
        BY <1>1, RecSeqs
      <4>2. \A i \in 1 .. Len(out) + 1 : i \in 1 .. Len(out) \/ i = Len(out) + 1
        BY <4>1
      <4>3. PICK n : n = Len(out) + 1
        OBVIOUS
      <4> HIDE DEF h
      <4>4. BeingRead(n)'
        <5>1. n = Len(out') /\ req'.stage = "walk" /\ todo' # <<>>
          BY <1>1, <2>8, <2>13, <3>1, <3>2, <4>3
        <5>2. todo'[1].entry = out'[n].entry /\ todo'[1].info = out'[n].info
          BY <2>5, <3>1, <3>2, <4>3 DEF h
        <5>3. out'[n].first = version[e] /\ out'[n].info = h.info /\ out'[n].entry = e
          BY <2>5, <3>2, <4>3
        <5>4. /\ out'[n].first \in Nat /\ out'[n].info <= out'[n].first
              /\ out'[n].first <= version'[out'[n].entry]
          BY <2>4, <2>6, <2>9, <5>3
        <5>5. QED
          BY <5>1, <5>2, <5>4 DEF BeingRead
      <4>5. ASSUME NEW i \in DOMAIN out', out'[i].entry \in Files
            PROVE  \/ out'[i].last = Nil /\ BeingRead(i)'
                   \/ out'[i].first = out'[i].info /\ out'[i].last = out'[i].info
        <5>1. CASE i \in 1 .. Len(out)
          BY <2>11, <3>2, <4>1, <4>5, <5>1
        <5>2. CASE i = n
          <6>1. out'[i].last = Nil
            BY <2>5, <3>2, <4>3, <5>2
          <6>2. QED
            BY <4>4, <5>2, <6>1
        <5>3. QED
          BY <3>2, <4>2, <4>3, <5>1, <5>2
      <4>6. QED
        BY <4>5 DEF FilesWhole
    <3>8. todo' \in Seq(Rec)
      BY <1>1, <3>1, RecSeqs
    <3>9. req'.stage \in {"preflight", "precheck"} => out' = <<>>
      BY <2>8, <2>13
    <3>10. QED
      BY <1>1, <2>3, <2>8, <3>2, <3>3, <3>4, <3>5, <3>6, <3>7, <3>8, <3>9, PackGoesOn
  <2>14. QED
    BY <2>7, <2>12, <2>13
<1>5. QED
  BY <1>3, <1>4

LEMMA CopiedStep ==
  ASSUME ArchiveInv, Copied
  PROVE  ArchiveInv'
<1>1. ArchiveTypes /\ Packing /\ todo # <<>> /\ Reading
  BY DEF ArchiveInv, Copied, Walking
<1>2. Packs /\ req \in PackRequest /\ req # Nil /\ result = "none"
  BY <1>1, PackingFacts
<1>3. CASE Give("failed")
  BY <1>2, <1>3, GivenUpStep
<1>4. CASE ~Give("failed")
  <2> DEFINE h == todo[1]
             e == h.entry
             rest == Tail(todo)
             n == Len(out)
             was == out[n]
             put == [was EXCEPT !.last = version[e]]
  <2>1. /\ h \in Rec /\ Head(todo) = h /\ rest \in Seq(Rec) /\ Shown(todo) = {About(h)} \cup Shown(rest)
        /\ e \in Entries /\ h.info \in Nat \cup {Nil} /\ About(h).entry = e /\ About(h).info = h.info
    BY <1>1, NextFacts
  <2>2. Same(e, h.info) /\ out' = [out EXCEPT ![n].last = version[e]] /\ todo' = rest
        /\ UNCHANGED <<world, moments, req, tree, result>>
    BY <1>4, <2>1, Zenon DEF Copied
  <2>3. n \in 1 .. Len(out) /\ n \in Nat /\ was \in Output /\ was.entry \in Files /\ was.last = Nil
        /\ was.info \in Nat /\ DOMAIN out = 1 .. n
    BY <1>1, RecSeqs, EmptySeq DEF Reading
  <2>4. BeingRead(n)
    <3>1. Nil \notin Nat
      BY TreeAssumption
    <3>2. QED
      BY <1>2, <2>3, <3>1 DEF ArchiveInv, FilesWhole
  <2>5. /\ h.entry = was.entry /\ h.info = was.info /\ req.stage = "walk"
        /\ was.first \in Nat /\ was.info <= was.first /\ was.first <= version[e]
    BY <2>4 DEF BeingRead
  <2>6. version[e] = h.info /\ version[e] \in Nat
    BY <1>1, <2>1, <2>2 DEF Same, ArchiveTypes
  <2>7. was.first = h.info
    BY <2>3, <2>5, <2>6
  <2>8. put \in Output /\ About(put) = About(was) /\ put.entry = e /\ put.info = h.info
        /\ put.first = h.info /\ put.last = h.info
    BY <2>3, <2>5, <2>6, <2>7 DEF Output, About
  <2>9. About(was) = About(h)
    BY <2>5 DEF About
  <2>10. out' = [out EXCEPT ![n] = put]
    BY <2>2, <2>3
  <2> HIDE DEF put, was
  <2>11. /\ out' \in Seq(Output) /\ Len(out') = n
         /\ \A i \in 1 .. n : out'[i] = IF i = n THEN put ELSE out[i]
    BY <1>1, <2>3, <2>8, <2>10, RecSeqs, ExceptSeq
  <2>12. DOMAIN out' = 1 .. n
    BY <2>11, LenProperties
  <2>13. Shown(out') = Shown(out)
    <3>1. \A i \in 1 .. n : About(out'[i]) = About(out[i])
      BY <2>8, <2>11 DEF was
    <3>2. QED
      BY <2>3, <2>12, <3>1 DEF Shown
  <2>14. About(h) \in Shown(out)
    BY <2>3, <2>9 DEF Shown, was
  <2> HIDE DEF h, n
  <2>15. Packs' /\ version' = version /\ there' = there /\ req' = req
    BY <1>2, <2>2 DEF Packs, world
  <2>16. Packed' = Packed /\ e \in Packed
    BY <2>1, <2>13, <2>14, PackedIsShown
  <2>17. LookedBefore'
    BY <1>2, <2>1, <2>2, <2>13, <2>15 DEF ArchiveInv, LookedBefore
  <2>18. SourcesVisited'
    BY <1>2, <2>1, <2>2, <2>13, <2>14, <2>15 DEF ArchiveInv, SourcesVisited, Waiting
  <2>19. DirsListed'
    <3>1. Waiting = {About(h)} \cup Shown(rest) /\ Waiting' = Shown(rest)
      BY <2>1, <2>2, <2>5 DEF Waiting
    <3>2. {y.entry : y \in Waiting} \subseteq {y.entry : y \in Waiting'} \cup {e}
      BY <2>1, <3>1
    <3>3. QED
      BY <1>2, <2>13, <2>15, <2>16, <3>2 DEF ArchiveInv, DirsListed
  <2>20. FilesWhole'
    <3>1. ASSUME NEW i \in 1 .. n, out'[i].entry \in Files
          PROVE  out'[i].first = out'[i].info /\ out'[i].last = out'[i].info
      <4>1. CASE i = n
        BY <2>8, <2>11, <4>1
      <4>2. CASE i # n
        <5>1. ~BeingRead(i) /\ out'[i] = out[i]
          BY <2>11, <4>2 DEF BeingRead, n
        <5>2. QED
          BY <1>2, <2>3, <3>1, <5>1 DEF ArchiveInv, FilesWhole
      <4>3. QED
        BY <4>1, <4>2
    <3>2. QED
      BY <2>12, <3>1 DEF FilesWhole
  <2>21. ShownTogether'
    BY <2>5, <2>15 DEF ShownTogether
  <2>22. QED
    BY <1>1, <1>2, <2>1, <2>2, <2>5, <2>11, <2>15, <2>17, <2>18, <2>19, <2>20, <2>21, PackGoesOn
<1>5. QED
  BY <1>3, <1>4

LEMMA WalkedStep ==
  ASSUME ArchiveInv, Walked
  PROVE  ArchiveInv'
<1>1. ArchiveTypes /\ Packing /\ todo = <<>> /\ req.stage \in {"preflight", "walk"}
  BY DEF ArchiveInv, Walked
<1>2. Packs /\ req \in PackRequest /\ req # Nil /\ result = "none"
  BY <1>1, PackingFacts
<1>3. PICK st \in {"check", "precheck"} : st = IF req.stage = "walk" THEN "check" ELSE "precheck"
  OBVIOUS
<1>4. req' = [req EXCEPT !.stage = st] /\ UNCHANGED <<world, moments, out, tree, result>>
  BY <1>3, Zenon DEF Walked
<1>5. /\ req' \in PackRequest /\ req'.op = req.op /\ req'.sources = req.sources
      /\ req'.infos = req.infos /\ req'.names = req.names /\ req'.stage = st
  BY <1>2, <1>4 DEF PackRequest
<1>6. Packs' /\ version' = version /\ there' = there /\ out' = out /\ moments' = moments
  BY <1>2, <1>4, <1>5, NilAssumption DEF Packs, world
<1>7. Shown(todo) = {} /\ Waiting = {}
  BY <1>1, ShownEmpty DEF Waiting
<1>8. /\ todo' \in Seq(Rec) /\ Shown(req.infos) \subseteq Shown(todo')
      /\ req.op = "directory" => Shown(out) \subseteq Shown(todo')
      /\ Shown(todo') \subseteq Shown(req.infos) \cup Shown(out)
  <2>1. req.infos \in Seq(Rec) /\ out \in Seq(Rec) /\ <<>> \in Seq(Rec)
    BY <1>1, <1>2, PackFacts, RecSeqs, EmptySeq
  <2>2. PICK more \in Seq(Rec) : more = IF req.op = "directory" THEN out ELSE <<>>
    BY <2>1
  <2>3. todo' = req.infos \o more
    BY <2>2, Zenon DEF Walked, SeenAgain
  <2>4. todo' \in Seq(Rec) /\ Shown(todo') = Shown(req.infos) \cup Shown(more)
    BY <2>1, <2>3, ShownConcat
  <2>5. Shown(more) = IF req.op = "directory" THEN Shown(out) ELSE {}
    BY <2>2, ShownEmpty
  <2>6. QED
    BY <2>4, <2>5
<1>9. LookedBefore'
  BY <1>2, <1>5, <1>6, <1>8 DEF ArchiveInv, LookedBefore
<1>10. SourcesVisited'
  <2>1. req'.stage = "check" => req.stage = "walk"
    BY <1>3, <1>5
  <2>2. QED
    BY <1>2, <1>5, <1>6, <1>7, <2>1 DEF ArchiveInv, SourcesVisited
<1>11. DirsListed'
  BY <1>2, <1>6, <1>7 DEF ArchiveInv, DirsListed, Packed
<1>12. FilesWhole'
  <2>1. \A i \in DOMAIN out : ~BeingRead(i)
    BY <1>1 DEF BeingRead
  <2>2. QED
    BY <1>2, <1>6, <2>1, AllRead DEF FilesWhole
<1>13. ShownTogether'
  <2> SUFFICES ASSUME st = "check"
               PROVE  \E w \in moments : \A x \in Shown(Settled)' : ShowsItAt(w, x)'
    BY <1>5, <1>6 DEF ShownTogether
  <2>1. req.stage = "walk"
    BY <1>1, <1>3
  <2>2. PICK w \in moments : w = [there |-> there, version |-> version]
    BY <1>2 DEF ArchiveInv, MomentsFollow
  <2>3. w.there = there /\ w.version = version
    BY <2>2
  <2>4. Shown(Settled)' \subseteq Shown(out) /\ Shown(Settled)' \subseteq Shown(todo')
    <3>1. Settled' = IF req.op = "directory" THEN out ELSE req.infos
      BY <1>5, <1>6 DEF Settled
    <3>2. Shown(req.infos) \subseteq Shown(out)
      BY <1>2, <1>7, <2>1 DEF ArchiveInv, SourcesVisited
    <3>3. QED
      BY <1>8, <3>1, <3>2
  <2>5. ASSUME NEW x \in Shown(Settled)' PROVE ShowsItAt(w, x)'
    <3>1. x \in Shown(out) /\ x \in Shown(todo') /\ x.info \in Nat
      BY <1>1, <2>4, ShownOutNumbers
    <3>2. x.info <= version[x.entry]
      BY <1>2, <3>1, TreeAssumption DEF ArchiveInv, LookedBefore
    <3>3. x.entry \in Dirs /\ version[x.entry] = x.info => Shows(x.entry) \cap there \subseteq Packed
      BY <1>2, <1>7, <3>1 DEF ArchiveInv, DirsListed
    <3>4. Packed' = Packed
      BY <1>6 DEF Packed
    <3>5. QED
      BY <2>3, <3>1, <3>2, <3>3, <3>4 DEF ShowsItAt
  <2>6. QED
    BY <2>5
<1>14. req'.stage \in {"preflight", "precheck"} => out' = <<>>
  BY <1>1, <1>2, <1>3, <1>5, <1>6 DEF ArchiveInv, NothingYet
<1>15. QED
  BY <1>1, <1>4, <1>5, <1>6, <1>8, <1>9, <1>10, <1>11, <1>12, <1>13, <1>14, RecSeqs, PackGoesOn

LEMMA CheckStep ==
  ASSUME ArchiveInv, Check
  PROVE  ArchiveInv'
<1>1. ArchiveTypes /\ Packing /\ todo # <<>> /\ req.stage \in {"precheck", "check"}
  BY DEF ArchiveInv, Check
<1>2. Packs /\ req \in PackRequest /\ req # Nil /\ result = "none"
  BY <1>1, PackingFacts
<1>3. CASE Give("failed")
  BY <1>2, <1>3, GivenUpStep
<1>4. CASE ~Give("failed")
  <2> DEFINE h == todo[1]
             e == h.entry
             rest == Tail(todo)
  <2>1. /\ h \in Rec /\ Head(todo) = h /\ rest \in Seq(Rec) /\ Shown(todo) = {About(h)} \cup Shown(rest)
        /\ e \in Entries /\ h.info \in Nat \cup {Nil} /\ About(h).entry = e /\ About(h).info = h.info
    BY <1>1, NextFacts
  <2>2. e \in there /\ Same(e, h.info) /\ todo' = rest /\ UNCHANGED <<world, moments, req, out, tree, result>>
    BY <1>4, <2>1, Zenon DEF Check
  <2>3. version[e] = h.info /\ version[e] \in Nat
    BY <1>1, <2>1, <2>2 DEF Same, ArchiveTypes
  <2> HIDE DEF h, rest
  <2>4. Packs' /\ version' = version /\ there' = there /\ req' = req /\ out' = out /\ moments' = moments
    BY <1>2, <2>2 DEF Packs, world
  <2>5. LookedBefore'
    BY <1>2, <2>1, <2>2, <2>4 DEF ArchiveInv, LookedBefore
  <2>6. SourcesVisited' /\ DirsListed'
    BY <1>1, <1>2, <2>4 DEF ArchiveInv, SourcesVisited, DirsListed, Waiting, Packed
  <2>7. FilesWhole'
    <3>1. \A i \in DOMAIN out : ~BeingRead(i)
      BY <1>1 DEF BeingRead
    <3>2. QED
      BY <1>2, <2>4, <3>1, AllRead DEF FilesWhole
  <2>8. ShownTogether'
    <3> SUFFICES ASSUME req.stage = "check"
                 PROVE  \E w \in moments : \A x \in Shown(Settled)' : ShowsItAt(w, x)'
      BY <2>4 DEF ShownTogether
    <3>1. PICK w \in moments : \A x \in Shown(Settled) : ShowsItAt(w, x)
      BY <1>2 DEF ArchiveInv, ShownTogether
    <3>2. Settled' = Settled /\ Packed' = Packed
      BY <2>4 DEF Settled, Packed
    <3>3. ASSUME NEW x \in Shown(Settled) PROVE ShowsItAt(w, x)'
      <4>1. x \notin Shown(rest) => x.entry \in w.there /\ w.version[x.entry] = x.info
        <5>1. CASE x \in Shown(todo)
          <6> SUFFICES ASSUME x \notin Shown(rest)
                       PROVE  x.entry \in w.there /\ w.version[x.entry] = x.info
            OBVIOUS
          <6>1. x.entry = e /\ x.info = h.info
            BY <2>1, <5>1
          <6>2. h.info <= w.version[e]
            BY <3>1, <6>1 DEF ShowsItAt
          <6>3. w.version[e] <= version[e] /\ (e \notin w.there => w.version[e] < version[e])
            BY <2>1, <2>2 DEF ArchiveInv, MomentsFollow
          <6>4. w.version[e] \in Nat
            BY <1>1, <2>1 DEF ArchiveTypes, Moment
          <6>5. QED
            BY <2>3, <6>1, <6>2, <6>3, <6>4
        <5>2. CASE x \notin Shown(todo)
          BY <3>1, <5>2 DEF ShowsItAt
        <5>3. QED
          BY <5>1, <5>2
      <4>2. QED
        BY <2>2, <2>4, <3>1, <3>2, <4>1 DEF ShowsItAt
    <3>4. QED
      BY <3>1, <3>2, <3>3
  <2>9. req'.stage \in {"preflight", "precheck"} => out' = <<>>
    BY <1>2, <2>4 DEF ArchiveInv, NothingYet
  <2>10. QED
    BY <1>1, <1>2, <2>1, <2>2, <2>4, <2>5, <2>6, <2>7, <2>8, <2>9, RecSeqs, PackGoesOn
<1>5. QED
  BY <1>3, <1>4

LEMMA AgainStep ==
  ASSUME ArchiveInv, Again
  PROVE  ArchiveInv'
<1>1. ArchiveTypes /\ Packing /\ req.stage = "precheck"
  BY DEF ArchiveInv, Again
<1>2. Packs /\ req \in PackRequest /\ req # Nil /\ result = "none"
  BY <1>1, PackingFacts
<1>3. /\ req' = [req EXCEPT !.stage = "walk", !.entries = 0, !.bytes = 0] /\ todo' = req.infos
      /\ UNCHANGED <<world, moments, out, tree, result>>
  BY DEF Again
<1>4. /\ req' \in PackRequest /\ req'.op = req.op /\ req'.sources = req.sources
      /\ req'.infos = req.infos /\ req'.names = req.names /\ req'.stage = "walk"
  BY <1>2, <1>3 DEF PackRequest
<1>5. out = <<>> /\ out' = <<>> /\ Shown(out) = {} /\ Shown(out') = {} /\ out' \in Seq(Output)
  BY <1>1, <1>2, <1>3, ShownEmpty, EmptySeq DEF ArchiveInv, NothingYet
<1>6. version' = version /\ todo' \in Seq(Rec) /\ Shown(todo') = Shown(req.infos)
  BY <1>1, <1>2, <1>3, PackFacts DEF world
<1>7. LookedBefore'
  BY <1>2, <1>4, <1>5, <1>6 DEF ArchiveInv, LookedBefore
<1>8. SourcesVisited' /\ ShownTogether'
  BY <1>4, <1>6 DEF SourcesVisited, Waiting, ShownTogether
<1>9. DirsListed' /\ FilesWhole'
  BY <1>5 DEF DirsListed, FilesWhole
<1>10. QED
  BY <1>1, <1>3, <1>4, <1>5, <1>6, <1>7, <1>8, <1>9, PackGoesOn

LEMMA CloseStep ==
  ASSUME ArchiveInv, Close
  PROVE  ArchiveInv'
<1>1. ArchiveTypes /\ Packing /\ req.stage = "check" /\ todo = <<>>
  BY DEF ArchiveInv, Close
<1>2. Packs /\ ~Unpacks /\ req # Nil
  BY <1>1, PackingFacts
<1>3. CASE Give("complete")
  <2>1. req' = req /\ todo' = todo
    BY <1>3 DEF Give
  <2>2. EndsChecked'
    BY <1>1, <1>2, <2>1 DEF EndsChecked, Unpacks
  <2>3. PICK o \in {"complete", "failed", "killed"} : o = "complete"
    OBVIOUS
  <2>4. QED
    BY <1>2, <1>3, <2>2, <2>3, GiveStep
<1>4. CASE Give("failed")
  BY <1>2, <1>4, GivenUpStep
<1>5. QED
  BY <1>3, <1>4 DEF Close

\* A request that packs begins: whatever it looks at, it looks at now.
LEMMA PackStep ==
  ASSUME ArchiveInv, NEW op \in PackOps, NEW sources \in Seq(Tops), Pack(op, sources)
  PROVE  ArchiveInv'
<1>1. ArchiveTypes /\ req = Nil /\ tree = NoTree /\ out = <<>> /\ result = "none"
  BY DEF ArchiveInv, Pack, NothingYet
<1> DEFINE bases == [i \in DOMAIN sources |-> Base[sources[i]]]
           heads == Heads(sources)
<1>2. PICK st \in {"preflight", "walk"} : st = IF op = "export" THEN "preflight" ELSE "walk"
  OBVIOUS
<1>3. DOMAIN sources = 1 .. Len(sources) /\ Len(sources) \in Nat
      /\ \A i \in 1 .. Len(sources) : sources[i] \in Visible /\ sources[i] \in Entries
  BY LenProperties, ElementOfSeq, TreeAssumption DEF Visible
<1>4. heads \in Seq([entry: Visible, info: Nat])
  <2>1. \A e \in Entries : version[e] \in Nat
    BY <1>1 DEF ArchiveTypes
  <2>2. heads \in [1 .. Len(sources) -> [entry: Visible, info: Nat]]
    BY <1>3, <2>1 DEF Heads
  <2>3. ASSUME NEW T, heads \in [1 .. Len(sources) -> T] PROVE heads \in Seq(T)
    BY <1>3, <2>3, SeqDef
  <2>4. QED
    BY <2>2, <2>3
<1>5. bases \in Seq(Seq(Nat))
  <2>1. bases \in [1 .. Len(sources) -> Seq(Nat)]
    BY <1>3, TreeAssumption
  <2> HIDE DEF bases
  <2>2. QED
    BY <1>3, <2>1, SeqDef
<1>6. PICK names \in Seq(Seq(Nat)) : names = Unique(bases)
  BY <1>5, UniqueFacts DEF Apart
<1>7. PICK infos \in Seq([entry: Visible, info: Nat]) : infos = heads
  BY <1>4
<1>8. /\ req' = [op |-> op, sources |-> sources, infos |-> infos, names |-> names,
                 stage |-> st, entries |-> 0, bytes |-> 0]
      /\ todo' = infos /\ moments' = {[there |-> there, version |-> version]}
      /\ UNCHANGED <<world, out, tree, result>>
  BY <1>2, <1>6, <1>7, Zenon DEF Pack
<1>9. /\ req' \in PackRequest /\ req'.op = op /\ req'.sources = sources /\ req'.infos = infos
      /\ req'.names = names /\ req'.stage = st
  BY <1>8 DEF PackRequest
<1>10. Packs' /\ ~Unpacks' /\ req' # Nil
  BY <1>9, NilAssumption DEF Packs, Unpacks, PackOps, UnpackOps
<1>11. infos \in Seq(Rec)
  <2>1. [entry: Visible, info: Nat] \subseteq Rec
    BY DEF Rec, Item
  <2>2. QED
    BY <2>1, SeqMonotonic
<1>12. out' = <<>> /\ Shown(out') = {} /\ version' = version /\ there' = there
  BY <1>1, <1>8, ShownEmpty DEF world
<1>13. [there |-> there, version |-> version] \in Moment
  BY <1>1 DEF ArchiveTypes, Moment
<1>14. ArchiveTypes'
  BY <1>1, <1>8, <1>9, <1>11, <1>13 DEF ArchiveTypes, world, Rec
<1>15. NothingYet'
  BY <1>1, <1>8, <1>10 DEF NothingYet, NoTree
<1>16. MomentsFollow'
  BY <1>1, <1>8, <1>12 DEF MomentsFollow, ArchiveTypes
<1>17. LookedBefore'
  <2>1. \A i \in 1 .. Len(infos) : About(infos[i]).info <= version[About(infos[i]).entry]
    <3>1. DOMAIN infos = 1 .. Len(infos)
      BY LenProperties
    <3>2. DOMAIN infos = 1 .. Len(sources)
      BY <1>3, <1>7 DEF Heads
    <3>3. \A i \in 1 .. Len(sources) : infos[i].info = version[infos[i].entry] /\ infos[i].entry \in Entries
      BY <1>3, <1>7 DEF Heads
    <3>4. \A e \in Entries : version[e] \in Nat
      BY <1>1 DEF ArchiveTypes
    <3>5. QED
      BY <3>1, <3>2, <3>3, <3>4 DEF About
  <2>2. \A x \in Shown(infos) : x.info <= version[x.entry]
    BY <1>11, <2>1, ShownHas
  <2>3. QED
    BY <1>8, <1>9, <1>12, <2>2 DEF LookedBefore
<1>18. SourcesVisited' /\ ShownTogether'
  BY <1>8, <1>9 DEF SourcesVisited, Waiting, ShownTogether
<1>19. DirsListed' /\ FilesWhole'
  BY <1>12 DEF DirsListed, FilesWhole
<1>20. EndsChecked'
  BY <1>1, <1>8 DEF EndsChecked
<1>21. NamesGiven'
  BY <1>6, <1>9 DEF NamesGiven
<1>22. MembersCounted' /\ MembersThere' /\ FilesOfSource' /\ TimesSet'
  BY <1>10 DEF MembersCounted, MembersThere, FilesOfSource, TimesSet
<1>23. QED
  BY <1>14, <1>15, <1>16, <1>17, <1>18, <1>19, <1>20, <1>21, <1>22 DEF ArchiveInv

-----------------------------------------------------------------------------
(* Archive: the host.                                                       *)

\* The host changes something while the request is in flight.
LEMMA HostStep ==
  ASSUME ArchiveInv, req # Nil, result = "none", UNCHANGED <<req, todo, out, tree, result>>,
         Remember, there' \subseteq Entries, changes' \in Nat, version' \in [Entries -> 0 .. changes'],
         \A e \in Entries : version[e] <= version'[e],
         \A e \in there' \ there : version[e] < version'[e],
         \A d \in Dirs : version'[d] = version[d] => Kids[d] \cap there' \subseteq there
  PROVE  ArchiveInv'
<1>1. ArchiveTypes /\ result' = "none" /\ req' = req
  BY DEF ArchiveInv
<1>2. \A e \in Entries : version[e] \in Nat /\ version'[e] \in Nat
  BY <1>1 DEF ArchiveTypes
<1>3. PICK now : now = [there |-> there', version |-> version']
  OBVIOUS
<1>4. now \in Moment /\ now.there = there' /\ now.version = version' /\ moments' = moments \cup {now}
  BY <1>2, <1>3 DEF Moment, Remember
<1>5. ArchiveTypes'
  BY <1>1, <1>4 DEF ArchiveTypes
<1>6. NothingYet' /\ EndsChecked' /\ NamesGiven'
  BY DEF ArchiveInv, NothingYet, NoTree, EndsChecked, NamesGiven, Packs, Unpacks
<1>7. MomentsFollow'
  <2>1. ASSUME NEW w \in moments, NEW e \in Entries
        PROVE  w.version[e] <= version'[e] /\ (e \in there' \ w.there => w.version[e] < version'[e])
    <3>1. w.version[e] \in Nat
      BY <1>1 DEF ArchiveTypes, Moment
    <3>2. w.version[e] <= version[e] /\ (e \in there \ w.there => w.version[e] < version[e])
      BY DEF ArchiveInv, MomentsFollow
    <3>3. QED
      BY <1>2, <3>1, <3>2
  <2>2. \A e \in Entries : now.version[e] <= version'[e] /\ ~(e \in there' \ now.there)
    BY <1>2, <1>4
  <2>3. QED
    BY <1>3, <1>4, <2>1, <2>2 DEF MomentsFollow
<1>8. Packs' = Packs /\ Unpacks' = Unpacks
  BY DEF Packs, Unpacks
<1>9. LookedBefore'
  <2>1. ASSUME Packs, NEW x \in Shown(req.infos) \cup Shown(todo) \cup Shown(out), x.info # Nil
        PROVE  x.info <= version'[x.entry]
    <3>1. x \in Item
      BY <1>1, <2>1, PackFacts, RecSeqs, ShownHas
    <3>2. x.entry \in Entries /\ x.info \in Nat
      BY <2>1, <3>1 DEF Item, Visible
    <3>3. x.info <= version[x.entry]
      BY <2>1 DEF ArchiveInv, LookedBefore
    <3>4. QED
      BY <1>2, <3>2, <3>3
  <2>2. QED
    BY <1>1, <1>8, <2>1 DEF LookedBefore
<1>10. SourcesVisited'
  BY DEF ArchiveInv, SourcesVisited, Waiting, Packs
<1>11. DirsListed'
  <2>1. ASSUME Packs, NEW x \in Shown(out), x.entry \in Dirs, version'[x.entry] = x.info
        PROVE  Shows(x.entry) \cap there' \subseteq Packed \cup {y.entry : y \in Waiting}
    <3>1. x.entry \in Entries /\ x.info \in Nat /\ Nil \notin Nat
      BY <1>1, ShownOutNumbers, TreeAssumption
    <3>2. x.info <= version[x.entry]
      BY <2>1, <3>1 DEF ArchiveInv, LookedBefore
    <3>3. version[x.entry] = x.info
      BY <1>2, <2>1, <3>1, <3>2
    <3>4. Shows(x.entry) \cap there \subseteq Packed \cup {y.entry : y \in Waiting}
      BY <2>1, <3>3 DEF ArchiveInv, DirsListed
    <3>5. QED
      BY <2>1, <3>3, <3>4 DEF Shows
  <2>2. Packed' = Packed /\ Waiting' = Waiting
    BY DEF Packed, Waiting
  <2>3. QED
    BY <1>8, <2>1, <2>2 DEF DirsListed
<1>12. FilesWhole'
  <2>1. ASSUME NEW i \in DOMAIN out, BeingRead(i) PROVE BeingRead(i)'
    <3>1. i \in 1 .. Len(out) /\ out[i].entry \in Entries
      BY <1>1, RecSeqs
    <3>2. out[i].first \in Nat /\ out[i].first <= version[out[i].entry] /\ version[out[i].entry] <= version'[out[i].entry]
      BY <2>1, <3>1 DEF BeingRead
    <3>3. out[i].first <= version'[out[i].entry]
      BY <1>2, <3>1, <3>2
    <3>4. QED
      BY <2>1, <3>3 DEF BeingRead
  <2>2. QED
    BY <1>8, <2>1 DEF ArchiveInv, FilesWhole
<1>13. ShownTogether'
  <2>1. Packed' = Packed /\ Settled' = Settled
    BY DEF Packed, Settled
  <2>2. \A w \in moments : \A x : ShowsItAt(w, x) => ShowsItAt(w, x)'
    BY <2>1 DEF ShowsItAt
  <2>3. QED
    BY <1>4, <1>8, <2>1, <2>2 DEF ArchiveInv, ShownTogether
<1>14. MembersCounted' /\ MembersThere' /\ TimesSet'
  BY DEF ArchiveInv, MembersCounted, MembersThere, TimesSet, DirMembers, Unpacks
<1>15. FilesOfSource'
  <2>1. ASSUME Unpacks, req.source # Nil
        PROVE  req.info <= version'[req.source] /\ \A f \in tree.files : req.info <= f.of /\ f.of <= version'[req.source]
    <3>1. req \in UnpackRequest
      <4>1. req \notin PackRequest
        BY <2>1 DEF Unpacks, PackRequest, PackOps, UnpackOps
      <4>2. QED
        BY <1>1, <2>1, <4>1 DEF Unpacks, ArchiveTypes
    <3>2. req.source \in Entries /\ req.info \in Nat
      BY <2>1, <3>1 DEF UnpackRequest
    <3>3. \A f \in tree.files : f.of \in Nat
      BY <1>1 DEF ArchiveTypes, Unpacked
    <3>4. req.info <= version[req.source] /\ \A f \in tree.files : req.info <= f.of /\ f.of <= version[req.source]
      BY <2>1 DEF ArchiveInv, FilesOfSource
    <3>5. PICK v \in Nat : v = version[req.source]
      BY <1>2, <3>2
    <3>6. PICK u \in Nat : u = version'[req.source]
      BY <1>2, <3>2
    <3>7. v <= u
      BY <3>2, <3>5, <3>6
    <3>8. QED
      BY <3>2, <3>3, <3>4, <3>5, <3>6, <3>7
  <2>2. QED
    BY <1>8, <2>1 DEF ArchiveInv, FilesOfSource
<1>16. QED
  BY <1>5, <1>6, <1>7, <1>9, <1>10, <1>11, <1>12, <1>13, <1>14, <1>15 DEF ArchiveInv

LEMMA TouchFacts ==
  ASSUME ArchiveTypes, NEW set, Touch(set)
  PROVE  /\ req # Nil /\ result = "none" /\ changes' \in Nat
         /\ version' \in [Entries -> 0 .. changes']
         /\ \A e \in Entries : version[e] <= version'[e]
         /\ \A e \in Entries : e \in set => version[e] < version'[e]
<1>1. /\ req # Nil /\ result = "none" /\ changes' = changes + 1 /\ changes \in Nat
      /\ version' = [e \in Entries |-> IF e \in set THEN changes + 1 ELSE version[e]]
  BY DEF Touch, ArchiveTypes
<1>2. \A e \in Entries : version[e] \in 0 .. changes
  BY DEF ArchiveTypes
<1>3. QED
  BY <1>1, <1>2

LEMMA HostWritesStep ==
  ASSUME ArchiveInv, HostWrites
  PROVE  ArchiveInv'
<1>1. PICK f \in Files : Touch({f})
  BY DEF HostWrites
<1>2. ArchiveTypes /\ there' = there /\ UNCHANGED <<req, todo, out, tree, result>> /\ Remember
  BY DEF ArchiveInv, HostWrites
<1>3. there' \subseteq Entries /\ \A d \in Dirs : Kids[d] \cap there' \subseteq there
  BY <1>2 DEF ArchiveTypes
<1>4. QED
  BY <1>1, <1>2, <1>3, TouchFacts, HostStep

LEMMA HostRemovesStep ==
  ASSUME ArchiveInv, HostRemoves
  PROVE  ArchiveInv'
<1>1. PICK e \in there : Touch(Parents(e)) /\ there' = there \ {e}
  BY DEF HostRemoves
<1>2. ArchiveTypes /\ UNCHANGED <<req, todo, out, tree, result>> /\ Remember
  BY DEF ArchiveInv, HostRemoves
<1>3. there' \subseteq Entries /\ there' \ there = {} /\ \A d \in Dirs : Kids[d] \cap there' \subseteq there
  BY <1>1, <1>2 DEF ArchiveTypes
<1>4. QED
  BY <1>1, <1>2, <1>3, TouchFacts, HostStep

LEMMA HostAddsStep ==
  ASSUME ArchiveInv, HostAdds
  PROVE  ArchiveInv'
<1>1. PICK e \in Entries \ there : Touch(Parents(e) \cup {e}) /\ there' = there \cup {e}
  BY DEF HostAdds
<1>2. ArchiveTypes /\ UNCHANGED <<req, todo, out, tree, result>> /\ Remember
  BY DEF ArchiveInv, HostAdds
<1>3. /\ req # Nil /\ result = "none" /\ changes' \in Nat /\ version' \in [Entries -> 0 .. changes']
      /\ \A x \in Entries : version[x] <= version'[x]
      /\ \A x \in Entries : x \in Parents(e) \cup {e} => version[x] < version'[x]
  BY <1>1, <1>2, TouchFacts
<1>4. \A x \in there' \ there : version[x] < version'[x]
  BY <1>1, <1>3
<1>5. ASSUME NEW d \in Dirs, version'[d] = version[d] PROVE Kids[d] \cap there' \subseteq there
  <2>1. d \in Entries /\ version[d] \in Nat
    BY <1>2 DEF Entries, ArchiveTypes
  <2>2. d \notin Parents(e)
    BY <1>3, <1>5, <2>1
  <2>3. QED
    BY <1>1, <2>2 DEF Parents
<1>6. there' \subseteq Entries
  BY <1>1, <1>2 DEF ArchiveTypes
<1>7. QED
  BY <1>2, <1>3, <1>4, <1>5, <1>6, HostStep

-----------------------------------------------------------------------------
(* Archive: unpacking.                                                      *)

LEMMA UnpackFacts ==
  ASSUME ArchiveTypes, Unpacks
  PROVE  /\ req \in UnpackRequest /\ ~Packs
         /\ req.members \in Seq(MemberOf) /\ Len(req.members) \in Nat
         /\ \A i \in 1 .. Len(req.members) : req.members[i] \in MemberOf
<1>1. req \notin PackRequest
  BY DEF Unpacks, PackRequest, PackOps, UnpackOps
<1>2. req \in UnpackRequest /\ ~Packs
  BY <1>1 DEF Packs, Unpacks, ArchiveTypes, PackOps, UnpackOps
<1>3. req.members \in Seq(MemberOf)
  BY <1>2, TreeAssumption DEF UnpackRequest
<1>4. QED
  BY <1>2, <1>3, LenProperties, ElementOfSeq

LEMMA UnpackingFacts ==
  ASSUME ArchiveTypes, Unpacking
  PROVE  Unpacks /\ result = "none" /\ req # Nil
BY DEF Unpacking, Unpacks, UnpackOps

\* A step of a request that unpacks alters what is there of the archive.
LEMMA UnpackGoesOn ==
  ASSUME ArchiveInv, Unpacking, UNCHANGED <<world, moments, todo, out, result>>,
         req' \in UnpackRequest,
         tree' \in [files: SUBSET Unpacked, dirs: SUBSET Seq(Nat), fresh: SUBSET Seq(Nat)],
         MembersCounted', MembersThere', FilesOfSource', TimesSet'
  PROVE  ArchiveInv'
<1>1. Unpacks /\ result = "none" /\ req # Nil
  BY UnpackingFacts DEF ArchiveInv
<1>2. req' # Nil /\ Unpacks' /\ ~Packs'
  BY <1>1, NilAssumption DEF Packs, Unpacks, PackOps, UnpackOps, UnpackRequest
<1>3. ArchiveTypes'
  BY DEF ArchiveInv, ArchiveTypes, world
<1>4. NothingYet'
  BY <1>2 DEF NothingYet
<1>5. MomentsFollow'
  BY <1>1, QuietWorld DEF ArchiveInv
<1>6. LookedBefore' /\ SourcesVisited' /\ DirsListed' /\ FilesWhole'
  BY <1>2 DEF LookedBefore, SourcesVisited, DirsListed, FilesWhole
<1>7. ShownTogether' /\ NamesGiven'
  BY <1>2 DEF ShownTogether, NamesGiven
<1>8. EndsChecked'
  BY <1>1 DEF EndsChecked
<1>9. QED
  BY <1>3, <1>4, <1>5, <1>6, <1>7, <1>8 DEF ArchiveInv

LEMMA UnpackStep ==
  ASSUME ArchiveInv, NEW op \in UnpackOps, NEW archive \in Archives, NEW source \in Entries \cup {Nil},
         Unpack(op, archive, source)
  PROVE  ArchiveInv'
<1>1. ArchiveTypes /\ req = Nil /\ tree = NoTree /\ out = <<>> /\ result = "none"
  BY DEF ArchiveInv, Unpack, NothingYet
<1>2. PICK info \in Nat : info = IF source = Nil THEN 0 ELSE version[source]
  BY <1>1 DEF ArchiveTypes
<1>3. /\ req' = [op |-> op, members |-> archive, source |-> source, info |-> info,
                 next |-> 1, stage |-> "members", entries |-> 0, bytes |-> 0]
      /\ result' = IF op = "unzip" /\ Len(archive) > MaxEntries THEN "failed" ELSE result
      /\ moments' = {[there |-> there, version |-> version]}
      /\ UNCHANGED <<world, todo, out, tree>>
  BY <1>2, Zenon DEF Unpack
<1>4. /\ req' \in UnpackRequest /\ req'.op = op /\ req'.members = archive /\ req'.source = source
      /\ req'.info = info /\ req'.next = 1 /\ req'.stage = "members" /\ req'.entries = 0 /\ req'.bytes = 0
  BY <1>3 DEF UnpackRequest
<1>5. req' # Nil /\ Unpacks' /\ ~Packs'
  BY <1>4, NilAssumption DEF Packs, Unpacks, PackOps, UnpackOps
<1>6. result' \in {"none", "failed"}
  BY <1>1, <1>3
<1>7. version' = version /\ there' = there /\ tree' = NoTree
  BY <1>1, <1>3 DEF world
<1>8. [there |-> there, version |-> version] \in Moment
  BY <1>1 DEF ArchiveTypes, Moment
<1>9. ArchiveTypes'
  BY <1>1, <1>3, <1>4, <1>6, <1>8 DEF ArchiveTypes, world
<1>10. MomentsFollow'
  BY <1>1, <1>3, <1>7 DEF MomentsFollow, ArchiveTypes
<1>11. NothingYet' /\ LookedBefore' /\ SourcesVisited' /\ DirsListed' /\ FilesWhole' /\ ShownTogether' /\ NamesGiven'
  BY <1>5 DEF NothingYet, LookedBefore, SourcesVisited, DirsListed, FilesWhole, ShownTogether, NamesGiven
<1>12. EndsChecked'
  BY <1>6 DEF EndsChecked
<1>13. tree'.files = {} /\ IsFiniteSet({}) /\ Cardinality({}) = 0 /\ Bytes({}) = 0
  BY <1>7, FS_EmptySet, BytesEmpty DEF NoTree
<1>14. MembersCounted'
  <2>1. archive \in Seq(MemberOf)
    BY TreeAssumption
  <2>2. Len(archive) \in Nat /\ MaxEntries \in Nat /\ MaxBytes \in Nat
    BY <2>1, LenProperties, TreeAssumption
  <2>3. req'.next \in 1 .. Len(req'.members) + 1 /\ req'.entries = req'.next - 1
        /\ req'.entries <= MaxEntries /\ req'.bytes <= MaxBytes
    BY <1>4, <2>2
  <2>4. QED
    BY <1>4, <1>13, <2>3 DEF MembersCounted
<1>15. MembersThere' /\ TimesSet'
  BY <1>4 DEF MembersThere, TimesSet
<1>16. FilesOfSource'
  <2>1. source # Nil => version[source] \in Nat
    BY <1>1 DEF ArchiveTypes
  <2>2. QED
    BY <1>2, <1>4, <1>7, <1>13, <2>1 DEF FilesOfSource
<1>17. QED
  BY <1>9, <1>10, <1>11, <1>12, <1>14, <1>15, <1>16 DEF ArchiveInv

\* Directories are added to a tree, and no file is.
LEMMA WithDirsFacts ==
  ASSUME NEW t \in [files: SUBSET Unpacked, dirs: SUBSET Seq(Nat), fresh: SUBSET Seq(Nat)],
         NEW names \in SUBSET Seq(Nat)
  PROVE  /\ WithDirs(t, names) \in [files: SUBSET Unpacked, dirs: SUBSET Seq(Nat), fresh: SUBSET Seq(Nat)]
         /\ WithDirs(t, names).files = t.files
         /\ t.dirs \cup names \subseteq WithDirs(t, names).dirs
<1> DEFINE new == names \ t.dirs
           over == {SubSeq(n, 1, Len(n) - 1) : n \in new}
<1>1. \A n \in Seq(Nat) : SubSeq(n, 1, Len(n) - 1) \in Seq(Nat)
  <2> TAKE n \in Seq(Nat)
  <2>1. Len(n) \in Nat /\ \A i \in 1 .. Len(n) - 1 : n[i] \in Nat
    BY LenProperties, ElementOfSeq
  <2>2. QED
    BY <2>1, SubSeqProperties
<1>2. over \in SUBSET Seq(Nat) /\ new \in SUBSET Seq(Nat)
  BY <1>1
<1>3. WithDirs(t, names) = [t EXCEPT !.dirs = t.dirs \cup new, !.fresh = t.fresh \cup new \cup over]
  BY DEF WithDirs
<1>4. names \subseteq t.dirs \cup new
  OBVIOUS
<1> HIDE DEF over, new
<1>5. QED
  BY <1>2, <1>3, <1>4

LEMMA WithFileFacts ==
  ASSUME NEW t \in [files: SUBSET Unpacked, dirs: SUBSET Seq(Nat), fresh: SUBSET Seq(Nat)],
         NEW f \in Unpacked
  PROVE  /\ WithFile(t, f) \in [files: SUBSET Unpacked, dirs: SUBSET Seq(Nat), fresh: SUBSET Seq(Nat)]
         /\ WithFile(t, f).files = t.files \cup {f} /\ WithFile(t, f).dirs = t.dirs
<1> DEFINE over == SubSeq(f.name, 1, Len(f.name) - 1)
<1>1. f.name \in Seq(Nat)
  BY DEF Unpacked
<1>2. Len(f.name) \in Nat /\ \A i \in 1 .. Len(f.name) - 1 : f.name[i] \in Nat
  BY <1>1, LenProperties, ElementOfSeq
<1>3. over \in Seq(Nat)
  BY <1>2, SubSeqProperties
<1>4. WithFile(t, f) = [t EXCEPT !.files = t.files \cup {f}, !.fresh = t.fresh \cup {over}]
  BY DEF WithFile
<1> HIDE DEF over
<1>5. QED
  BY <1>3, <1>4

LEMMA AboveNames ==
  ASSUME NEW name \in Seq(Nat)
  PROVE  Above(name) \subseteq Seq(Nat)
<1>1. Len(name) \in Nat /\ \A i \in 1 .. Len(name) : name[i] \in Nat
  BY LenProperties, ElementOfSeq
<1>2. ASSUME NEW n \in 0 .. Len(name) - 1 PROVE SubSeq(name, 1, n) \in Seq(Nat)
  <2>1. n \in Int /\ \A i \in 1 .. n : name[i] \in Nat
    BY <1>1
  <2>2. QED
    BY <2>1, SubSeqProperties
<1>3. QED
  BY <1>2 DEF Above

\* The next member of the archive is there, and the request has counted it.
LEMMA MemberStep ==
  ASSUME ArchiveInv, Member
  PROVE  ArchiveInv'
<1>1. ArchiveTypes /\ Unpacking /\ req.stage = "members" /\ req.next <= Len(req.members)
  BY DEF ArchiveInv, Member
<1>2. Unpacks /\ result = "none" /\ req # Nil
  BY <1>1, UnpackingFacts
<1>3. CASE Give("failed")
  BY <1>2, <1>3, GivenUpStep
<1>4. CASE ~Give("failed")
  <2> DEFINE trees == [files: SUBSET Unpacked, dirs: SUBSET Seq(Nat), fresh: SUBSET Seq(Nat)]
  <2>1. PICK m : m = req.members[req.next]
    OBVIOUS
  <2>2. PICK r : r = req
    OBVIOUS
  <2>3. /\ r \in UnpackRequest /\ Len(r.members) \in Nat /\ \A i \in 1 .. Len(r.members) : r.members[i] \in MemberOf
    BY <1>1, <1>2, <2>2, UnpackFacts
  <2>4. /\ r.next \in 1 .. Len(r.members) /\ r.entries = r.next - 1 /\ r.next \in Nat
        /\ r.entries \in Nat /\ r.bytes \in Nat /\ r.bytes <= MaxBytes
        /\ IsFiniteSet(tree.files) /\ Cardinality(tree.files) <= r.entries /\ Bytes(tree.files) <= r.bytes
    BY <1>1, <1>2, <2>2, <2>3 DEF ArchiveInv, MembersCounted, UnpackRequest
  <2>5. m \in MemberOf /\ m.name \in Seq(Nat) /\ m.size \in Nat
    BY <2>1, <2>2, <2>3, <2>4 DEF MemberOf
  <2>6. PICK add \in Nat : add = IF m.kind = "file" THEN m.size ELSE 0
    BY <2>5
  <2>7. /\ Admitted(m)
        /\ m.kind = "file" => ~(m.size > MaxBytes - req.bytes)
        /\ tree' = IF m.kind = "dir" THEN WithDirs(tree, Above(m.name) \cup {m.name})
                   ELSE WithFile(WithDirs(tree, Above(m.name)), FileOf(m))
        /\ req' = [req EXCEPT !.next = @ + 1, !.entries = @ + 1, !.bytes = @ + add]
        /\ UNCHANGED <<world, moments, todo, out, result>>
    BY <1>4, <2>1, <2>6, Zenon DEF Member, Discard
  <2>8. PICK n \in Nat, k \in Nat, b \in Nat : n = r.next + 1 /\ k = r.entries + 1 /\ b = r.bytes + add
    BY <2>4, <2>6
  <2>9. req' = [r EXCEPT !.next = n, !.entries = k, !.bytes = b]
    BY <2>2, <2>7, <2>8
  <2>10. /\ req' \in UnpackRequest /\ req'.op = r.op /\ req'.members = r.members /\ req'.source = r.source
         /\ req'.info = r.info /\ req'.next = n /\ req'.stage = r.stage /\ req'.entries = k /\ req'.bytes = b
    BY <2>3, <2>9 DEF UnpackRequest
  <2>11. MaxBytes \in Nat /\ MaxEntries \in Nat
    BY TreeAssumption
  <2>12. k <= MaxEntries /\ b <= MaxBytes /\ m.kind \in {"dir", "file"}
    <3>1. r.entries < MaxEntries /\ m.kind \in {"dir", "file"}
      BY <2>2, <2>7 DEF Admitted
    <3>2. m.kind = "file" => m.size <= MaxBytes - r.bytes
      BY <2>2, <2>4, <2>5, <2>7, <2>11
    <3>3. add <= MaxBytes - r.bytes
      BY <2>4, <2>6, <2>11, <3>2
    <3>4. PICK p \in Nat, q \in Nat : p = r.entries /\ q = r.bytes
      BY <2>4
    <3>5. p < MaxEntries /\ k = p + 1 /\ add <= MaxBytes - q /\ b = q + add
      BY <2>8, <3>1, <3>3, <3>4
    <3>6. k <= MaxEntries /\ b <= MaxBytes
      BY <2>11, <3>5
    <3>7. QED
      BY <3>1, <3>6
  <2>13. tree \in trees
    BY <1>1 DEF ArchiveTypes
  <2>14. Above(m.name) \in SUBSET Seq(Nat) /\ Above(m.name) \cup {m.name} \in SUBSET Seq(Nat)
    BY <2>5, AboveNames
  <2>15. PICK v \in Nat : v = IF req.source = Nil THEN 0 ELSE version[req.source]
    BY <1>1, <2>2, <2>3 DEF ArchiveTypes, UnpackRequest
  <2>16. PICK f \in Unpacked : f = FileOf(m) /\ f.name = m.name /\ f.of = v /\ f.size = m.size
    <3>1. FileOf(m) = [name |-> m.name, of |-> v, size |-> m.size]
      BY <2>15, Zenon DEF FileOf
    <3>2. QED
      BY <2>5, <3>1 DEF Unpacked
  <2>17. /\ tree' \in trees /\ tree.dirs \subseteq tree'.dirs
         /\ m.kind = "dir" => m.name \in tree'.dirs /\ tree'.files = tree.files
         /\ m.kind = "file" => tree'.files = tree.files \cup {f}
    <3>1. CASE m.kind = "dir"
      <4>1. tree' = WithDirs(tree, Above(m.name) \cup {m.name})
        BY <2>7, <3>1
      <4>2. PICK new \in SUBSET Seq(Nat) : new = Above(m.name) \cup {m.name}
        BY <2>14
      <4>3. tree' \in trees /\ tree'.files = tree.files /\ tree.dirs \cup new \subseteq tree'.dirs
        BY <2>13, <4>1, <4>2, WithDirsFacts
      <4>4. QED
        BY <3>1, <4>2, <4>3
    <3>2. CASE m.kind = "file"
      <4>1. PICK t : t = WithDirs(tree, Above(m.name))
        OBVIOUS
      <4>2. t \in trees /\ t.files = tree.files /\ tree.dirs \subseteq t.dirs
        BY <2>13, <2>14, <4>1, WithDirsFacts
      <4>3. tree' = WithFile(t, f)
        BY <2>7, <2>16, <3>2, <4>1
      <4>4. tree' \in trees /\ tree'.files = t.files \cup {f} /\ tree'.dirs = t.dirs
        BY <4>2, <4>3, WithFileFacts
      <4>5. QED
        BY <3>2, <4>2, <4>4
    <3>3. QED
      BY <2>12, <3>1, <3>2
  <2> HIDE DEF trees
  <2>18. \A g \in tree.files : g.size \in Nat
    BY <1>1 DEF ArchiveTypes, Unpacked
  <2>19. IsFiniteSet(tree'.files) /\ Cardinality(tree'.files) <= k /\ Bytes(tree'.files) <= b
    <3>1. Cardinality(tree.files) \in Nat /\ Bytes(tree.files) \in Nat
      BY <2>4, <2>18, FS_CardinalityType, BytesNat
    <3>2. CASE m.kind = "dir"
      <4>1. tree'.files = tree.files
        BY <2>17, <3>2
      <4>2. Cardinality(tree.files) <= k /\ Bytes(tree.files) <= b
        <5>1. PICK c \in Nat, x \in Nat : c = Cardinality(tree.files) /\ x = Bytes(tree.files)
          BY <3>1
        <5>2. PICK p \in Nat, q \in Nat : p = r.entries /\ q = r.bytes
          BY <2>4
        <5>3. c <= p /\ x <= q /\ k = p + 1 /\ b = q + add
          BY <2>4, <2>8, <5>1, <5>2
        <5>4. c <= k /\ x <= b
          BY <5>3
        <5>5. QED
          BY <5>1, <5>4
      <4>3. QED
        BY <2>4, <4>1, <4>2
    <3>3. CASE m.kind = "file"
      <4>1. PICK fs : fs = tree.files
        OBVIOUS
      <4>2. IsFiniteSet(fs) /\ (\A g \in fs : g.size \in Nat) /\ tree'.files = fs \cup {f}
        BY <2>4, <2>17, <2>18, <3>3, <4>1
      <4>3. f.size \in Nat /\ f.size = add
        BY <2>5, <2>6, <2>16, <3>3
      <4>4. Bytes(fs \cup {f}) <= Bytes(fs) + f.size
        BY <4>2, <4>3, BytesAdd
      <4>5. /\ IsFiniteSet(fs \cup {f})
            /\ Cardinality(fs \cup {f}) = IF f \in fs THEN Cardinality(fs) ELSE Cardinality(fs) + 1
        BY <4>2, FS_AddElement
      <4>6. Bytes(fs \cup {f}) \in Nat
        <5>1. \A g \in fs \cup {f} : g.size \in Nat
          BY <4>2, <4>3
        <5>2. QED
          BY <4>5, <5>1, BytesNat
      <4>7. Cardinality(fs \cup {f}) <= k
        BY <2>4, <2>8, <3>1, <4>1, <4>5
      <4>8. PICK x \in Nat, y \in Nat : x = Bytes(fs) /\ y = Bytes(fs \cup {f})
        BY <3>1, <4>1, <4>6
      <4>9. y <= x + add /\ x <= r.bytes
        BY <2>4, <4>1, <4>3, <4>4, <4>8
      <4>10. y <= b
        BY <2>4, <2>6, <2>8, <4>8, <4>9
      <4>11. QED
        BY <4>2, <4>5, <4>7, <4>8, <4>10
    <3>4. QED
      BY <2>12, <3>2, <3>3
  <2>20. MembersCounted'
    <3>1. n \in 1 .. Len(r.members) + 1 /\ k = n - 1
      <4>1. PICK l \in Nat, p \in Nat : l = Len(r.members) /\ p = r.next
        BY <2>3, <2>4
      <4>2. p \in 1 .. l /\ k = p - 1 + 1 /\ n = p + 1
        BY <2>4, <2>8, <4>1
      <4>3. n \in 1 .. l + 1 /\ k = n - 1
        BY <4>2
      <4>4. QED
        BY <4>1, <4>3
    <3>2. r.stage = "members"
      BY <1>1, <2>2
    <3>3. QED
      BY <2>10, <2>12, <2>19, <3>1, <3>2 DEF MembersCounted
  <2>21. MembersThere'
    <3>1. tree.files \subseteq tree'.files /\ tree.dirs \subseteq tree'.dirs
      BY <2>12, <2>17
    <3>2. ASSUME NEW i \in 1 .. n - 1
          PROVE  IF r.members[i].kind = "dir" THEN r.members[i].name \in tree'.dirs
                 ELSE \E g \in tree'.files : g.name = r.members[i].name /\ g.size = r.members[i].size
      <4>1. CASE i = r.next
        <5>1. r.members[i] = m
          BY <2>1, <2>2, <4>1
        <5>2. m.kind = "file" => f \in tree'.files
          BY <2>17
        <5>3. QED
          BY <2>12, <2>16, <2>17, <5>1, <5>2
      <4>2. CASE i # r.next
        <5>1. i \in 1 .. r.next - 1
          BY <2>4, <2>8, <4>2
        <5>2. QED
          BY <1>2, <2>2, <3>1, <5>1 DEF ArchiveInv, MembersThere
      <4>3. QED
        BY <4>1, <4>2
    <3>3. QED
      BY <2>10, <3>2 DEF MembersThere
  <2>22. FilesOfSource'
    <3>1. tree'.files \subseteq tree.files \cup {f} /\ version' = version
      BY <2>7, <2>12, <2>17 DEF world
    <3>2. IF r.source = Nil THEN r.info = 0 /\ \A g \in tree.files : g.of = 0
          ELSE r.info <= version[r.source] /\ \A g \in tree.files : r.info <= g.of /\ g.of <= version[r.source]
      BY <1>2, <2>2 DEF ArchiveInv, FilesOfSource
    <3>3. CASE r.source = Nil
      <4>1. f.of = 0
        BY <2>2, <2>15, <2>16, <3>3
      <4>2. QED
        BY <2>10, <3>1, <3>2, <3>3, <4>1 DEF FilesOfSource
    <3>4. CASE r.source # Nil
      <4>1. f.of = v /\ v = version[r.source] /\ v <= v
        BY <2>2, <2>15, <2>16, <3>4
      <4>2. \A g \in tree.files \cup {f} : r.info <= g.of /\ g.of <= version[r.source]
        BY <3>2, <3>4, <4>1
      <4>3. QED
        BY <2>10, <3>1, <3>2, <3>4, <4>2 DEF FilesOfSource
    <3>5. QED
      BY <3>3, <3>4
  <2>23. TimesSet'
    BY <1>1, <2>2, <2>10 DEF TimesSet
  <2>24. QED
    BY <1>1, <2>7, <2>10, <2>17, <2>20, <2>21, <2>22, <2>23, UnpackGoesOn DEF trees
<1>5. QED
  BY <1>3, <1>4

\* Nothing is added any more.
LEMMA StageStep ==
  ASSUME ArchiveInv, Unpacking, NEW st \in {"drain", "times", "publish"},
         UNCHANGED <<world, moments, todo, out, result>>,
         req' = [req EXCEPT !.stage = st], req.next = Len(req.members) + 1,
         tree' \in [files: SUBSET Unpacked, dirs: SUBSET Seq(Nat), fresh: SUBSET Seq(Nat)],
         tree'.files = tree.files, tree'.dirs = tree.dirs,
         st = "publish" => DirMembers \cap tree'.fresh = {}
  PROVE  ArchiveInv'
<1>1. ArchiveTypes /\ Unpacks /\ req # Nil
  BY UnpackingFacts DEF ArchiveInv
<1>2. req \in UnpackRequest
  BY <1>1, UnpackFacts
<1>3. /\ req' \in UnpackRequest /\ req'.op = req.op /\ req'.members = req.members /\ req'.source = req.source
      /\ req'.info = req.info /\ req'.next = req.next /\ req'.stage = st /\ req'.entries = req.entries
      /\ req'.bytes = req.bytes
  BY <1>2 DEF UnpackRequest
<1>4. version' = version
  BY DEF world
<1>5. MembersCounted'
  BY <1>1, <1>3 DEF ArchiveInv, MembersCounted
<1>6. MembersThere'
  BY <1>1, <1>3 DEF ArchiveInv, MembersThere
<1>7. FilesOfSource'
  BY <1>1, <1>3, <1>4 DEF ArchiveInv, FilesOfSource
<1>8. TimesSet'
  <2>1. DirMembers' = DirMembers
    BY <1>3 DEF DirMembers
  <2>2. QED
    BY <1>3, <2>1 DEF TimesSet
<1>9. QED
  BY <1>3, <1>5, <1>6, <1>7, <1>8, UnpackGoesOn

LEMMA ThroughStep ==
  ASSUME ArchiveInv, Through \/ Drained \/ Stamp
  PROVE  ArchiveInv'
<1>1. ArchiveTypes /\ Unpacking
  BY DEF ArchiveInv, Through, Drained, Stamp
<1>2. Unpacks
  BY <1>1, UnpackingFacts
<1>3. req.next = Len(req.members) + 1
  <2>1. /\ req.next \in 1 .. Len(req.members) + 1 /\ Len(req.members) \in Nat
        /\ req.stage # "members" => req.next = Len(req.members) + 1
    BY <1>1, <1>2, UnpackFacts DEF ArchiveInv, MembersCounted
  <2>2. Through => req.next > Len(req.members)
    BY DEF Through
  <2>3. Drained \/ Stamp => req.stage # "members"
    BY DEF Drained, Stamp
  <2>4. PICK l \in Nat, n \in Nat : l = Len(req.members) /\ n = req.next
    BY <2>1
  <2>5. n > l /\ n \in 1 .. l + 1 => n = l + 1
    BY <2>4
  <2>6. QED
    BY <2>1, <2>2, <2>3, <2>4, <2>5
<1>4. tree \in [files: SUBSET Unpacked, dirs: SUBSET Seq(Nat), fresh: SUBSET Seq(Nat)]
  BY <1>1 DEF ArchiveTypes
<1>5. CASE Through
  <2>1. PICK st \in {"drain", "times"} : st = IF req.op = "import" THEN "drain" ELSE "times"
    OBVIOUS
  <2>2. req' = [req EXCEPT !.stage = st] /\ UNCHANGED <<world, moments, todo, out, tree, result>>
    BY <1>5, <2>1, Zenon DEF Through
  <2>3. QED
    BY <1>1, <1>3, <1>4, <2>2, StageStep
<1>6. CASE Drained
  <2>1. PICK st \in {"times"} : st = "times"
    OBVIOUS
  <2>2. req' = [req EXCEPT !.stage = st] /\ UNCHANGED <<world, moments, todo, out, tree, result>>
    BY <1>6, <2>1 DEF Drained
  <2>3. QED
    BY <1>1, <1>3, <1>4, <2>2, StageStep
<1>7. CASE Stamp
  <2>1. PICK st \in {"publish"} : st = "publish"
    OBVIOUS
  <2>2. /\ req' = [req EXCEPT !.stage = st] /\ tree' = [tree EXCEPT !.fresh = tree.fresh \ DirMembers]
        /\ UNCHANGED <<world, moments, todo, out, result>>
    BY <1>7, <2>1 DEF Stamp, Times
  <2> DEFINE dirs == DirMembers
  <2>3. /\ tree' \in [files: SUBSET Unpacked, dirs: SUBSET Seq(Nat), fresh: SUBSET Seq(Nat)]
        /\ tree'.files = tree.files /\ tree'.dirs = tree.dirs /\ tree'.fresh = tree.fresh \ dirs
    <3> HIDE DEF dirs
    <3>1. tree' = [tree EXCEPT !.fresh = tree.fresh \ dirs]
      BY <2>2 DEF dirs
    <3>2. QED
      BY <1>4, <3>1
  <2>4. DirMembers \cap tree'.fresh = {}
    BY <2>3
  <2>5. QED
    BY <1>1, <1>3, <2>2, <2>3, <2>4, StageStep
<1>8. QED
  BY <1>5, <1>6, <1>7

LEMMA TakeNameStep ==
  ASSUME ArchiveInv, TakeName
  PROVE  ArchiveInv'
<1>1. ArchiveTypes /\ Unpacking /\ req.stage = "publish"
  BY DEF ArchiveInv, TakeName
<1>2. Unpacks /\ req # Nil /\ ~Packs
  BY <1>1, UnpackingFacts, UnpackFacts
<1>3. CASE Give("failed")
  BY <1>2, <1>3, GivenUpStep
<1>4. CASE Give("complete") /\ (req.source # Nil => Same(req.source, req.info))
  <2>1. req' = req /\ version' = version
    BY <1>4 DEF Give, world
  <2>2. EndsChecked'
    BY <1>1, <1>2, <1>4, <2>1 DEF EndsChecked, Packs, Same
  <2>3. PICK o \in {"complete", "failed", "killed"} : o = "complete"
    OBVIOUS
  <2>4. QED
    BY <1>2, <1>4, <2>2, <2>3, GiveStep
<1>5. QED
  BY <1>3, <1>4 DEF TakeName, Discard

LEMMA ArchiveBegins == ArchiveInit => ArchiveInv
<1> SUFFICES ASSUME ArchiveInit PROVE ArchiveInv
  OBVIOUS
<1>1. /\ req = Nil /\ todo = <<>> /\ out = <<>> /\ tree = NoTree /\ result = "none" /\ moments = {}
      /\ there \subseteq Entries /\ changes = 0 /\ version = [e \in Entries |-> 0]
  BY DEF ArchiveInit
<1>2. ~Packs /\ ~Unpacks
  BY <1>1 DEF Packs, Unpacks
<1>3. tree \in [files: SUBSET Unpacked, dirs: SUBSET Seq(Nat), fresh: SUBSET Seq(Nat)]
  <2>1. <<>> \in Seq(Nat)
    BY EmptySeq
  <2>2. QED
    BY <1>1, <2>1 DEF NoTree
<1>4. ArchiveTypes
  <2>1. todo \in Seq(Item \cup Output) /\ out \in Seq(Output)
    BY <1>1, EmptySeq
  <2>2. version \in [Entries -> 0 .. changes]
    BY <1>1
  <2>3. QED
    BY <1>1, <1>3, <2>1, <2>2 DEF ArchiveTypes
<1>5. NothingYet /\ MomentsFollow /\ LookedBefore /\ SourcesVisited /\ DirsListed /\ FilesWhole
  BY <1>1, <1>2 DEF NothingYet, MomentsFollow, LookedBefore, SourcesVisited, DirsListed, FilesWhole
<1>6. ShownTogether /\ EndsChecked /\ NamesGiven
  BY <1>2 DEF ShownTogether, EndsChecked, NamesGiven
<1>7. MembersCounted /\ MembersThere /\ FilesOfSource /\ TimesSet
  BY <1>2 DEF MembersCounted, MembersThere, FilesOfSource, TimesSet
<1>8. QED
  BY <1>4, <1>5, <1>6, <1>7 DEF ArchiveInv

LEMMA RequestBegins ==
  ASSUME ArchiveInv,
         CompressArchive \/ ExportZIP \/ ExportDirectory \/ ExtractArchive \/ ImportDirectory
  PROVE  ArchiveInv'
<1>1. \A s \in Sources : s \in Seq(Tops)
  BY SeqDef DEF Sources
<1>2. CASE CompressArchive
  <2>1. PICK s \in Sources : Pack("compress", s)
    BY <1>2 DEF CompressArchive
  <2>2. "compress" \in PackOps
    BY DEF PackOps
  <2>3. QED
    BY <1>1, <2>1, <2>2, PackStep
<1>3. CASE ExportZIP
  <2>1. PICK s \in Sources : Pack("export", s)
    BY <1>3 DEF ExportZIP
  <2>2. "export" \in PackOps
    BY DEF PackOps
  <2>3. QED
    BY <1>1, <2>1, <2>2, PackStep
<1>4. CASE ExportDirectory
  <2>1. PICK d \in Tops : Pack("directory", <<d>>)
    BY <1>4 DEF ExportDirectory
  <2>2. "directory" \in PackOps /\ <<d>> \in Seq(Tops)
    BY DEF PackOps
  <2>3. QED
    BY <2>1, <2>2, PackStep
<1>5. CASE ExtractArchive
  <2>1. PICK a \in Archives, op \in {"unzip", "untar"}, f \in Tops : Unpack(op, a, f)
    BY <1>5 DEF ExtractArchive
  <2>2. op \in UnpackOps /\ f \in Entries \cup {Nil}
    BY TreeAssumption DEF UnpackOps, Visible
  <2>3. QED
    BY <2>1, <2>2, UnpackStep
<1>6. CASE ImportDirectory
  <2>1. PICK a \in Archives : Unpack("import", a, Nil)
    BY <1>6 DEF ImportDirectory
  <2>2. "import" \in UnpackOps /\ Nil \in Entries \cup {Nil}
    BY DEF UnpackOps
  <2>3. QED
    BY <2>1, <2>2, UnpackStep
<1>7. QED
  BY <1>2, <1>3, <1>4, <1>5, <1>6

THEOREM ArchiveInvariant == ArchiveSpec => []ArchiveInv
<1>1. ArchiveInit => ArchiveInv
  BY ArchiveBegins
<1>2. ArchiveInv /\ [ArchiveNext]_archiveVars => ArchiveInv'
  <2> SUFFICES ASSUME ArchiveInv, [ArchiveNext]_archiveVars PROVE ArchiveInv'
    OBVIOUS
  <2>1. CASE CompressArchive \/ ExportZIP \/ ExportDirectory \/ ExtractArchive \/ ImportDirectory
    BY <2>1, RequestBegins
  <2>2. CASE HostWrites \/ HostRemoves \/ HostAdds
    BY <2>2, HostWritesStep, HostRemovesStep, HostAddsStep
  <2>3. CASE Look \/ Enter \/ Open \/ Copied
    BY <2>3, LookStep, EnterStep, OpenStep, CopiedStep
  <2>4. CASE Walked \/ Check \/ Again \/ Close
    BY <2>4, WalkedStep, CheckStep, AgainStep, CloseStep
  <2>5. CASE Member \/ Through \/ Drained \/ Stamp \/ TakeName
    BY <2>5, MemberStep, ThroughStep, TakeNameStep
  <2>6. CASE Cut \/ Abandon
    <3>1. req # Nil /\ (Give("failed") \/ Give("killed"))
      BY <2>6 DEF Cut, Unpacking, Discard, Abandon
    <3>2. QED
      BY <3>1, GivenUpStep
  <2>7. CASE Stays \/ UNCHANGED archiveVars
    BY <2>7, StutterStep DEF Stays
  <2>8. QED
    BY <2>1, <2>2, <2>3, <2>4, <2>5, <2>6, <2>7, Zenon DEF ArchiveNext
<1>3. QED
  BY <1>1, <1>2, PTL DEF ArchiveSpec

THEOREM SnapshotTheorem == ArchiveSpec => []ArchiveIsSnapshot
<1>1. ArchiveInv => ArchiveIsSnapshot
  <2> SUFFICES ASSUME ArchiveInv, Complete({"compress", "export", "directory"}) PROVE ArchiveIsSnapshot
    BY DEF ArchiveIsSnapshot
  <2>1. ArchiveTypes
    BY DEF ArchiveInv
  <2>2. Packs /\ result = "complete"
    <3>1. result = "complete" /\ req.op \in PackOps
      BY DEF Complete, PackOps
    <3>2. req # Nil
      BY <3>1 DEF ArchiveInv, NothingYet
    <3>3. QED
      BY <3>1, <3>2 DEF Packs
  <2>3. req.stage = "check" /\ todo = <<>>
    BY <2>2 DEF ArchiveInv, EndsChecked
  <2>4. PICK w \in moments : \A x \in Shown(Settled) : ShowsItAt(w, x)
    BY <2>2, <2>3 DEF ArchiveInv, ShownTogether
  <2>5. Shown(todo) = {}
    BY <2>3, ShownEmpty
  <2>6. ASSUME NEW i \in DOMAIN Settled
        PROVE  /\ Settled[i].entry \in w.there
               /\ w.version[Settled[i].entry] = Settled[i].info
               /\ Settled[i].entry \in Dirs => Shows(Settled[i].entry) \cap w.there \subseteq Packed
    <3>1. PICK x \in Shown(Settled) : x = About(Settled[i])
      BY DEF Shown
    <3>2. x.entry = Settled[i].entry /\ x.info = Settled[i].info
      BY <3>1 DEF About
    <3>3. ShowsItAt(w, x)
      BY <2>4
    <3>4. QED
      BY <2>5, <3>2, <3>3 DEF ShowsItAt
  <2>7. ASSUME NEW i \in DOMAIN out, out[i].entry \in Files
        PROVE  out[i].first = out[i].info /\ out[i].last = out[i].info
    <3>1. ~BeingRead(i)
      BY <2>3 DEF BeingRead
    <3>2. QED
      BY <2>2, <2>7, <3>1 DEF ArchiveInv, FilesWhole
  <2>8. Packed \cap Hidden = {}
    <3>1. \A x \in Output : x.entry \notin Hidden
      BY DEF Output, Visible
    <3>2. QED
      BY <2>1, <3>1, RecSeqs DEF Packed
  <2>9. QED
    BY <2>6, <2>7, <2>8 DEF ArchiveIsSnapshot, Settled
<1>2. QED
  BY <1>1, ArchiveInvariant, PTL

THEOREM ExtractedTheorem == ArchiveSpec => []ExtractedIsWhole
<1>1. ArchiveInv => ExtractedIsWhole
  <2> SUFFICES ASSUME ArchiveInv, Complete({"unzip", "untar", "import"}) PROVE ExtractedIsWhole
    BY DEF ExtractedIsWhole
  <2>1. Unpacks /\ result = "complete"
    <3>1. result = "complete" /\ req.op \in UnpackOps
      BY DEF Complete, UnpackOps
    <3>2. req # Nil
      BY <3>1 DEF ArchiveInv, NothingYet
    <3>3. QED
      BY <3>1, <3>2 DEF Unpacks
  <2>2. req.stage = "publish" /\ (req.source # Nil => version[req.source] = req.info)
    BY <2>1 DEF ArchiveInv, EndsChecked
  <2>3. /\ req \in UnpackRequest /\ Len(req.members) \in Nat /\ DOMAIN req.members = 1 .. Len(req.members)
        /\ ArchiveTypes
    BY <2>1, UnpackFacts, LenProperties DEF ArchiveInv
  <2>4. req.next = Len(req.members) + 1 /\ req.entries = req.next - 1 /\ Cardinality(tree.files) <= req.entries
    BY <2>1, <2>2 DEF ArchiveInv, MembersCounted
  <2>5. req.next - 1 = Len(req.members)
    BY <2>3, <2>4
  <2>6. \A f \in tree.files : f.of = req.info /\ f = [name |-> f.name, of |-> f.of, size |-> f.size]
    <3> TAKE f \in tree.files
    <3>1. f \in Unpacked /\ f.of \in Nat /\ f = [name |-> f.name, of |-> f.of, size |-> f.size]
      BY <2>3 DEF ArchiveTypes, Unpacked
    <3>2. CASE req.source = Nil
      BY <2>1, <3>1, <3>2 DEF ArchiveInv, FilesOfSource
    <3>3. CASE req.source # Nil
      <4>1. req.info <= f.of /\ f.of <= req.info
        BY <2>1, <2>2, <3>3 DEF ArchiveInv, FilesOfSource
      <4>2. req.info \in Nat
        BY <2>3 DEF UnpackRequest
      <4>3. QED
        BY <3>1, <4>1, <4>2
    <3>4. QED
      BY <3>2, <3>3
  <2>7. ASSUME NEW i \in DOMAIN req.members, req.members[i].kind = "dir"
        PROVE  req.members[i].name \in tree.dirs \ tree.fresh
    <3>1. req.members[i].name \in tree.dirs
      BY <2>1, <2>3, <2>5, <2>7 DEF ArchiveInv, MembersThere
    <3>2. req.members[i].name \in DirMembers
      BY <2>3, <2>7 DEF DirMembers
    <3>3. QED
      BY <2>1, <2>2, <3>1, <3>2 DEF ArchiveInv, TimesSet
  <2>8. ASSUME NEW i \in DOMAIN req.members, req.members[i].kind # "dir"
        PROVE  [name |-> req.members[i].name, of |-> req.info, size |-> req.members[i].size] \in tree.files
    <3>1. PICK f \in tree.files : f.name = req.members[i].name /\ f.size = req.members[i].size
      BY <2>1, <2>3, <2>5, <2>8 DEF ArchiveInv, MembersThere
    <3>2. QED
      BY <2>6, <3>1
  <2>9. Cardinality(tree.files) <= Len(req.members)
    BY <2>4, <2>5
  <2>10. QED
    BY <2>7, <2>8, <2>9 DEF ExtractedIsWhole
<1>2. QED
  BY <1>1, ArchiveInvariant, PTL

THEOREM ArchiveLimitsTheorem == ArchiveSpec => []LimitsKept
<1>1. ArchiveInv => LimitsKept
  <2> SUFFICES ASSUME ArchiveInv PROVE LimitsKept
    OBVIOUS
  <2>1. ArchiveTypes /\ MaxEntries \in Nat /\ MaxBytes \in Nat
    BY TreeAssumption DEF ArchiveInv
  <2>2. CASE Unpacks
    <3>1. /\ IsFiniteSet(tree.files) /\ Cardinality(tree.files) <= req.entries /\ req.entries <= MaxEntries
          /\ Bytes(tree.files) <= req.bytes /\ req.bytes <= MaxBytes
      BY <2>2 DEF ArchiveInv, MembersCounted
    <3>2. \A f \in tree.files : f.size \in Nat
      BY <2>1 DEF ArchiveTypes, Unpacked
    <3>3. Cardinality(tree.files) \in Nat /\ Bytes(tree.files) \in Nat
      BY <3>1, <3>2, FS_CardinalityType, BytesNat
    <3>4. req.entries \in Nat /\ req.bytes \in Nat
      BY <2>1, <2>2, UnpackFacts DEF UnpackRequest
    <3>5. Cardinality(tree.files) <= MaxEntries
      BY <2>1, <3>1, <3>3, <3>4
    <3>6. Bytes(tree.files) <= MaxBytes
      <4>1. PICK x \in Nat, y \in Nat : x = Bytes(tree.files) /\ y = req.bytes
        BY <3>3, <3>4
      <4>2. x <= y /\ y <= MaxBytes
        BY <3>1, <4>1
      <4>3. x <= MaxBytes
        BY <2>1, <4>2
      <4>4. QED
        BY <4>1, <4>3
    <3>7. QED
      BY <3>5, <3>6 DEF LimitsKept
  <2>3. CASE ~Unpacks
    <3>1. req = Nil \/ Packs
      BY <2>1, <2>3 DEF ArchiveTypes, Packs, Unpacks, PackRequest, UnpackRequest
    <3>2. tree = NoTree
      BY <3>1 DEF ArchiveInv, NothingYet
    <3>3. tree.files = {}
      BY <3>2 DEF NoTree
    <3>4. QED
      BY <2>1, <3>3, BytesEmpty, FS_EmptySet DEF LimitsKept
  <2>4. QED
    BY <2>2, <2>3
<1>2. QED
  BY <1>1, ArchiveInvariant, PTL

THEOREM NamesTheorem == ArchiveSpec => []NamesAreUnique
<1>1. ArchiveInv => NamesAreUnique
  <2> SUFFICES ASSUME ArchiveInv, req # Nil, req.op \in {"compress", "export"} PROVE NamesAreUnique
    BY DEF NamesAreUnique
  <2>1. Packs /\ ArchiveTypes
    BY DEF ArchiveInv, Packs, PackOps
  <2>2. req.sources \in Seq(Tops)
    BY <2>1, PackFacts DEF PackRequest
  <2>3. DOMAIN req.sources = 1 .. Len(req.sources) /\ Len(req.sources) \in Nat
        /\ \A i \in 1 .. Len(req.sources) : req.sources[i] \in Tops
    BY <2>2, LenProperties, ElementOfSeq
  <2>4. PICK bases : bases = [i \in DOMAIN req.sources |-> Base[req.sources[i]]]
    OBVIOUS
  <2>5. DOMAIN bases = 1 .. Len(req.sources) /\ \A i \in 1 .. Len(req.sources) : bases[i] = Base[req.sources[i]]
    BY <2>3, <2>4
  <2>6. bases \in Seq(Seq(Nat)) /\ Len(bases) = Len(req.sources)
    <3>1. bases \in [1 .. Len(req.sources) -> Seq(Nat)]
      BY <2>3, <2>4, TreeAssumption
    <3>2. bases \in Seq(Seq(Nat))
      BY <2>3, <3>1, SeqDef
    <3>3. QED
      BY <2>3, <2>5, <3>2, LenProperties
  <2>7. req.names = Unique(bases)
    BY <2>1, <2>4 DEF ArchiveInv, NamesGiven
  <2>8. Apart(bases, req.names) /\ Len(req.names) = Len(req.sources)
    BY <2>6, <2>7, UniqueFacts
  <2>9. DOMAIN req.names = 1 .. Len(req.sources)
    BY <2>8, LenProperties DEF Apart
  <2>10. IsInjective(req.names)
    BY <2>8, <2>9 DEF Apart, IsInjective
  <2>11. ASSUME NEW i \in DOMAIN req.names, \A j \in 1 .. i - 1 : Base[req.sources[j]] # Base[req.sources[i]]
         PROVE  req.names[i] = Base[req.sources[i]]
    <3>1. i \in 1 .. Len(req.sources)
      BY <2>9
    <3>2. \A j \in 1 .. i - 1 : j \in 1 .. Len(req.sources)
      BY <2>3, <3>1
    <3>3. \A j \in 1 .. i - 1 : bases[j] # bases[i]
      BY <2>5, <2>11, <3>1, <3>2
    <3>4. QED
      BY <2>5, <2>8, <3>1, <3>3 DEF Apart
  <2>12. QED
    BY <2>10, <2>11 DEF NamesAreUnique
<1>2. QED
  BY <1>1, ArchiveInvariant, PTL
=============================================================================
