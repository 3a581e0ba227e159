-------------------------------- MODULE Archive --------------------------------
(***************************************************************************)
(* internal/filemanager, archive.go and transfer.go: one request that packs *)
(* files of the host (compressArchive, ExportZIP, ExportDirectory) or that  *)
(* unpacks an archive beside its target (extractArchive, ImportDirectory),  *)
(* while the host changes what is read.  Files are looked at and read one   *)
(* after the other, without a lock: what the result is worth rests on the   *)
(* versions that are compared on the way.                                   *)
(***************************************************************************)
EXTENDS SequencesExt

CONSTANTS
  Kids,         \* the children each directory may have; its domain is the directories
  Files,        \* the regular files that may be there
  Hidden,       \* what no archive shows: protected paths and the files of the manager itself
  Tops,         \* what a request may name
  Base,         \* the name of each: a stem, and the numbers of the suffixes " (n)" after it
  Archives,     \* what may be unpacked: its format, and its members in order
  MaxSources,   \* MaxBatchItems
  MaxEntries,   \* maxCopyEntries
  MaxBytes,     \* maxCopyBytes, in units of a file's size
  MaxChanges,   \* bound: changes of the host's files during the request
  Nil

Dirs == DOMAIN Kids
Entries == Dirs \cup Files
Visible == Entries \ Hidden

\* A member of an archive: its name as components, whether normalizeArchiveEntry
\* accepts that, what it is, the size its header tells and the size it has.
MemberOf == [name: Seq(Nat), valid: BOOLEAN, kind: {"dir", "file", "link"}, told: Nat, size: Nat]

ASSUME TreeAssumption ==
  /\ Dirs \cap Files = {} /\ Tops \subseteq Visible
  /\ \A d \in Dirs : Kids[d] \subseteq Entries /\ IsFiniteSet(Kids[d])
  /\ Base \in [Tops -> Seq(Nat)]
  /\ Archives \subseteq Seq(MemberOf)
  /\ {MaxSources, MaxEntries, MaxBytes, MaxChanges} \subseteq Nat
  /\ Nil \notin Entries \cup Nat

VARIABLES
  there,     \* the entries that exist
  version,   \* resourceVersion of each: its content and attributes
  changes,   \* how often the host has changed something
  moments,   \* history: there and version, whenever the request was in flight
  req,       \* the request
  todo,      \* packing: the entries still to visit, with the FileInfo they were listed with
  out,       \* packing: what has been written
  tree,      \* unpacking: what the hidden directory holds, and whose times are not the archive's
  result     \* what became of the request

world == <<there, version, changes>>
archiveVars == <<world, moments, req, todo, out, tree, result>>

NoTree == [files |-> {}, dirs |-> {<<>>}, fresh |-> {<<>>}]

Parents(e) == {d \in Dirs : e \in Kids[d]}

-----------------------------------------------------------------------------
\* Mutant: a suffix is free unless it has been given out.
NameSoFar(names, used, i) ==
  LET free == {n \in 2 .. 2 * Len(names) + 1 : Append(names[i], n) \notin ToSet(used)}
  IN  IF names[i] \notin ToSet(used) THEN names[i]
      ELSE Append(names[i], CHOOSE n \in free : \A k \in free : n <= k)

\* One name, when those before it have been given out: one that is taken gets the first
\* suffix that neither a name given out nor any source's own name has.
NameFor(names, used, i) ==
  LET free == {n \in 2 .. 2 * Len(names) + 1 :
                 Append(names[i], n) \notin ToSet(used) \cup ToSet(names)}
  IN  IF names[i] \notin ToSet(used) THEN names[i]
      ELSE Append(names[i], CHOOSE n \in free : \A k \in free : n <= k)

\* assignUniqueArchiveNames: the names in order.
Unique(names) ==
  LET given[i \in 0 .. Len(names)] ==
        IF i = 0 THEN <<>> ELSE Append(given[i-1], NameFor(names, given[i-1], i))
  IN  given[Len(names)]

\* What a walk begins with: the sources and the FileInfo of each.
Heads(sources) == [i \in DOMAIN sources |-> [entry |-> sources[i], info |-> version[sources[i]]]]

-----------------------------------------------------------------------------
\* The host: every top-level source is there, of the rest what may be.
ArchiveInit ==
  /\ there \in {s \in SUBSET Entries :
       Tops \subseteq s /\ \A e \in s \ Tops : \E d \in Parents(e) : d \in s}
  /\ version = [e \in Entries |-> 0]
  /\ changes = 0
  /\ moments = {}
  /\ req = Nil
  /\ todo = <<>>
  /\ out = <<>>
  /\ tree = NoTree
  /\ result = "none"

\* Somebody writes to a file in place, or an entry appears in a directory or goes
\* from it (which is a change of the directory, not of those above).
Touch(set) ==
  /\ req # Nil /\ result = "none"
  /\ changes < MaxChanges
  /\ changes' = changes + 1
  /\ version' = [e \in Entries |-> IF e \in set THEN changes + 1 ELSE version[e]]

Remember == moments' = moments \cup {[there |-> there', version |-> version']}

HostWrites ==
  /\ \E f \in Files \cap there : Touch({f})
  /\ UNCHANGED <<there, req, todo, out, tree, result>>
  /\ Remember

HostRemoves ==
  /\ \E e \in there \ Tops :
       /\ ~\E k \in there : e \in Dirs /\ k \in Kids[e]
       /\ Touch(Parents(e))
       /\ there' = there \ {e}
  /\ UNCHANGED <<req, todo, out, tree, result>>
  /\ Remember

HostAdds ==
  /\ \E e \in Entries \ there :
       /\ \E d \in Parents(e) : d \in there
       /\ Touch(Parents(e) \cup {e})
       /\ there' = there \cup {e}
  /\ UNCHANGED <<req, todo, out, tree, result>>
  /\ Remember

-----------------------------------------------------------------------------
\* Packing.

\* The checks, prepareArchiveSources and the budget of the first walk, which of
\* ExportZIP writes nothing.
Pack(op, sources) ==
  /\ req = Nil
  /\ req' = [op |-> op, sources |-> sources, infos |-> Heads(sources),
             names |-> Unique([i \in DOMAIN sources |-> Base[sources[i]]]),
             stage |-> IF op = "export" THEN "preflight" ELSE "walk",
             entries |-> 0, bytes |-> 0]
  /\ todo' = Heads(sources)
  /\ moments' = {[there |-> there, version |-> version]}
  /\ UNCHANGED <<world, out, tree, result>>

Packing == req # Nil /\ result = "none" /\ req.op \in {"compress", "export", "directory"}
Walking == Packing /\ req.stage \in {"preflight", "walk"} /\ todo # <<>>

Give(outcome) == result' = outcome /\ UNCHANGED <<world, moments, req, todo, out, tree>>

\* Lstat of an entry that a directory listed.
Look ==
  /\ Walking /\ Head(todo).info = Nil
  /\ LET e == Head(todo).entry IN
       IF e \notin there THEN Give("failed")
       ELSE /\ todo' = <<[entry |-> e, info |-> version[e]]>> \o Tail(todo)
            /\ UNCHANGED <<world, moments, req, out, tree, result>>

\* walkArchive counts an entry before anything is written of it.
Counted(size) == req.entries < MaxEntries /\ req.bytes + size <= MaxBytes
Charge(size) == req' = [req EXCEPT !.entries = @ + 1, !.bytes = @ + size]

\* The names in a directory, of which nothing is known yet.
Listed(found) == [i \in DOMAIN found |-> [entry |-> found[i], info |-> Nil]]

\* What the archive has of an entry when its header, or the first of a file, is written.
Put(item, first) == [entry |-> item.entry, info |-> item.info, first |-> first, last |-> Nil]

\* What an archive shows of a directory: the rest is passed over without a word.
Shows(d) == Kids[d] \ Hidden

\* A directory: its header, and the names it holds now, all of which are counted.
Enter ==
  /\ Walking /\ Head(todo).info # Nil /\ Head(todo).entry \in Dirs
  /\ LET e == Head(todo).entry
         names == Kids[e] \cap there
     IN  IF ~Counted(0) \/ e \notin there \/ req.entries + 1 + Cardinality(names) > MaxEntries
         THEN Give("failed")
         ELSE /\ Charge(0)
              /\ todo' = Listed(SetToSeq(Shows(e) \cap there)) \o Tail(todo)
              /\ out' = IF req.stage = "preflight" THEN out
                        ELSE Append(out, Put(Head(todo), Nil))
              /\ UNCHANGED <<world, moments, tree, result>>

\* copyArchiveFile in two steps: the file is opened and the first of it read; the
\* rest is read, and the file that is open compared with what was listed.
Reading == out # <<>> /\ out[Len(out)].entry \in Files /\ out[Len(out)].last = Nil

Open ==
  /\ Walking /\ Head(todo).info # Nil /\ Head(todo).entry \in Files /\ ~Reading
  /\ LET e == Head(todo).entry IN
       IF ~Counted(1) \/ (req.stage = "walk" /\ e \notin there) THEN Give("failed")
       ELSE /\ Charge(1)
            /\ IF req.stage = "preflight" THEN todo' = Tail(todo) /\ out' = out
               ELSE /\ todo' = todo
                    /\ out' = Append(out, Put(Head(todo), version[e]))
            /\ UNCHANGED <<world, moments, tree, result>>

\* Mutant: os.SameFile only.
SameFileOnly(e, info) == e \in there

Same(e, info) == version[e] = info

Copied ==
  /\ Walking /\ Reading
  /\ LET e == Head(todo).entry IN
       IF ~Same(e, Head(todo).info) THEN Give("failed")
       ELSE /\ out' = [out EXCEPT ![Len(out)].last = version[e]]
            /\ todo' = Tail(todo)
            /\ UNCHANGED <<world, moments, req, tree, result>>

\* Mutant: of an exported directory only its own version is compared.
SourcesAgain(op, written) == req.infos

\* What is looked at once more: the sources (verifyArchiveSources), and of a
\* directory that is exported all that was written.
SeenAgain(op, written) == req.infos \o IF op = "directory" THEN written ELSE <<>>

Walked ==
  /\ Packing /\ req.stage \in {"preflight", "walk"} /\ todo = <<>>
  /\ req' = [req EXCEPT !.stage = IF @ = "walk" THEN "check" ELSE "precheck"]
  /\ todo' = SeenAgain(req.op, out)
  /\ UNCHANGED <<world, moments, out, tree, result>>

Check ==
  /\ Packing /\ req.stage \in {"precheck", "check"} /\ todo # <<>>
  /\ LET e == Head(todo).entry IN
       IF e \notin there \/ ~Same(e, Head(todo).info) THEN Give("failed")
       ELSE todo' = Tail(todo) /\ UNCHANGED <<world, moments, req, out, tree, result>>

\* The second walk of ExportZIP, which writes, with a budget of its own.
Again ==
  /\ Packing /\ req.stage = "precheck" /\ todo = <<>>
  /\ req' = [req EXCEPT !.stage = "walk", !.entries = 0, !.bytes = 0]
  /\ todo' = req.infos
  /\ UNCHANGED <<world, moments, out, tree, result>>

\* The encoder is closed; an archive on disk takes its name unless it is taken.
Close ==
  /\ Packing /\ req.stage = "check" /\ todo = <<>>
  /\ \/ Give("complete")
     \/ req.op = "compress" /\ Give("failed")

-----------------------------------------------------------------------------
\* Unpacking.

\* extractArchive as far as the hidden directory and the open archive; of a zip the
\* end record tells the number of members.
Unpack(op, archive, source) ==
  /\ req = Nil
  /\ req' = [op |-> op, members |-> archive, source |-> source,
             info |-> IF source = Nil THEN 0 ELSE version[source],
             next |-> 1, stage |-> "members", entries |-> 0, bytes |-> 0]
  /\ result' = IF op = "unzip" /\ Len(archive) > MaxEntries THEN "failed" ELSE result
  /\ moments' = {[there |-> there, version |-> version]}
  /\ UNCHANGED <<world, todo, out, tree>>

Unpacking == req # Nil /\ result = "none" /\ req.op \in {"unzip", "untar", "import"}

Discard == Give("failed") \* the deferred RemoveAll of the hidden directory

Above(name) == {SubSeq(name, 1, n) : n \in 0 .. Len(name) - 1}

FilesAt(names) == {f \in tree.files : f.name \in names}

\* MkdirAll: the directories that are missing, each of which makes the one above newer.
WithDirs(t, names) ==
  LET new == names \ t.dirs IN
    [t EXCEPT !.dirs = @ \cup new,
              !.fresh = @ \cup new \cup {SubSeq(n, 1, Len(n) - 1) : n \in new}]

\* A member's file, of the version that the archive has while it is read.
FileOf(member) ==
  [name |-> member.name, of |-> IF req.source = Nil THEN 0 ELSE version[req.source],
   size |-> member.size]

WithFile(t, f) ==
  [t EXCEPT !.files = @ \cup {f}, !.fresh = @ \cup {SubSeq(f.name, 1, Len(f.name) - 1)}]

\* Mutant: the number of members is compared before the next one is counted.
AdmittedBefore(member) ==
  /\ member.valid
  /\ member.name \notin {req.members[i].name : i \in 1 .. req.next - 1}
  /\ member.kind \in {"dir", "file"}
  /\ req.entries <= MaxEntries
  /\ member.told <= MaxBytes - req.bytes

\* What extractZIP and extractTAR ask of a member before it touches the disk.
Seen == {req.members[i].name : i \in 1 .. req.next - 1}
Admitted(member) ==
  /\ member.valid
  /\ member.name \notin Seen
  /\ member.kind \in {"dir", "file"}
  /\ req.entries < MaxEntries
  /\ member.told <= MaxBytes - req.bytes

\* The next member: refused, a directory, or a file, whose bytes are counted as they
\* are written, the copy giving up one byte past the limit, and which must have the
\* size its header told (the reader's check).  What a name implies is not counted.
Member ==
  /\ Unpacking /\ req.stage = "members" /\ req.next <= Len(req.members)
  /\ LET member == req.members[req.next]
         inTheWay == FilesAt(Above(member.name)) # {}
     IN  IF \/ ~Admitted(member) \/ inTheWay
            \/ member.kind = "dir" /\ FilesAt({member.name}) # {}
            \/ member.kind = "file" /\ \/ member.name \in tree.dirs
                                       \/ member.size > MaxBytes - req.bytes
                                       \/ member.size # member.told
         THEN Discard
         ELSE /\ tree' = IF member.kind = "dir"
                         THEN WithDirs(tree, Above(member.name) \cup {member.name})
                         ELSE WithFile(WithDirs(tree, Above(member.name)), FileOf(member))
              /\ req' = [req EXCEPT !.next = @ + 1, !.entries = @ + 1,
                                    !.bytes = @ + IF member.kind = "file" THEN member.size ELSE 0]
              /\ UNCHANGED <<world, moments, todo, out, result>>

\* The stream of an import breaks before its members have been read, or between
\* their end and its own.
Cut == Unpacking /\ req.op = "import" /\ req.stage \in {"members", "drain"} /\ Discard

\* No member is left; the rest of a stream is read to its end, too.
Through ==
  /\ Unpacking /\ req.stage = "members" /\ req.next > Len(req.members)
  /\ req' = [req EXCEPT !.stage = IF req.op = "import" THEN "drain" ELSE "times"]
  /\ UNCHANGED <<world, moments, todo, out, tree, result>>

Drained ==
  /\ Unpacking /\ req.stage = "drain"
  /\ req' = [req EXCEPT !.stage = "times"]
  /\ UNCHANGED <<world, moments, todo, out, tree, result>>

\* applyArchiveDirectoryTimes.
DirMembers == {req.members[i].name : i \in {j \in 1 .. Len(req.members) : req.members[j].kind = "dir"}}
Times(t) == [t EXCEPT !.fresh = @ \ DirMembers]

Stamp ==
  /\ Unpacking /\ req.stage = "times"
  /\ tree' = Times(tree)
  /\ req' = [req EXCEPT !.stage = "publish"]
  /\ UNCHANGED <<world, moments, todo, out, result>>

\* The archive must be the one that was opened; then the directory takes its name,
\* unless somebody has it by now.
TakeName ==
  /\ Unpacking /\ req.stage = "publish"
  /\ \/ Discard
     \/ /\ req.source # Nil => Same(req.source, req.info)
        /\ Give("complete")

\* The process ends: a hidden file or directory stays.
Abandon == req # Nil /\ result = "none" /\ Give("killed")

-----------------------------------------------------------------------------
Sources == {s \in UNION {[1 .. n -> Tops] : n \in 1 .. MaxSources} : IsInjective(s)}

\* The five requests.
CompressArchive == \E s \in Sources : Pack("compress", s)
ExportZIP == \E s \in Sources : Pack("export", s)
ExportDirectory == \E d \in Tops \cap Dirs : Pack("directory", <<d>>)
ExtractArchive ==
  \E a \in Archives, op \in {"unzip", "untar"}, f \in Tops \cap Files : Unpack(op, a, f)
ImportDirectory == \E a \in Archives : Unpack("import", a, Nil)

Stays == result # "none" /\ UNCHANGED archiveVars

ArchiveNext ==
  \/ CompressArchive \/ ExportZIP \/ ExportDirectory \/ ExtractArchive \/ ImportDirectory
  \/ HostWrites \/ HostRemoves \/ HostAdds
  \/ Look \/ Enter \/ Open \/ Copied \/ Walked \/ Check \/ Again \/ Close
  \/ Member \/ Cut \/ Through \/ Drained \/ Stamp \/ TakeName
  \/ Abandon \/ Stays

ArchiveSpec == ArchiveInit /\ [][ArchiveNext]_archiveVars

\* With the times of a coarse clock: a file may appear in a directory or go from it
\* within the tick of an earlier change, and no version tells.
HostUnseen ==
  /\ \E f \in Files \ Tops :
       /\ \E d \in Parents(f) : d \in there
       /\ there' = IF f \in there THEN there \ {f} ELSE there \cup {f}
  /\ Touch({})
  /\ UNCHANGED <<req, todo, out, tree, result>>
  /\ Remember

CoarseSpec == ArchiveInit /\ [][ArchiveNext \/ HostUnseen]_archiveVars

-----------------------------------------------------------------------------
Complete(ops) == result = "complete" /\ req.op \in ops
Packed == {out[i].entry : i \in DOMAIN out}

\* An archive that is reported complete shows its sources as they were together at
\* one moment of the request: what was named is there unchanged and a directory that
\* was named misses nothing directly in it that is not hidden (of ExportDirectory: nothing
\* at any depth); no file in it, at whatever depth, is half of one version and half of
\* another; and nothing hidden is in it (verifyArchiveSources, copyArchiveFile,
\* walkArchive).  This takes it that a change shows in the version of what it changes:
\* times from a coarse clock need not (manager.go:354), see CoarseSpec.
ArchiveIsSnapshot ==
  Complete({"compress", "export", "directory"}) =>
    /\ \E now \in moments :
         LET settled == IF req.op = "directory" THEN out ELSE req.infos IN
           \A i \in DOMAIN settled :
             /\ settled[i].entry \in now.there
             /\ now.version[settled[i].entry] = settled[i].info
             /\ settled[i].entry \in Dirs => Shows(settled[i].entry) \cap now.there \subseteq Packed
    /\ \A i \in DOMAIN out :
         out[i].entry \in Files => out[i].first = out[i].info /\ out[i].last = out[i].info
    /\ Packed \cap Hidden = {}

\* A directory that an archive was unpacked to has every member, each from the same
\* version of the archive, and the directories among them have the times that the
\* archive gives, although files were made in them later.
ExtractedIsWhole ==
  Complete({"unzip", "untar", "import"}) =>
    /\ \A i \in DOMAIN req.members :
         LET member == req.members[i] IN
           IF member.kind = "dir" THEN member.name \in tree.dirs \ tree.fresh
           ELSE [name |-> member.name, of |-> req.info, size |-> member.size] \in tree.files
    /\ Cardinality(tree.files) <= Len(req.members)

\* Whatever sizes an archive tells and however many members it has: the files unpacked
\* of it are within the limits at every moment, also those of a request that fails.
Bytes(files) == MapThenSumSet(LAMBDA f : f.size, files)
LimitsKept == Cardinality(tree.files) <= MaxEntries /\ Bytes(tree.files) <= MaxBytes

\* The sources of a request get names of their own in the archive, and one whose
\* name nobody before it has keeps it (assignUniqueArchiveNames).
NamesAreUnique ==
  req # Nil /\ req.op \in {"compress", "export"} =>
    /\ IsInjective(req.names)
    /\ \A i \in DOMAIN req.names :
         (\A j \in 1 .. i - 1 : Base[req.sources[j]] # Base[req.sources[i]])
           => req.names[i] = Base[req.sources[i]]
-----------------------------------------------------------------------------
\* The inductive invariant behind the four.
PackOps == {"compress", "export", "directory"}
UnpackOps == {"unzip", "untar", "import"}

Item == [entry: Visible, info: Nat \cup {Nil}]
Output == [entry: Visible, info: Nat, first: Nat \cup {Nil}, last: Nat \cup {Nil}]
PackRequest ==
  [op: PackOps, sources: Seq(Tops), infos: Seq([entry: Visible, info: Nat]), names: Seq(Seq(Nat)),
   stage: {"preflight", "precheck", "walk", "check"}, entries: Nat, bytes: Nat]
UnpackRequest ==
  [op: UnpackOps, members: Archives, source: Entries \cup {Nil}, info: Nat, next: Nat,
   stage: {"members", "drain", "times", "publish"}, entries: Nat, bytes: Nat]

ASSUME NilAssumption == Nil \notin PackRequest \cup UnpackRequest

Moment == [there: SUBSET Entries, version: [Entries -> Nat]]
Unpacked == [name: Seq(Nat), of: Nat, size: Nat]

\* The host's files, the request and what it has written keep their shape, and nothing
\* hidden is visited or written.
ArchiveTypes ==
  /\ there \subseteq Entries /\ changes \in Nat /\ version \in [Entries -> 0 .. changes]
  /\ moments \subseteq Moment
  /\ req \in {Nil} \cup PackRequest \cup UnpackRequest
  /\ todo \in Seq(Item \cup Output) /\ out \in Seq(Output)
  /\ tree \in [files: SUBSET Unpacked, dirs: SUBSET Seq(Nat), fresh: SUBSET Seq(Nat)]
  /\ result \in {"none", "complete", "failed", "killed"}

Packs == req # Nil /\ req.op \in PackOps
Unpacks == req # Nil /\ req.op \in UnpackOps

\* What a row of records says of the entries in it, in no order.
About(x) == [entry |-> x.entry, info |-> x.info]
Shown(s) == {About(s[i]) : i \in DOMAIN s}
Waiting == IF req.stage = "walk" THEN Shown(todo) ELSE {}

\* A request begins with nothing, and one that packs unpacks nothing.
NothingYet ==
  /\ req = Nil => tree = NoTree /\ out = <<>> /\ result = "none"
  /\ Packs => tree = NoTree
  /\ Packs /\ req.stage \in {"preflight", "precheck"} => out = <<>>

\* The versions of the host only grow, and what has appeared since has a newer one.
MomentsFollow ==
  /\ req # Nil /\ result = "none" => [there |-> there, version |-> version] \in moments
  /\ \A w \in moments : \A e \in Entries :
       /\ w.version[e] <= version[e]
       /\ e \in there \ w.there => w.version[e] < version[e]

\* Whatever was looked at, it was looked at before now.
LookedBefore ==
  Packs => \A x \in Shown(req.infos) \cup Shown(todo) \cup Shown(out) :
             x.info # Nil => x.info <= version[x.entry]

\* Every source is written, or its turn comes.
SourcesVisited ==
  Packs /\ req.stage \in {"walk", "check"} => Shown(req.infos) \subseteq Shown(out) \cup Waiting

\* Of a directory that is still the one that was looked at, all is written or its turn comes.
DirsListed ==
  Packs => \A x \in Shown(out) :
    x.entry \in Dirs /\ version[x.entry] = x.info =>
      Shows(x.entry) \cap there \subseteq Packed \cup {y.entry : y \in Waiting}

\* A file is read whole as it was looked at, or it is the one being read.
BeingRead(i) ==
  /\ i = Len(out) /\ req.stage = "walk" /\ todo # <<>>
  /\ todo[1].entry = out[i].entry /\ todo[1].info = out[i].info
  /\ out[i].first \in Nat /\ out[i].info <= out[i].first /\ out[i].first <= version[out[i].entry]
FilesWhole ==
  Packs => \A i \in DOMAIN out :
    out[i].entry \in Files =>
      \/ out[i].last = Nil /\ BeingRead(i)
      \/ out[i].first = out[i].info /\ out[i].last = out[i].info

\* When all has been written, the host is as everything that is found unchanged later.
Settled == IF req.op = "directory" THEN out ELSE req.infos
ShowsItAt(w, x) ==
  /\ x.info <= w.version[x.entry]
  /\ x \notin Shown(todo) => x.entry \in w.there /\ w.version[x.entry] = x.info
  /\ x.entry \in Dirs /\ w.version[x.entry] = x.info => Shows(x.entry) \cap w.there \subseteq Packed
ShownTogether ==
  Packs /\ req.stage = "check" => \E w \in moments : \A x \in Shown(Settled) : ShowsItAt(w, x)

\* A result that is complete has passed every check.
EndsChecked ==
  /\ Packs /\ result = "complete" => req.stage = "check" /\ todo = <<>>
  /\ Unpacks /\ result = "complete" =>
       req.stage = "publish" /\ (req.source # Nil => version[req.source] = req.info)

NamesGiven ==
  Packs => req.names = Unique([i \in DOMAIN req.sources |-> Base[req.sources[i]]])

\* Each member that was counted is there, whole, from a version of the archive that is
\* not older than the one it was opened with.
MembersCounted ==
  Unpacks =>
    /\ req.next \in 1 .. Len(req.members) + 1 /\ req.entries = req.next - 1
    /\ req.stage # "members" => req.next = Len(req.members) + 1
    /\ req.entries <= MaxEntries /\ req.bytes <= MaxBytes
    /\ IsFiniteSet(tree.files) /\ Cardinality(tree.files) <= req.entries
    /\ Bytes(tree.files) <= req.bytes
MembersThere ==
  Unpacks => \A i \in 1 .. req.next - 1 :
    IF req.members[i].kind = "dir" THEN req.members[i].name \in tree.dirs
    ELSE \E f \in tree.files : f.name = req.members[i].name /\ f.size = req.members[i].size
FilesOfSource ==
  Unpacks =>
    IF req.source = Nil THEN req.info = 0 /\ \A f \in tree.files : f.of = 0
    ELSE /\ req.info <= version[req.source]
         /\ \A f \in tree.files : req.info <= f.of /\ f.of <= version[req.source]
TimesSet == Unpacks /\ req.stage = "publish" => DirMembers \cap tree.fresh = {}

ArchiveInv ==
  /\ ArchiveTypes /\ NothingYet /\ MomentsFollow
  /\ LookedBefore /\ SourcesVisited /\ DirsListed /\ FilesWhole /\ ShownTogether
  /\ EndsChecked /\ NamesGiven
  /\ MembersCounted /\ MembersThere /\ FilesOfSource /\ TimesSet
=============================================================================
