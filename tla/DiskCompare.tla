----------------------------- MODULE DiskCompare -----------------------------
(***************************************************************************)
(* change.Compare: a disk with volumes is used, a checkpoint is taken of   *)
(* it, it is used further, and the leaf is compared with the checkpoint.   *)
(* What the guest writes is external; Compare and all it calls is the code.*)
(***************************************************************************)
EXTENDS FileDiff

CONSTANTS Size,        \* units of the disk
          Grain,       \* units a change range is reported in
          MaxJournal,  \* records a journal holds before the oldest is dropped
          MaxOps,      \* operations of the guest, before and after the checkpoint together
          Slots,       \* the slots of files a volume has
          Layouts,     \* the disks to start from: [vols, table]
          Names,       \* names of files
          Cases        \* [fault, opts]: how Compare is called and what it meets

VARIABLES vols,        \* the volumes of the disk: a sequence
          table,       \* the partition table: a set of [base, len], empty when there is none
          writes,      \* units written since the checkpoint
          old,         \* the disk at the checkpoint, as a sequence of one or none
          ops, nextUid,
          doc          \* what Compare returned, as a sequence of one or none

vars == <<vols, table, writes, old, ops, nextUid, doc>>

ASSUME SizesAreNat ==
  /\ {Size, Grain, MaxJournal, MaxOps} \subseteq Nat /\ Grain > 0 /\ Size % Grain = 0
  /\ Slots \subseteq (1..15) \ {Root} /\ {1, Sub} \subseteq Slots /\ Names \subseteq Nat \ {0}

-----------------------------------------------------------------------------
(* Finding the volumes.                                                    *)
DetectedAt(disk, base) == {i \in DOMAIN disk.vols : disk.vols[i].base = base /\ disk.vols[i].readable}

\* OpenVolumeAt: detect decides which adapter opens the base, if any.
OpenVolumeAt(disk, part) ==
  LET at == DetectedAt(disk, part.base)
  IN  IF at = {} THEN [vols |-> {}, errs |-> {part.base}]
      ELSE [vols |-> {[fs |-> disk.vols[CHOOSE i \in at : TRUE], base |-> part.base, len |-> part.len]},
            errs |-> {}]

\* The other entries of a table are not volumes.
IsPartition(p) == p.base > 0 /\ p.len > 0 /\ p.base < Size
Partitions(disk) == {p \in disk.table : IsPartition(p)}
WholeDisk == [base |-> 0, len |-> Size]

Opened(disk, parts) ==
  LET found == {OpenVolumeAt(disk, p) : p \in parts}
  IN  [vols |-> UNION {f.vols : f \in found}, errs |-> UNION {f.errs : f \in found}]

\* A disk without a table may be formatted end to end.
OpenVolumes(disk) == Opened(disk, IF disk.table = {} THEN {WholeDisk} ELSE Partitions(disk))

Span(v) == [at |-> v.base, len |-> IF v.len > 0 THEN v.len ELSE Size - v.base]

-----------------------------------------------------------------------------
(* Comparing.                                                              *)
IsWrite(e) == e.kind \in {"mapped", "zeroed"}

WrittenRanges(extents) ==
  Coalesce({[at |-> e.at, len |-> e.len] : e \in {x \in extents : IsWrite(x)}})

ReportedFile(c) ==
  LET entry == IF c.entry.id # NoId THEN c.entry ELSE c.prev
      named(e) == IF e.path # 0 THEN e.path ELSE e.name
  IN  [path |-> named(entry), change |-> c.kind, id |-> entry.id, ranges |-> c.ranges,
       confidence |-> c.confidence, previous |-> IF c.kind = "renamed" THEN named(c.prev) ELSE 0]

\* diff is kept beside what the report says of it.
ToReport(v, diff) ==
  [base |-> v.base, identity |-> diff.identity, notes |-> diff.notes,
   files |-> {ReportedFile(c) : c \in diff.changes}, diff |-> diff]

Warning(what, at) == [what |-> what, at |-> at]

\* What is kept of one volume's comparison.
Outcome(v, inVolume, diff) ==
  IF inVolume = {} THEN [found |-> {}, notes |-> {}]
  ELSE IF ~diff.ok THEN [found |-> {}, notes |-> {Warning(diff.why, v.base)}]
  ELSE [found |-> {ToReport(v, diff)}, notes |-> {}]

Compared(v, olds, inVolume, opts) ==
  LET pairs == {w \in olds : w.base = v.base}
  IN  IF pairs = {} THEN [found |-> {}, notes |-> {Warning("no counterpart", v.base)}]
      ELSE Outcome(v, inVolume, Diff((CHOOSE w \in pairs : TRUE).fs, v.fs, inVolume, opts))

Warnings(what, errs) == {Warning(what, b) : b \in errs}

Gathered(new, was, compared) ==
  [volumes |-> UNION {c.found : c \in compared},
   notes   |-> Warnings("newer state", new.errs) \cup Warnings("older state", was.errs)
               \cup UNION {c.notes : c \in compared}]

CompareOpened(was, new, written, opts) ==
  IF new.vols = {} THEN [volumes |-> {}, notes |-> Warnings("newer state", new.errs)]
  ELSE Gathered(new, was, {Compared(v, was.vols, Clip(written, Span(v)), opts) : v \in new.vols})

CompareVolumes(older, newer, written, opts) ==
  CompareOpened(OpenVolumes(older), OpenVolumes(newer), written, opts)

TierOf(volumes) ==
  IF \E w \in volumes : \E f \in w.files : f.confidence = "proven" THEN "journal" ELSE "file"

\* report.Change: the document of the block tier.
Change(extents) == [tier |-> "block", extents |-> extents, volumes |-> {}, warnings |-> {}]

\* openOlder: the chain's entry at the index, opened by its path.
OlderOpens(chain, index) == index > 0 /\ index < Len(chain) /\ chain[index + 1].path # 0 /\ chain[index + 1].opens

WithVolumes(block, found) ==
  [block EXCEPT !.volumes = found.volumes, !.warnings = found.notes,
                !.tier = IF found.volumes = {} THEN @ ELSE TierOf(found.volumes)]

\* The change map is read twice, for report.Change and for the volumes, from tables
\* that do not change in between: both give the same extents.  A reading that fails
\* (compare.go:58 and :76) ends the call with an error and no document; such calls
\* are left out.
CompareDisks(older, newer, chain, index, extents, opts) ==
  LET block == Change(extents)
  IN  IF opts.skipVolumes THEN block
      ELSE IF ~OlderOpens(chain, index)
        THEN [block EXCEPT !.warnings = {Warning("older state unavailable", index)}]
      ELSE WithVolumes(block, CompareVolumes(older, newer, WrittenRanges(extents), opts))

-----------------------------------------------------------------------------
(* The guest, before and after the checkpoint.                             *)
\* The units a volume's content may lie in.
Room(v) == v.root..(v.base + v.len - 1)
HaveHoles == {"ntfs", "ext", "xfs"}
HaveForks == {"ntfs", "xfs", "hfs"}
Used(v) == {v.root, v.sub} \cup UNION {{f.map[k] : k \in DOMAIN f.map} \cup {f.fork} : f \in {v.files[s] : s \in Live(v)}}
Free(v) == Room(v) \ Used(v)
FirstFree(v) == CHOOSE u \in Free(v) : \A w \in Free(v) : u <= w

NameFree(v, dir, n) == \A s \in Live(v) : ~(v.files[s].dir = dir /\ v.files[s].name = n)
DirUnit(v, dir)     == IF dir = Root THEN v.root ELSE v.sub
Directories(v) == {Root} \cup {s \in Slots : v.files[s].isDir}
\* A directory is a file: entering a name in it writes its unit.
InDir(files, dir)   == IF dir = Sub THEN [files EXCEPT ![Sub].dirty = {0}] ELSE files

Logged(v, f, s, reasons) ==
  IF ~HasJournal(v) THEN v
  ELSE LET record(k) == [usn |-> v.usn + k - 1, id |-> ID(s, f[k].gen), reason |-> reasons[k], name |-> f[k].name,
                         parent |-> ID(f[k].dir, SeqNo(v, f[k].dir)), uid |-> f[k].uid]
           all == v.journal \o [k \in DOMAIN reasons |-> record(k)]
       IN  [v EXCEPT !.usn = @ + Len(reasons),
                     !.journal = IF Len(all) > MaxJournal
                                   THEN SubSeq(all, Len(all) - MaxJournal + 1, Len(all)) ELSE all]

Put(i, v, units) ==
  /\ doc = <<>> /\ ops < MaxOps
  /\ vols' = [vols EXCEPT ![i] = v]
  /\ writes' = writes \cup units
  /\ ops' = ops + 1
  /\ UNCHANGED <<table, old, doc>>

Create(i, s, dir, n, later) ==
  LET v == vols[i]
      f == [v.files[s] EXCEPT !.live = TRUE, !.gen = @ + 1, !.born = @ + later, !.name = n, !.dir = dir,
              !.map = <<FirstFree(v)>>, !.fork = 0, !.uid = nextUid, !.dirty = {0}, !.forkDirty = FALSE]
  IN  /\ i = 1 /\ ~v.files[s].live /\ dir \in Directories(v) /\ NameFree(v, dir, n) /\ Free(v) # {}
      /\ later = 0 => v.kind = "hfs"
      /\ Put(i, Logged([v EXCEPT !.files = InDir([@ EXCEPT ![s] = f], dir)], <<f>>, s, <<"other">>),
             {FirstFree(v), DirUnit(v, dir)})
      /\ nextUid' = nextUid + 1

Delete(i, s) ==
  LET v == vols[i]
      f == v.files[s]
  IN  /\ i = 1 /\ f.live /\ ~f.isDir
      /\ Put(i, Logged([v EXCEPT !.files = InDir([@ EXCEPT ![s].live = FALSE], f.dir)], <<f>>, s, <<"other">>),
             {DirUnit(v, f.dir)})
      /\ UNCHANGED nextUid

\* Both names are recorded, one after the other.
Rename(i, s, dir, n) ==
  LET v == vols[i]
      f == v.files[s]
      g == [f EXCEPT !.dir = dir, !.name = n]
  IN  /\ i = 1 /\ f.live /\ ~f.isDir /\ dir \in Directories(v) /\ NameFree(v, dir, n)
      /\ Put(i, Logged([v EXCEPT !.files = InDir(InDir([@ EXCEPT ![s] = g], f.dir), dir)],
                       <<f, g>>, s, <<"old", "new">>),
             {DirUnit(v, f.dir), DirUnit(v, dir)})
      /\ UNCHANGED nextUid

\* Content is overwritten in place; a hole or the end takes a free unit.
Write(i, s, o) ==
  LET v == vols[i]
      f == v.files[s]
      fresh == IF o > Len(f.map) THEN TRUE ELSE f.map[o] = 0
      unit  == IF fresh THEN FirstFree(v) ELSE f.map[o]
      g == [f EXCEPT !.map = [k \in DOMAIN f.map \cup {o} |-> IF k = o THEN unit ELSE f.map[k]],
                     !.dirty = @ \cup {o - 1}]
  IN  /\ f.live /\ ~f.isDir /\ (fresh => Free(v) # {})
      /\ Put(i, Logged([v EXCEPT !.files[s] = g], <<g>>, s, <<"other">>), {unit})
      /\ UNCHANGED nextUid

WriteFork(i, s) ==
  LET v == vols[i]
      f == v.files[s]
      unit == IF f.fork = 0 THEN FirstFree(v) ELSE f.fork
      g == [f EXCEPT !.fork = unit, !.forkDirty = TRUE]
  IN  /\ f.live /\ ~f.isDir /\ v.kind \in HaveForks /\ (f.fork = 0 => Free(v) # {})
      /\ Put(i, Logged([v EXCEPT !.files[s] = g], <<g>>, s, <<"other">>), {unit})
      /\ UNCHANGED nextUid

Clean(v) == [v EXCEPT !.files = [s \in DOMAIN @ |-> [@[s] EXCEPT !.dirty = {}, !.forkDirty = FALSE]]]

TakeCheckpoint ==
  /\ old = <<>>
  /\ old' = <<[vols |-> [i \in DOMAIN vols |-> Clean(vols[i])], table |-> table]>>
  /\ vols' = [i \in DOMAIN vols |-> Clean(vols[i])]
  /\ writes' = {}
  /\ UNCHANGED <<table, ops, nextUid, doc>>

-----------------------------------------------------------------------------
(* Comparing the disk with its checkpoint, in one of Cases.                *)
\* ChangedExtents: every grain of the disk the leaf says something of.
ExtentAt(g) ==
  LET at == g * Grain
  IN  [at |-> at, len |-> Grain,
       kind |-> IF writes \cap (at..(at + Grain - 1)) # {}
                  THEN IF g % 2 = 1 THEN "mapped" ELSE "zeroed"
                  ELSE IF g % 2 = 1 THEN "zero" ELSE "unresolved"]
ChangedExtents == {ExtentAt(g) : g \in 0..((Size \div Grain) - 1)}

\* What the comparison meets.
FailedWalks    == {"older walk failed", "newer walk failed"}
FailedJournals == {"older journal unread", "newer journal unread", "journal unread"}

\* A fault that this disk can meet.
Occurs(fault) ==
  /\ fault \in FailedJournals => HasJournal(vols[1])
  /\ fault = "identity unread" => vols[1].kind = "hfs"
  /\ fault \in {"partition new", "partition removed"} => table # {}

Without(parts, base) == {p \in parts : p.base # base}
Newer(fault) ==
  [table |-> IF fault = "partition removed" THEN Without(table, vols[1].base) ELSE table,
   vols  |-> IF fault = "map lost" THEN [vols EXCEPT ![1].files[1].lost = TRUE]
             ELSE IF fault = "identity unread" /\ vols[1].kind = "hfs" THEN [vols EXCEPT ![1].serial = 0]
             ELSE IF fault = "new unreadable" THEN [vols EXCEPT ![1].readable = FALSE]
             ELSE IF fault = "newer walk failed" THEN [vols EXCEPT ![1].unread = {"walk"}]
             ELSE IF fault = "newer journal unread" THEN [vols EXCEPT ![1].unread = {"position"}]
             ELSE IF fault = "journal unread" THEN [vols EXCEPT ![1].unread = {"renames"}]
             ELSE vols]

Older(fault) ==
  LET was == old[1]
  IN  [table |-> IF fault = "partition new" THEN Without(was.table, vols[1].base) ELSE was.table,
       vols  |-> IF fault = "other serial" THEN [was.vols EXCEPT ![1].serial = @ + 1]
                 ELSE IF fault = "old unreadable" THEN [was.vols EXCEPT ![1].readable = FALSE]
                 ELSE IF fault = "older walk failed" THEN [was.vols EXCEPT ![1].unread = {"walk"}]
                 ELSE IF fault = "older journal unread" THEN [was.vols EXCEPT ![1].unread = {"position"}]
                 ELSE was.vols]

ChainOf(fault) == <<[path |-> 1, opens |-> TRUE],
                    [path |-> IF fault = "older unnamed" THEN 0 ELSE 2, opens |-> fault # "older gone"]>>
IndexOf(fault) == IF fault = "index beyond" THEN 2 ELSE 1

Document(c) ==
  <<[case |-> c, was |-> CompareDisks(Older(c.fault), Newer(c.fault), ChainOf(c.fault), IndexOf(c.fault),
                                      ChangedExtents, c.opts)]>>

Compare(c) ==
  /\ old # <<>> /\ doc = <<>> /\ Occurs(c.fault)
  /\ doc' = Document(c)
  /\ UNCHANGED <<vols, table, writes, old, ops, nextUid>>

(* The disks to start from.                                                *)
Kinds     == HaveHoles \cup HaveForks \cup {"fat", "exfat"}

Id     == [num : Nat, gen : Nat]
Record == [usn : Nat, id : Id, reason : {"old", "new", "other"}, name : Nat, parent : Id, uid : Nat]
File   == [live : BOOLEAN, isDir : BOOLEAN, gen : Nat, born : Nat, name : Nat, dir : {Root, Sub}, map : Seq(Nat),
           fork : Nat, lost : {FALSE}, uid : Nat, dirty : SUBSET Nat, forkDirty : BOOLEAN]
Volume == [kind : Kinds, base : Nat, len : Nat, root : Nat, sub : Nat, serial : Nat \ {0}, readable : {TRUE},
           unread : {{}}, files : [Slots -> File], journal : Seq(Record), usn : Nat]

\* A directory is the one subdirectory; only some filesystems have holes or forks.
SoundFile(v, s) ==
  LET f == v.files[s]
  IN  /\ f.live => f.name # 0
      /\ f.isDir => s = Sub /\ f.live /\ f.map = <<v.sub>>
      /\ f.dir = Sub => v.files[Sub].isDir
      /\ \A k \in DOMAIN f.map : f.map[k] \in Room(v) \/ (f.map[k] = 0 /\ v.kind \in HaveHoles)
      /\ f.fork = 0 \/ (f.fork \in Room(v) /\ v.kind \in HaveForks)

SoundVolume(v) ==
  /\ v \in Volume
  /\ v.base + v.len <= Size /\ v.root > 0 /\ v.root >= v.base /\ {v.root, v.sub} \subseteq Room(v)
  /\ \A s \in Slots : SoundFile(v, s)
  /\ \A s, t \in Live(v) : v.files[s].uid = v.files[t].uid => s = t

\* A volume in a partition fills it, and no two begin at one place.
SoundTable(l) ==
  /\ l.table \subseteq [base : Nat, len : Nat]
  /\ \A p, q \in l.table : p.base = q.base => p = q
  /\ \A i, j \in DOMAIN l.vols : l.vols[i].base = l.vols[j].base => i = j
  /\ \A i \in DOMAIN l.vols :
       IF l.table = {} THEN l.vols[i].base = 0
       ELSE l.vols[i].base > 0 /\ [base |-> l.vols[i].base, len |-> l.vols[i].len] \in l.table

SoundLayout(l) ==
  /\ l.vols \in Seq(Volume) /\ l.vols # <<>> /\ SoundTable(l)
  /\ \A i \in DOMAIN l.vols :
       /\ SoundVolume(l.vols[i]) /\ l.vols[i].journal = <<>>
       /\ \A s \in Slots : /\ l.vols[i].files[s].uid < 10
                           /\ l.vols[i].files[s].dirty = {} /\ ~l.vols[i].files[s].forkDirty

ASSUME LayoutsAreSound == \A l \in Layouts : SoundLayout(l)
ASSUME CasesAreOptions ==
  \A c \in Cases : c.opts \in [maxFiles : Nat, skipDirectories : BOOLEAN, allowMismatch : BOOLEAN, skipVolumes : BOOLEAN]

Init ==
  \E l \in Layouts :
    /\ vols = l.vols /\ table = l.table
    /\ writes = {} /\ old = <<>> /\ ops = 0 /\ nextUid = 10 /\ doc = <<>>

Next ==
  \/ \E i \in DOMAIN vols, s \in Slots :
       \/ \E dir \in {Root, Sub}, n \in Names :
            \/ \E later \in {0, 1} : Create(i, s, dir, n, later)
            \/ Rename(i, s, dir, n)
       \/ Delete(i, s)
       \/ \E o \in 1..(Len(vols[i].files[s].map) + 1) : Write(i, s, o)
       \/ WriteFork(i, s)
  \/ TakeCheckpoint
  \/ \E c \in Cases : Compare(c)

Spec == Init /\ [][Next]_vars

-----------------------------------------------------------------------------
(* What a document may be relied on for.                                   *)
Report    == doc[1].was
Fault     == doc[1].case.fault
Opts      == doc[1].case.opts
IndexAt(b) == CHOOSE i \in DOMAIN vols : vols[i].base = b
VolAt(b)  == vols[IndexAt(b)]
OldAt(b)  == old[1].vols[IndexAt(b)]

Normal(rs) == \A k \in DOMAIN rs : rs[k].len > 0 /\ (k > 1 => End(rs[k - 1]) < rs[k].at)

\* The range sets of a document are in their one normal form, its volumes are
\* apart, and no file identity is reported twice.
TypeOK ==
  /\ ops \in 0..MaxOps /\ writes \subseteq 0..(Size - 1)
  /\ Len(old) <= 1 /\ Len(doc) <= 1
  /\ doc # <<>> =>
       /\ Report.tier \in {"block", "file", "journal"}
       /\ \A w, x \in Report.volumes : w.base = x.base => w = x
       /\ \A w \in Report.volumes :
            /\ \A f \in w.files : f.path # 0 /\ f.id # NoId /\ Normal(f.ranges)
            /\ \A c, d \in w.diff.changes : ReportedFile(c).id = ReportedFile(d).id => c = d

\* Where a byte of a reported range can lie: in the content or in the fork.
UnitsOf(f, b) == ((IF b + 1 \in DOMAIN f.map THEN {f.map[b + 1]} ELSE {})
                  \cup (IF b = 0 THEN {f.fork} ELSE {})) \ {0}
GrainOf(u)    == u \div Grain
ReportedUnits == {u \in 0..(Size - 1) : \E w \in writes : GrainOf(w) = GrainOf(u)}

ParentNumber(v, dir) == IF v.kind \in {"fat", "exfat"} THEN 16 * dir ELSE dir
IsOf(v, s, id) == \E e \in Inventory(v) : /\ e.id = id /\ e.name = v.files[s].name /\ v.files[s].live
                                          /\ e.parent.num = ParentNumber(v, v.files[s].dir)
Complete(w)  == Note("truncated", NoId) \notin w.notes
Touched(f)   == f.dirty \cup (IF f.forkDirty THEN {0} ELSE {})
MapLost(w, s) == Fault = "map lost" /\ w.base = vols[1].base /\ s = 1

\* Through partition base, grain, clipping, runs, holes and coalescing, a file
\* whose content was written is reported with ranges that hold every byte
\* written, and no range names a byte that no reported write can have touched.
RangesCoverWrites ==
  doc # <<>> => \A w \in Report.volumes :
    LET v == VolAt(w.base)
    IN  /\ \A s \in Live(v) :
             Touched(v.files[s]) # {} /\ Wanted(v.files[s], Opts) /\ Complete(w) /\ ~MapLost(w, s)
               => \E f \in w.files : /\ IsOf(v, s, f.id) /\ f.change # "deleted"
                                     /\ Touched(v.files[s]) \subseteq AllBytes(f.ranges)
        /\ \A f \in w.files : \A b \in AllBytes(f.ranges) :
             \E s \in Live(v) : IsOf(v, s, f.id) /\ UnitsOf(v.files[s], b) \cap ReportedUnits # {}

\* The files behind a change, as the guest knows them.
UidsNow(v)    == {v.files[s].uid : s \in Live(v)}
FileNow(v, u) == v.files[CHOOSE s \in Live(v) : v.files[s].uid = u]
Moved(f, g)   == f.name # g.name \/ f.dir # g.dir
UidOf(v, id)  == v.files[id.num].uid
UidBehind(c, v, was) == IF c.kind = "deleted" THEN UidOf(was, c.prev.id) ELSE UidOf(v, c.entry.id)
RecordedMove(v, was, u) == \E k \in DOMAIN v.journal :
  v.journal[k].uid = u /\ v.journal[k].reason = "new" /\ v.journal[k].usn >= VolumeState(was)

\* A change is the one that happened to that very file.
Happened(c, v, was) ==
  LET u    == UidBehind(c, v, was)
      both == UidsNow(v) \cap UidsNow(was)
  IN  /\ c.kind \in {"added", "deleted", "modified", "renamed"}
      /\ c.kind = "added"    => u \in UidsNow(v) \ UidsNow(was)
      /\ c.kind = "deleted"  => u \in UidsNow(was) \ UidsNow(v)
      /\ c.kind = "modified" => u \in both /\ ~Moved(FileNow(was, u), FileNow(v, u))
      /\ c.kind = "renamed"  => u \in both /\ (Moved(FileNow(was, u), FileNow(v, u)) \/ c.evidence # <<>>)
      /\ c.confidence = "proven" => RecordedMove(v, was, u)

\* None that happened is missing.
AllSaid(changes, v, was, opts) ==
  LET said(u, kind) == \E c \in changes : UidBehind(c, v, was) = u /\ c.kind = kind
  IN  /\ \A u \in UidsNow(v) \ UidsNow(was) : Wanted(FileNow(v, u), opts) => said(u, "added")
      /\ \A u \in UidsNow(was) \ UidsNow(v) : said(u, "deleted")
      /\ \A u \in UidsNow(v) \cap UidsNow(was) : Moved(FileNow(was, u), FileNow(v, u)) => said(u, "renamed")

\* Where a filesystem keeps identities, every change reported is the one that
\* happened to that very file, whatever was reused since, and none is missing.
\* Where it does not, nothing is said with more than an inference, and a note
\* says why.  What is proven rests on a record no older than the newest one
\* the older state holds.
ClassifiedTruly ==
  doc # <<>> => \A w \in Report.volumes :
    LET v    == VolAt(w.base)
        was  == OldAt(w.base)
        caps == Capabilities(v)
    IN  IF caps.stable /\ caps.counter
          THEN /\ \A c \in w.diff.changes : Happened(c, v, was)
               /\ Complete(w) /\ Fault # "map lost" => AllSaid(w.diff.changes, v, was, Opts)
          ELSE /\ \A f \in w.files : f.confidence = "inferred"
               /\ Note("identity synthesised", NoId) \in w.notes

Differs(v, was) == \E s \in Slots : \/ v.files[s].dirty # {} \/ v.files[s].forkDirty
                                    \/ v.files[s].live # was.files[s].live \/ Moved(v.files[s], was.files[s])

\* A volume on which something changed is in the document or the document says
\* why it is not; a walk that failed is said to have, on the state it failed
\* on; a journal that could not be read is noted, at the reading that failed and
\* never else, and nothing then rests on it; a list that leaves changes out
\* says so; the block tier is left only when a volume was compared.
NothingSilent ==
  doc # <<>> =>
    /\ \A i \in DOMAIN vols : Differs(vols[i], old[1].vols[i]) =>
         \/ \E w \in Report.volumes : w.base = vols[i].base
         \/ \E x \in Report.warnings : x.at = vols[i].base \/ x.what = "older state unavailable"
         \/ Opts.skipVolumes \/ (Fault = "partition removed" /\ i = 1)
    /\ Fault \in FailedWalks /\ Differs(vols[1], old[1].vols[1]) /\ ~Opts.skipVolumes
         => Warning(Fault, vols[1].base) \in Report.warnings
    /\ \A w \in Report.volumes : w.base = vols[1].base =>
         /\ Fault = "map lost" /\ vols[1].files[1].live /\ Wanted(vols[1].files[1], Opts) /\ vols[1].kind # "ntfs"
              => \E x \in w.notes : x.what = "map unreadable"
         /\ Fault = "other serial" => \E x \in w.notes : x.what = "identity differs"
         /\ \A what \in FailedJournals : (Note(what, NoId) \in w.notes) = (Fault = what /\ vols[1].kind = "ntfs")
         /\ Fault \in FailedJournals => \A c \in w.diff.changes : c.evidence = <<>>
    /\ (Report.tier = "block") = (Report.volumes = {})
    /\ (Report.tier = "journal") = (\E w \in Report.volumes : \E c \in w.diff.changes : c.evidence # <<>>)

\* The renames between two states of a volume are those the newer state's
\* journal took on after the older state.
EvidenceInWindow ==
  doc # <<>> => \A w \in Report.volumes : \A c \in w.diff.changes :
    c.evidence # <<>> => \A k \in DOMAIN OldAt(w.base).journal : OldAt(w.base).journal[k].usn # c.evidence[1].when

\* A file whose content was written is reported, or its map is noted as unread.
UnreadMapsNoted ==
  doc # <<>> => \A w \in Report.volumes :
    LET v == VolAt(w.base)
    IN  \A s \in Live(v) : v.files[s].dirty # {} /\ Wanted(v.files[s], Opts) /\ Complete(w) =>
          \/ \E f \in w.files : IsOf(v, s, f.id)
          \/ \E x \in w.notes : x.what = "map unreadable" /\ IsOf(v, s, x.id)
=============================================================================
