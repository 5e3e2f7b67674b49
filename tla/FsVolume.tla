------------------------------ MODULE FsVolume ------------------------------
(***************************************************************************)
(* What the filesystem adapters of package change tell of one volume.  A   *)
(* volume is a record: its kind, the base its adapter was opened at, the   *)
(* serial it carries (0: unreadable), its files by slot (MFT record, inode *)
(* or directory slot), its journal, and what of it cannot be read.  A      *)
(* file's map gives the disk unit of every unit of its content, 0 for a    *)
(* hole; its fork (named stream, attribute or resource fork) is one more   *)
(* unit, 0 when it has none.                                               *)
(***************************************************************************)
EXTENDS Integers, Sequences, FiniteSets

Root == 8
Sub  == 3          \* the slot of the one subdirectory

ID(n, g) == [num |-> n, gen |-> g]
NoId     == ID(0, 0)
NoEntry  == [id |-> NoId, parent |-> NoId, name |-> 0, path |-> 0, isDir |-> FALSE, deleted |-> FALSE]

PathOf(f)  == 10 * f.dir + f.name
EntryAs(f, id, parent, path, deleted) ==
  [id |-> id, parent |-> parent, name |-> f.name, path |-> path, isDir |-> f.isDir, deleted |-> deleted]

SeqNo(v, dir) == IF dir = Root THEN 1 ELSE v.files[dir].gen

\* pack: the parent's first cluster and the slot in it.
Pack(dir, slot) == ID(16 * dir + slot, 0)

-----------------------------------------------------------------------------
(* Capabilities, cut down to what decides a confidence.  What a library    *)
(* says of its own format is taken as the format's.                        *)
Caps(stable, counter, streams) == [stable |-> stable, counter |-> counter, streams |-> streams]

NtfsCapabilities  == Caps(TRUE, TRUE, TRUE)
ExtCapabilities   == Caps(TRUE, TRUE, FALSE)
XfsCapabilities   == Caps(TRUE, TRUE, FALSE)
HfsCapabilities   == Caps(FALSE, FALSE, FALSE)
FatCapabilities   == Caps(FALSE, FALSE, FALSE)
ExfatCapabilities == Caps(FALSE, FALSE, FALSE)

(* WalkFiles: every MFT record, and every directory record of ext, FAT and *)
(* exFAT, deleted ones marked; only what is reachable on XFS and HFS+.     *)
Live(v) == {s \in DOMAIN v.files : v.files[s].live}

NtfsWalk(v) ==
  {EntryAs(v.files[s], ID(s, v.files[s].gen), ID(v.files[s].dir, SeqNo(v, v.files[s].dir)),
           PathOf(v.files[s]), ~v.files[s].live) : s \in DOMAIN v.files}

\* Mutant: the reuse counter is left out of the identity.
XfsWalkByNumber(v) ==
  {EntryAs(v.files[s], ID(s, 0), ID(v.files[s].dir, 0), PathOf(v.files[s]), FALSE) : s \in Live(v)}

XfsWalk(v) ==
  {EntryAs(v.files[s], ID(s, v.files[s].gen), ID(v.files[s].dir, 0), PathOf(v.files[s]), FALSE) :
     s \in Live(v)}

ExtWalk(v) ==
  {EntryAs(v.files[s], ID(s, v.files[s].gen), ID(v.files[s].dir, 0), PathOf(v.files[s]),
           ~v.files[s].live) : s \in DOMAIN v.files}

\* generationOf: the second of the file's creation stands in for a counter.
HfsWalk(v) ==
  {EntryAs(v.files[s], ID(s, v.files[s].born), ID(v.files[s].dir, 0), PathOf(v.files[s]), FALSE) :
     s \in Live(v)}

FatWalk(v) ==
  {EntryAs(v.files[s], Pack(v.files[s].dir, s), Pack(v.files[s].dir, 0), PathOf(v.files[s]),
           ~v.files[s].live) : s \in DOMAIN v.files}

\* No path: exFAT names an entry only within its directory.
ExfatWalk(v) ==
  {EntryAs(v.files[s], Pack(v.files[s].dir, s), Pack(v.files[s].dir, 0), 0, ~v.files[s].live) :
     s \in DOMAIN v.files}

-----------------------------------------------------------------------------
(* The runs of a map: [file, at, len, hole].                               *)
RunStarts(m) ==
  {o \in DOMAIN m : IF o = 1 THEN TRUE
                    ELSE IF m[o] = 0 THEN m[o - 1] # 0 ELSE m[o - 1] = 0 \/ m[o] # m[o - 1] + 1}
RunEnd(m, o) ==
  LET after == {n \in RunStarts(m) : n > o} \cup {Len(m) + 1}
  IN  CHOOSE n \in after : \A k \in after : n <= k
RunFrom(m, o) == [file |-> o - 1, at |-> m[o], len |-> RunEnd(m, o) - o, hole |-> m[o] = 0]
Runs(m) == {RunFrom(m, o) : o \in RunStarts(m)}

ForkRuns(f) == IF f.fork = 0 THEN {} ELSE Runs(<<f.fork>>)

Extent(run) == [file |-> run.file, at |-> run.at, len |-> run.len]
Hole(run)   == [file |-> run.file, at |-> 0, len |-> 0]
Mapped(rs)  == [err |-> FALSE, extents |-> rs]
Unmapped    == [err |-> TRUE, extents |-> {}]

\* Mutant: the holes are elided and the runs after them move up.
LocatedPacked(rs) ==
  LET kept == {r \in rs : ~r.hole}
      before(r) == {i \in 0..(r.file - 1) : \E q \in kept : i \in q.file..(q.file + q.len - 1)}
  IN  {[Extent(r) EXCEPT !.file = Cardinality(before(r))] : r \in kept}

\* A hole keeps its place in the file and loses its place on the disk.
Located(rs) == {IF r.hole THEN Hole(r) ELSE Extent(r) : r \in rs}
Converted(rs) == {Extent(r) : r \in rs}

(* ExtentsForFile.  f.lost: the map of the file's content cannot be read.  *)
NtfsExtents(v, id) ==
  LET f == v.files[id.num]
  IN  IF f.gen # id.gen THEN Unmapped
      \* one unreadable stream is passed over
      ELSE Mapped((IF f.lost THEN {} ELSE Located(Runs(f.map))) \cup Located(ForkRuns(f)))

ExtExtents(v, id) ==
  LET f == v.files[id.num] IN IF f.lost THEN Unmapped ELSE Mapped(Located(Runs(f.map)))

XfsExtents(v, id) ==
  LET f == v.files[id.num]
  IN  IF f.lost THEN Unmapped ELSE Mapped(Located(Runs(f.map)) \cup Located(ForkRuns(f)))

HfsExtents(v, id) ==
  LET f == v.files[id.num]
  IN  IF f.lost THEN Unmapped ELSE Mapped(Converted(Runs(f.map)) \cup Converted(ForkRuns(f)))

\* lookup, by unpacking the identity again.
FatExtents(v, id) ==
  LET f == v.files[id.num % 16] IN IF f.lost THEN Unmapped ELSE Mapped(Converted(Runs(f.map)))

ExfatExtents(v, id) ==
  LET f == v.files[id.num % 16] IN IF f.lost THEN Unmapped ELSE Mapped(Converted(Runs(f.map)))

-----------------------------------------------------------------------------
(* Every adapter's walk stops at what it cannot read and returns the error,*)
(* and so does each pass over the USN journal.                             *)
WalkFails(v)        == "walk" \in v.unread
VolumeStateFails(v) == "position" \in v.unread
RenamesFail(v)      == "renames" \in v.unread

(* The USN journal: records [usn, id, reason, name, parent].               *)
VolumeState(v) ==
  LET all == {v.journal[k].usn : k \in DOMAIN v.journal} \cup {0}
  IN  CHOOSE u \in all : \A x \in all : x <= u

InWindow(rec, lo, hi) == ~(rec.usn < lo \/ (hi > 0 /\ rec.usn > hi))

\* RenamesBetween: a record of a new name, with the old name recorded last for
\* that file unless another new one came between; without one, from nowhere.
RenamesBetween(v, lo, hi) ==
  LET seen  == {k \in DOMAIN v.journal : InWindow(v.journal[k], lo, hi)}
      names(k) == {j \in seen : j < k /\ v.journal[j].id = v.journal[k].id /\ v.journal[j].reason \in {"old", "new"}}
      olds(k)  == {j \in names(k) : v.journal[j].reason = "old" /\ \A i \in names(k) : i <= j}
      from(k)  == IF olds(k) = {} THEN [name |-> 0, parent |-> NoId] ELSE v.journal[CHOOSE j \in olds(k) : TRUE]
      found(k) == [id |-> v.journal[k].id, oldName |-> from(k).name, oldParent |-> from(k).parent,
                   newName |-> v.journal[k].name, newParent |-> v.journal[k].parent, when |-> v.journal[k].usn]
  IN  {found(k) : k \in {j \in seen : v.journal[j].reason = "new"}}

-----------------------------------------------------------------------------
(* The Filesystem a volume is, by its kind.                                *)
Capabilities(v) ==
  CASE v.kind = "ntfs" -> NtfsCapabilities [] v.kind = "ext"   -> ExtCapabilities
    [] v.kind = "xfs"  -> XfsCapabilities  [] v.kind = "hfs"   -> HfsCapabilities
    [] v.kind = "fat"  -> FatCapabilities  [] v.kind = "exfat" -> ExfatCapabilities

WalkFiles(v) ==
  CASE v.kind = "ntfs" -> NtfsWalk(v) [] v.kind = "ext"   -> ExtWalk(v)
    [] v.kind = "xfs"  -> XfsWalk(v)  [] v.kind = "hfs"   -> HfsWalk(v)
    [] v.kind = "fat"  -> FatWalk(v)  [] v.kind = "exfat" -> ExfatWalk(v)

ExtentsForFile(v, id) ==
  CASE v.kind = "ntfs" -> NtfsExtents(v, id) [] v.kind = "ext"   -> ExtExtents(v, id)
    [] v.kind = "xfs"  -> XfsExtents(v, id)  [] v.kind = "hfs"   -> HfsExtents(v, id)
    [] v.kind = "fat"  -> FatExtents(v, id)  [] v.kind = "exfat" -> ExfatExtents(v, id)

HasJournal(v) == v.kind = "ntfs"
=============================================================================
