------------------------------ MODULE FileDiff ------------------------------
(***************************************************************************)
(* change.Diff: which files changed between two states of one volume, led  *)
(* by the ranges of the disk that were written.                            *)
(***************************************************************************)
EXTENDS FsVolume, RangeSets

Note(what, id) == [what |-> what, id |-> id]

\* checkIdentity.  A serial that cannot be read is 0.
CheckIdentity(from, to, opts) ==
  IF from.serial = 0 \/ to.serial = 0
    THEN [ok |-> TRUE, notes |-> {Note("identity not confirmed", NoId)}]
  ELSE IF from.serial = to.serial THEN [ok |-> TRUE, notes |-> {}]
  ELSE IF opts.allowMismatch THEN [ok |-> TRUE, notes |-> {Note("identity differs", NoId)}]
  ELSE [ok |-> FALSE, notes |-> {}]

\* inventory: an error of the walk is inventory's error.
InventoryFails(v) == WalkFails(v)
Inventory(v) == {e \in WalkFiles(v) : e.id # NoId /\ ~e.deleted}

\* The parts of an extent that were written, placed in the file.
InFile(e, written) ==
  {[at |-> e.file + (hit.at - e.at), len |-> hit.len] : hit \in Overlap(written, [at |-> e.at, len |-> e.len])}

ChangedWithin(v, id, written) ==
  LET map == ExtentsForFile(v, id)
  IN  [err |-> map.err, ranges |-> Coalesce(UNION {InFile(e, written) : e \in {x \in map.extents : x.len > 0}})]

Confidence(caps) == IF caps.stable /\ caps.counter THEN "identified" ELSE "inferred"

CapabilityNotes(caps) ==
  (IF ~caps.stable THEN {Note("identity synthesised", NoId)}
   ELSE IF ~caps.counter THEN {Note("no reuse counter", NoId)} ELSE {})
  \cup (IF caps.streams THEN {Note("streams belong to the file", NoId)} ELSE {})

-----------------------------------------------------------------------------
\* What one entry of the newer state is, given the older state's inventory.
ChangeOf(entry, old, within, base) ==
  LET prevs   == {e \in old : e.id = entry.id}
      prev    == IF prevs = {} THEN NoEntry ELSE CHOOSE e \in prevs : TRUE
      touched == within.ranges # <<>>
      kind    == IF prevs = {} THEN "added"
                 ELSE IF prev.name # entry.name \/ prev.parent # entry.parent THEN "renamed"
                 ELSE "modified"
  IN  IF kind = "modified" /\ ~touched THEN {}
      ELSE {[kind |-> kind, entry |-> entry, prev |-> prev, modified |-> touched,
             ranges |-> within.ranges, confidence |-> base, evidence |-> <<>>]}

Deletion(prev, base) ==
  [kind |-> "deleted", entry |-> NoEntry, prev |-> prev, modified |-> FALSE,
   ranges |-> <<>>, confidence |-> base, evidence |-> <<>>]

\* corroborate: a rename the journal recorded makes the change a proven one.
Identity(c) == IF c.entry.id # NoId THEN c.entry.id ELSE c.prev.id

Corroborated(c, renames) ==
  LET of == {r \in renames : r.id = Identity(c)}
      latest == CHOOSE r \in of : \A q \in of : q.when <= r.when
  IN  IF of = {} THEN c
      ELSE [c EXCEPT !.evidence = <<latest>>, !.confidence = "proven",
                     !.kind = IF @ = "modified" THEN "renamed" ELSE @]

Unread(what)      == [notes |-> {Note(what, NoId)}, renames |-> {}]
Renames(from, to) == [notes |-> {}, renames |-> RenamesBetween(to, VolumeState(from), VolumeState(to))]

\* Mutant: a journal that cannot be read is passed over without a word.
EvidenceUnsaid(from, to) ==
  IF /\ HasJournal(to) /\ HasJournal(from)
     /\ ~VolumeStateFails(from) /\ ~VolumeStateFails(to) /\ ~RenamesFail(to)
    THEN Renames(from, to) ELSE [notes |-> {}, renames |-> {}]

\* Each reading of a journal may fail; a note then says which.
Evidence(from, to) ==
  IF ~(HasJournal(to) /\ HasJournal(from)) THEN [notes |-> {}, renames |-> {}]
  ELSE IF VolumeStateFails(from) THEN Unread("older journal unread")
  ELSE IF VolumeStateFails(to)   THEN Unread("newer journal unread")
  ELSE IF RenamesFail(to)        THEN Unread("journal unread")
  ELSE Renames(from, to)

Corroborate(changes, evidence) == {Corroborated(c, evidence.renames) : c \in changes}

SortKey(c) == IF c.entry.path # 0 THEN c.entry.path
              ELSE IF c.prev.path # 0 THEN c.prev.path
              ELSE IF c.entry.name # 0 THEN c.entry.name ELSE c.prev.name
KindRank  == [added |-> 1, deleted |-> 2, modified |-> 3, renamed |-> 4]
Before(c, d) == IF SortKey(c) # SortKey(d) THEN SortKey(c) < SortKey(d)
                ELSE KindRank[c.kind] < KindRank[d.kind]

\* A list sorted and cut: nothing left out comes before anything kept.
Kept(changes, max) ==
  CHOOSE kept \in SUBSET changes :
    Cardinality(kept) = max /\ \A c \in kept, d \in changes \ kept : ~Before(d, c)

Truncate(changes, max) ==
  IF max > 0 /\ Cardinality(changes) > max
    THEN [list |-> Kept(changes, max), notes |-> {Note("truncated", NoId)}]
    ELSE [list |-> changes, notes |-> {}]

-----------------------------------------------------------------------------
\* Diff's error.
Refusal(why) == [ok |-> FALSE, why |-> why]

Wanted(e, opts) == ~(e.isDir /\ opts.skipDirectories)

\* What the two inventories say, given what was written in each file of the
\* newer one: an unreadable map leaves its file out.
ChangesIn(old, new, within, base, opts) ==
  (UNION {ChangeOf(e, old, within[e], base) : e \in {x \in new : Wanted(x, opts) /\ ~within[x].err}})
  \cup {Deletion(p, base) : p \in {q \in old : Wanted(q, opts) /\ ~\E e \in new : e.id = q.id}}

Result(to, kept, notes) ==
  [ok |-> TRUE, identity |-> to.serial, caps |-> Capabilities(to), changes |-> kept.list,
   notes |-> kept.notes \cup notes]

DiffInventories(from, to, old, new, within, opts) ==
  LET caps     == Capabilities(to)
      evidence == Evidence(from, to)
  IN  Result(to, Truncate(Corroborate(ChangesIn(old, new, within, Confidence(caps), opts), evidence), opts.maxFiles),
             CapabilityNotes(caps) \cup evidence.notes
             \cup {Note("map unreadable", e.id) : e \in {x \in new : Wanted(x, opts) /\ within[x].err}})

\* Diff, once the identities were read.
DiffWithin(from, to, written, same, opts) ==
  LET new   == Inventory(to)
      diff  == DiffInventories(from, to, Inventory(from), new,
                               [e \in new |-> ChangedWithin(to, e.id, written)], opts)
  IN  IF ~same.ok THEN Refusal("different volumes")
      ELSE IF written = <<>>
        THEN Result(to, [list |-> {}, notes |-> same.notes], {Note("wrote nothing", NoId)})
      ELSE IF InventoryFails(from) THEN Refusal("older walk failed")
      ELSE IF InventoryFails(to)   THEN Refusal("newer walk failed")
      ELSE [diff EXCEPT !.notes = @ \cup same.notes]

Diff(from, to, changed, opts) ==
  DiffWithin(from, to, Coalesce(changed), CheckIdentity(from, to, opts), opts)
=============================================================================
