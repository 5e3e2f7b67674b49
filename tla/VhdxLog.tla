------------------------------ MODULE VhdxLog ------------------------------
(***************************************************************************)
(* The VHDX log as the library reads it: a circular region of sectors in   *)
(* which a writer journals whole sectors of the file.  Analyze finds the   *)
(* newest valid entry, walks the sequence that ends in it and collects the *)
(* sectors it would write; Overlay layers them over the file, which is     *)
(* never written.  Offsets and lengths are counted in sectors, and a       *)
(* sector has two bytes: the one the writer displaces into the descriptor  *)
(* and the rest.                                                           *)
(*                                                                         *)
(* A log sector is one of                                                  *)
(*   [sig |-> "loge", guid, seq, tail, len, descs, body]                   *)
(*   [sig |-> "more", seq, rest]    descriptors past the first sector       *)
(*   [sig |-> "data", seq, rest]                                           *)
(*   [sig |-> "none"]                                                      *)
(* where `body` is what the checksum of the entry covers besides its first *)
(* sector: checksums are taken to be free of collisions.                   *)
(***************************************************************************)
EXTENDS Integers, Sequences, FiniteSets

CONSTANTS
  RingSize,     \* sectors of the log region
  FileSize,     \* sectors of the file a log entry may describe
  PerSector,    \* descriptors that fit a sector; the entry header takes two
  MaxOverlay    \* maxOverlaySectors

ASSUME RingAssumption == RingSize \in Nat \ {0} /\ FileSize \in Nat \ {0}
ASSUME PerSectorAssumption == PerSector \in Nat /\ PerSector > 2
ASSUME OverlayAssumption == MaxOverlay \in Nat

Ring    == 0..(RingSize - 1)
Sectors == 0..(FileSize - 1)
NoGuid  == 0
Absent  == <<-1, -1>>     \* a file sector beyond the end of the file
Zeroes  == <<0, 0>>

\* Mutant: an entry that reaches the end of the region is not continued at its start.
AtUnwrapped(ring, off) == IF off < RingSize THEN ring[off] ELSE [sig |-> "none"]

\* The region is read as a circle.
At(ring, off) == ring[off % RingSize]

SmallerOf(a, b) == IF a < b THEN a ELSE b
LargerOf(a, b)  == IF a > b THEN a ELSE b

\* The sectors an entry's header and descriptors take; its data starts after them.
HeadSectors(n) == (2 + n + PerSector - 1) \div PerSector

\* Mutant: the checksum is not compared.
IsEntryUnchecked(ring, off, guid) ==
  LET h == At(ring, off)
  IN  h.sig = "loge" /\ h.len \in 1..RingSize /\ h.guid = guid /\ h.seq # 0 /\ h.tail < RingSize

\* Mutant: an entry of any earlier log counts as one of this log.
IsEntryAnyGuid(ring, off, guid) ==
  LET h == At(ring, off)
  IN  /\ h.sig = "loge" /\ h.len \in 1..RingSize
      /\ \A k \in 1..(h.len - 1) : At(ring, off + k) = h.body[k]
      /\ h.seq # 0 /\ HeadSectors(Len(h.descs)) <= h.len /\ h.tail < RingSize

\* readEntry: whether a valid entry of this log begins at off.
IsEntry(ring, off, guid) ==
  LET h == At(ring, off)
  IN  /\ h.sig = "loge"
      /\ h.len \in 1..RingSize
      /\ \A k \in 1..(h.len - 1) : At(ring, off + k) = h.body[k]
      /\ h.guid = guid
      /\ h.seq # 0
      /\ HeadSectors(Len(h.descs)) <= h.len
      /\ h.tail < RingSize

-----------------------------------------------------------------------------
(* What one entry writes.                                                   *)

\* A descriptor is [kind, at, len, seq, lead]: "zero" clears the run of len
\* sectors from at; "desc" takes the entry's next data sector, whose displaced
\* first byte is lead.
DataIndex(descs, i) == Cardinality({j \in 1..(i - 1) : descs[j].kind = "desc"})
DataSector(ring, off, i) ==
  LET h == At(ring, off) IN At(ring, off + HeadSectors(Len(h.descs)) + DataIndex(h.descs, i))

\* Whether descriptor i of the entry can be applied: it repeats the sequence
\* number, and so does its data sector, which lies inside the entry.
Applies(ring, off, i) ==
  LET h == At(ring, off)
      d == h.descs[i]
      s == DataSector(ring, off, i)
  IN  /\ d.seq = h.seq
      /\ d.kind = "desc" =>
           /\ HeadSectors(Len(h.descs)) + DataIndex(h.descs, i) < h.len
           /\ s.sig = "data" /\ s.seq = h.seq

\* Mutant: a run of zeroes is one sector too long.
TargetOneMore(d) == IF d.kind = "zero" THEN d.at..(d.at + d.len) ELSE {d.at}

\* The sectors a descriptor writes.
Target(d) == IF d.kind = "zero" THEN d.at..(d.at + d.len - 1) ELSE {d.at}

\* Mutant: the bytes the writer displaced are not put back.
RestoredAsLogged(ring, off, i) ==
  IF At(ring, off).descs[i].kind = "zero" THEN Zeroes
  ELSE <<0, DataSector(ring, off, i).rest>>

\* The sector a descriptor stands for: the displaced byte is put back.
Restored(ring, off, i) ==
  IF At(ring, off).descs[i].kind = "zero" THEN Zeroes
  ELSE <<At(ring, off).descs[i].lead, DataSector(ring, off, i).rest>>

-----------------------------------------------------------------------------
(* Analyze.                                                                 *)

\* The entry with the highest sequence number.
Newest(ring, guid) ==
  CHOOSE off \in Ring : /\ IsEntry(ring, off, guid)
                        /\ \A o \in Ring : IsEntry(ring, o, guid) => At(ring, o).seq <= At(ring, off).seq

\* Mutant: the walk starts at the newest entry itself.
CollectSequenceNewestOnly(ring, guid) == <<Newest(ring, guid)>>

\* collectSequence: the offsets of the entries from the newest one's tail to
\* itself, consecutively numbered; a broken sequence is <<-1>>.
CollectSequence(ring, guid) ==
  LET newest == At(ring, Newest(ring, guid))
      nth[k \in 0..RingSize] ==
        IF k = 0 THEN newest.tail
        ELSE IF IsEntry(ring, nth[k - 1], guid) THEN (nth[k - 1] + At(ring, nth[k - 1]).len) % RingSize
        ELSE nth[k - 1]
      InTurn(k) == IsEntry(ring, nth[k], guid) /\ At(ring, nth[k]).seq = At(ring, newest.tail).seq + k
      ends == {k \in 0..RingSize : (\A j \in 0..k : InTurn(j)) /\ At(ring, nth[k]).seq = newest.seq}
  IN  IF ends = {} THEN <<-1>>
      ELSE [k \in 1..(1 + CHOOSE e \in ends : TRUE) |-> nth[k - 1]]

Nothing == [s \in {} |-> Zeroes]
Refused == [ok |-> FALSE, over |-> Nothing]

\* The descriptors of a chain of entries, as <<place in the chain, descriptor>>.
Writes(ring, chain) == UNION {{<<k, i>> : i \in DOMAIN At(ring, chain[k]).descs} : k \in DOMAIN chain}
WriteTarget(ring, chain, x) == Target(At(ring, chain[x[1]]).descs[x[2]])

\* Mutant: what was logged first stays.
ReplayFirstWins(ring, chain) ==
  LET all == Writes(ring, chain)
      hits(s) == {x \in all : s \in WriteTarget(ring, chain, x)}
      later(x, y) == (x[1] > y[1]) \/ (x[1] = y[1] /\ x[2] >= y[2])
      first(s) == CHOOSE x \in hits(s) : \A y \in hits(s) : later(y, x)
  IN  [s \in UNION {WriteTarget(ring, chain, x) : x \in all} |->
         Restored(ring, chain[first(s)[1]], first(s)[2])]

\* The sectors the entries of a chain write when applied in order (apply): where
\* several descriptors name a sector the last one counts.
Replay(ring, chain) ==
  LET all == Writes(ring, chain)
      hits(s) == {x \in all : s \in WriteTarget(ring, chain, x)}
      later(x, y) == (x[1] > y[1]) \/ (x[1] = y[1] /\ x[2] >= y[2])
      last(s) == CHOOSE x \in hits(s) : \A y \in hits(s) : later(x, y)
  IN  [s \in UNION {WriteTarget(ring, chain, x) : x \in all} |->
         Restored(ring, chain[last(s)[1]], last(s)[2])]

\* Analyze: the sectors a replay would write, unless the log holds no entry, a
\* broken sequence, a descriptor that does not apply, or too many sectors.
Analyze(ring, guid) ==
  IF ~\E off \in Ring : IsEntry(ring, off, guid) THEN Refused
  ELSE LET chain == CollectSequence(ring, guid)
           sound == /\ chain # <<-1>>
                    /\ \A k \in DOMAIN chain : \A i \in DOMAIN At(ring, chain[k]).descs :
                         Applies(ring, chain[k], i)
       IN  IF sound /\ Cardinality(DOMAIN Replay(ring, chain)) <= MaxOverlay
             THEN [ok |-> TRUE, over |-> Replay(ring, chain)]
             ELSE Refused

-----------------------------------------------------------------------------
(* Reading through the overlay.                                             *)

\* The bytes of a file: two per sector, up to the first absent sector.
FileEnd(file) == 2 * Cardinality({s \in Sectors : \A t \in 0..s : file[t] # Absent})
ByteOf(sector, b) == sector[1 + (b % 2)]

\* Mutant: every byte of a request that meets a replayed sector counts as read.
OverlayReadAll(file, over, at, len) ==
  LET byte(b) == IF b \div 2 \in DOMAIN over THEN ByteOf(over[b \div 2], b)
                 ELSE IF b < FileEnd(file) THEN ByteOf(file[b \div 2], b) ELSE -2
  IN  [n |-> len, err |-> "nil", data |-> [k \in 0..(len - 1) |-> byte(at + k)]]

\* overlayReader.ReadAt: the file answers with a prefix, the replayed sectors
\* are laid over it, and the count grows while they cover what comes next.
OverlayRead(file, over, at, len) ==
  LET end   == at + len
      fromFile == SmallerOf(len, LargerOf(0, FileEnd(file) - at))
      met   == {b \in at..(end - 1) : b \div 2 \in DOMAIN over}
      short == {v \in fromFile..(len - 1) : (at + v) \div 2 \notin DOMAIN over}
      valid == IF met = {} THEN fromFile
               ELSE IF short = {} THEN len
               ELSE CHOOSE v \in short : \A w \in short : v <= w
      byte(b) == IF b \div 2 \in DOMAIN over THEN ByteOf(over[b \div 2], b) ELSE ByteOf(file[b \div 2], b)
  IN  [n |-> valid, err |-> IF valid < len THEN "EOF" ELSE "nil",
       data |-> [k \in 0..(valid - 1) |-> byte(at + k)]]
=============================================================================
