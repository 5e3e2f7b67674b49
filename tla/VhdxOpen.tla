------------------------------ MODULE VhdxOpen ------------------------------
(***************************************************************************)
(* What openVHDX and Probe make of a VHDX file without a log: which of the *)
(* two region tables they use, which metadata items they accept, and how   *)
(* the block table is laid out and decoded.                                *)
(*                                                                         *)
(* An image is a record                                                    *)
(*   len      its length, in units of half of vhdxRegionAlignment          *)
(*   tables   the two region tables, [sound, regions]: regions is a        *)
(*            sequence of [type, at, size, req]                            *)
(*   meta     what is at each offset: a metadata table, [items, values]    *)
(*   bat      the raw entries at each offset, a sequence of [state, at]    *)
(* An item is [id, at, size, req].                                         *)
(***************************************************************************)
EXTENDS Integers, Sequences, FiniteSets, SequencesExt

CONSTANTS
  ChunkSectors,     \* 2^23: the sectors one bitmap covers
  MinBlock, MaxBlock,
  SectorSizes,      \* the logical sector sizes the format permits: {512, 4096}
  DefaultSector,    \* what is assumed of an image that names none: 512
  MaxItem,          \* maxMetadataItemSize
  MaxEntries        \* maxBATBytes, in table entries

ASSUME LimitsAssumption ==
  /\ {ChunkSectors, MinBlock, MaxBlock, DefaultSector, MaxItem, MaxEntries} \subseteq Nat \ {0}
  /\ SectorSizes \subseteq Nat \ {0}

FixedType == 2
DynamicType == 3
DiffType == 4
Present == 6            \* a bitmap block, or a payload block fully present
Partial == 7            \* a payload block partially present

Align == 2
Known == {"bat", "metadata"}

Up(n, d) == (n + d - 1) \div d

-----------------------------------------------------------------------------
(* Region tables.                                                           *)

Entries(t) == {t.regions[i] : i \in DOMAIN t.regions}

\* Mutant: only regions next to each other in the table are compared.
TableValidInOrder(t, len) ==
  /\ \A i, j \in DOMAIN t.regions : i # j => t.regions[i].type # t.regions[j].type
  /\ \A r \in Entries(t) : r.at > 0 /\ r.at % Align = 0 /\ (len > 0 => r.at + r.size <= len)
  /\ \A i \in 1..(Len(t.regions) - 1) :
       LET r == t.regions[i]  s == t.regions[i + 1]
       IN  r.at + r.size <= s.at \/ s.at + s.size <= r.at

\* validateVHDXRegionTable: one region of a type, each aligned, above the header
\* area and inside the file, and no two of them, known or not, overlapping.
TableValid(t, len) ==
  /\ \A i, j \in DOMAIN t.regions : i # j => t.regions[i].type # t.regions[j].type
  /\ \A r \in Entries(t) : r.at > 0 /\ r.at % Align = 0 /\ (len > 0 => r.at + r.size <= len)
  /\ \A r, s \in Entries(t) :
       r # s /\ r.size > 0 /\ s.size > 0 => r.at + r.size <= s.at \/ s.at + s.size <= r.at

\* Mutant: a table is validated before it is asked what the image needs.
NeedsUnknownIfValid(t) == TableValid(t, 0) /\ \E r \in Entries(t) : r.type \notin Known /\ r.req

\* A region this library does not know and the image cannot be read without.
NeedsUnknown(t) == \E r \in Entries(t) : r.type \notin Known /\ r.req

NoRegion == [at |-> 0, size |-> 0]
Region(t, type) ==
  IF \E r \in Entries(t) : r.type = type THEN CHOOSE r \in Entries(t) : r.type = type ELSE NoRegion

\* loadRegions: "unknown", "bad", or "ok".
LoadRegions(t, len) ==
  IF ~t.sound THEN "bad"
  ELSE IF NeedsUnknown(t) THEN "unknown"
  ELSE IF TableValid(t, len) THEN "ok" ELSE "bad"
Complete(t) == Region(t, "bat").at # 0 /\ Region(t, "metadata").at # 0

\* Mutant: only a table that cannot be read sends an open to the copy.
TableUsedFirstReadable(image, len) == IF image.tables[1].sound THEN 1 ELSE 2

\* Which table an open takes its two pointers from: 0 when it must not go on.
TableUsed(image, len) ==
  LET first == LoadRegions(image.tables[1], len)
      second == LoadRegions(image.tables[2], len)
  IN  IF first = "unknown" THEN 0
      ELSE IF first = "ok" /\ Complete(image.tables[1]) THEN 1
      ELSE IF second = "ok" THEN 2
      ELSE IF second = "unknown" \/ first = "bad" THEN 0 ELSE 1

\* validateVHDXRegions, of the two pointers that came out.
RegionsValid(b, m, len) ==
  /\ \A r \in {b, m} : r.at > 0 /\ r.at % Align = 0 /\ r.size >= 0 /\ (len > 0 => r.at + r.size <= len)
  /\ b.size > 0 /\ m.size > 0 => ~(b.at < m.at + m.size /\ m.at < b.at + b.size)

-----------------------------------------------------------------------------
(* Metadata.                                                                *)

MetadataItems == {"parameters", "size", "logical", "physical", "identifier", "locator"}

\* Mutant: an item that ends past the region is accepted.
ItemValidAnywhere(item, count, size) ==
  IF item.size = 0 THEN item.at = 0 ELSE item.size <= MaxItem /\ item.at >= 1 + count

\* validateEntry: the header and the entries of the table take a unit each.
ItemValid(item, count, size) ==
  IF item.size = 0 THEN item.at = 0
  ELSE /\ item.size <= MaxItem
       /\ item.at >= 1 + count
       /\ size > 0 => item.at + item.size <= size

\* parseParentLocator: the one type that is understood, entries that fit the
\* item, each inside it, and a parent_linkage that is a GUID.
LocatorValid(loc, size) ==
  /\ loc.known
  /\ 1 + Len(loc.entries) <= size
  /\ \A i \in DOMAIN loc.entries :
       /\ loc.entries[i].end <= size
       /\ loc.entries[i].key = "parent_linkage" => loc.entries[i].value # "malformed"

\* The values an item must have to be accepted.
ValueValid(item, values) ==
  /\ item.id = "parameters" => values.blockSize \in MinBlock..MaxBlock
  /\ item.id \in {"logical", "physical"} => values[item.id] \in SectorSizes
  /\ item.id = "locator" => LocatorValid(values.locator, item.size)
  /\ item.id \notin MetadataItems => ~item.req

\* The parent an image names, and the paths it records of it.
Linkage(loc) ==
  LET links == SelectSeq(loc.entries, LAMBDA e : e.key = "parent_linkage")
  IN  IF links = <<>> THEN "none" ELSE Last(links).value
RecordedPaths(loc) ==
  SelectSeq(loc.entries, LAMBDA e : e.key \in {"relative_path", "absolute_win32_path", "volume_path"})

Bad == [ok |-> FALSE, type |-> 0, blockSize |-> 0, size |-> 0, sector |-> 0, parent |-> "none", paths |-> <<>>]

\* Parse: the values of the items that are there, and defaults for the rest.
ParseMetadata(m, size) ==
  LET used == {x \in ToSet(m.items) : x.size # 0}
      has(id) == \E x \in used : x.id = id
  IN  IF /\ m.sound
         /\ size > 0 => Len(m.items) <= size - 1
         /\ \A i \in DOMAIN m.items : ItemValid(m.items[i], Len(m.items), size)
         /\ \A x \in used : ValueValid(x, m.values)
      THEN [ok |-> TRUE,
            type |-> IF ~has("parameters") THEN 0
                     ELSE IF m.values.hasParent THEN DiffType
                     ELSE IF m.values.leaveAllocated THEN FixedType ELSE DynamicType,
            blockSize |-> IF has("parameters") THEN m.values.blockSize ELSE 0,
            size |-> IF has("size") THEN m.values.size ELSE 0,
            sector |-> IF has("logical") THEN m.values.logical ELSE DefaultSector,
            parent |-> IF has("locator") THEN Linkage(m.values.locator) ELSE "none",
            paths |-> IF has("locator") THEN RecordedPaths(m.values.locator) ELSE <<>>]
      ELSE Bad

-----------------------------------------------------------------------------
(* The block table.                                                         *)

ChunkRatio(v) == (ChunkSectors * v.sector) \div v.blockSize

\* Mutant: a last block that is not full is not counted.
BlockCountDown(v) == v.size \div v.blockSize

BlockCount(v) == Up(v.size, v.blockSize)

\* Mutant: every table is counted as one that ends with its last payload block.
EntryCountNoLastBitmap(blocks, ratio, type) == blocks + (blocks - 1) \div ratio

\* VHDXBATEntryCount: a differencing table holds whole chunks, since it must
\* locate the bitmap of the last one; any other ends with its last payload block.
EntryCount(blocks, ratio, type) ==
  IF blocks = 0 \/ ratio = 0 THEN 0
  ELSE IF type = DiffType THEN Up(blocks, ratio) * (ratio + 1)
  ELSE blocks + (blocks - 1) \div ratio

\* Mutant: the bitmap entries between the payload entries are not skipped.
PayloadIndexFlat(b, ratio) == b

\* Where in the table the entries of block b and of the bitmap of chunk c are.
PayloadIndex(b, ratio) == b + b \div ratio
BitmapIndex(c, ratio)  == c * (ratio + 1) + ratio

\* validateVHDXGeometry: what sizes the table, and that its region holds it.
GeometryValid(v, b, len) ==
  /\ v.blockSize # 0 /\ v.size # 0 /\ v.sector # 0
  /\ v.size % v.sector = 0
  /\ ChunkRatio(v) # 0
  /\ LET n == EntryCount(BlockCount(v), ChunkRatio(v), v.type)
     IN  /\ n <= MaxEntries
         /\ b.size > 0 => n <= b.size
         /\ len > 0 => b.at + n <= len

\* readBAT: each block's state and place, and each chunk's bitmap.
ReadBAT(raw, v) ==
  LET blocks == BlockCount(v)
      ratio == ChunkRatio(v)
      total == EntryCount(blocks, ratio, v.type)
      block(e) == [state |-> e.state, at |-> IF e.state \in {Present, Partial} THEN e.at ELSE -1]
      bitmap(i) == IF i < total /\ raw[i + 1].state = Present THEN raw[i + 1].at ELSE -1
  IN  [blocks |-> [b \in 0..(blocks - 1) |-> block(raw[PayloadIndex(b, ratio) + 1])],
       bitmaps |-> [c \in 0..(Up(blocks, ratio) - 1) |-> bitmap(BitmapIndex(c, ratio))]]

-----------------------------------------------------------------------------
NotOpened == [ok |-> FALSE, table |-> 0, meta |-> Bad, bat |-> [blocks |-> <<>>, bitmaps |-> <<>>]]

\* openVHDX, from the region tables on.
OpenVHDX(image, len) ==
  LET used == TableUsed(image, len)
      table == image.tables[used]
      b == Region(table, "bat")
      m == Region(table, "metadata")
      v == ParseMetadata(image.meta[m.at], m.size)
  IN  IF used = 0 THEN NotOpened
      ELSE IF ~(Complete(table) /\ RegionsValid(b, m, len)) THEN NotOpened
      ELSE IF ~v.ok THEN NotOpened
      ELSE IF ~GeometryValid(v, b, len) THEN NotOpened
      ELSE [ok |-> TRUE, table |-> used, meta |-> v, bat |-> ReadBAT(image.bat[b.at], v)]

\* Mutant: a probe reads the second table only when the first cannot be read.
ProbeTableUsedFirst(image, len) ==
  IF image.tables[1].sound THEN 1 ELSE IF image.tables[2].sound THEN 2 ELSE 0

\* probeVHDX takes the first table that is valid and has metadata.
ProbeTableUsed(image, len) ==
  LET good == {t \in 1..2 : /\ image.tables[t].sound /\ TableValid(image.tables[t], len)
                            /\ Region(image.tables[t], "metadata").at # 0}
  IN  IF good = {} THEN 0 ELSE CHOOSE t \in good : \A u \in good : t <= u

\* probeVHDX: the metadata only.
ProbeVHDX(image, len) ==
  LET used == ProbeTableUsed(image, len)
      m == Region(image.tables[used], "metadata")
  IN  IF used = 0 THEN Bad ELSE ParseMetadata(image.meta[m.at], m.size)
=============================================================================
