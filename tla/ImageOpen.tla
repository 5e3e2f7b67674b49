----------------------------- MODULE ImageOpen -----------------------------
(***************************************************************************)
(* An image file over its life: a writer allocates blocks and may stop     *)
(* between any two of its steps, and one copy of a duplicated structure    *)
(* may be damaged.  After every step the image is what an open or a probe  *)
(* may be given.  The library never writes, so both are operators of the   *)
(* image; the writer, which is not part of it, follows the formats: a VHD  *)
(* writer puts a new block over the footer, writes the footer again behind *)
(* it, and only then links the block.                                      *)
(***************************************************************************)
EXTENDS VhdOpen, VhdxOpen

CONSTANTS
  Fresh,      \* the images a writer may start from: [image, disk, known]
  BlocksAt,   \* where the blocks of a VHD begin: after mirror, header and table
  MaxCells    \* bound: blocks appended to a VHD, those a crash orphaned included

ASSUME WriterAssumption ==
  BlocksAt \in Nat /\ BlocksAt >= FooterSize /\ BlocksAt % FooterSize = 0 /\ MaxCells \in Nat

VARIABLES
  image,
  disk,     \* history: what the writer has stored
  known,    \* whether whoever opens the image knows its size
  w,        \* the VHD writer: the block it is adding, if any
  damaged   \* bound: one copy of something is damaged at most

vars == <<image, disk, known, w, damaged>>

-----------------------------------------------------------------------------
(* What is written.                                                         *)

\* A block's cell: a sector of bitmap, and the data.
CellSize(im) == FooterSize + im.header.blockSize
CellAt(im, k) == BlocksAt + CellSize(im) * (k - 1)

\* The table as it is laid out, chunk after chunk: each chunk's payload entries and
\* then its bitmap's; the last chunk is cut short unless the disk is differencing.
Empty == [state |-> 0, at |-> 0]
Chunk(d, c) ==
  LET n == Cardinality(DOMAIN d.blocks)
  IN  [i \in 1..(IF d.type = DiffType \/ (c + 1) * d.ratio < n THEN d.ratio + 1 ELSE n - c * d.ratio) |->
         IF i = d.ratio + 1 THEN d.bitmaps[c]
         ELSE IF c * d.ratio + i - 1 \in DOMAIN d.blocks THEN d.blocks[c * d.ratio + i - 1] ELSE Empty]
Layout(d) ==
  LET last == Cardinality(DOMAIN d.bitmaps) - 1
      wide == d.ratio + 1
  IN  [n \in 1..(last * wide + Len(Chunk(d, last))) |->
         Chunk(d, (n - 1) \div wide)[((n - 1) % wide) + 1]]

\* A VHD, and what its writer has stored in it.
VhdShape(im, d) ==
  /\ im = [head |-> im.head, len |-> im.len, at |-> im.at, header |-> im.header, headerAt |-> im.headerAt,
           bat |-> im.bat, cells |-> im.cells]
  /\ d = [type |-> d.type, size |-> d.size, blocks |-> d.blocks, bitmaps |-> d.bitmaps,
          footer |-> d.footer, conformant |-> d.conformant]
  /\ im.len \in Nat /\ d.size \in Nat /\ d.conformant \in BOOLEAN

\* Every footer is the writer's.  What a fixed disk holds where a mirror would be
\* is not the mirror of a growing one.
FootersSound(im, d) ==
  /\ d.footer = [sound |-> TRUE, type |-> d.type, next |-> d.footer.next, media |-> d.size]
  /\ ParseFooter(d.footer)
  /\ im.at = [place \in {"trailing", "legacy", "mirror"} |-> im.at[place]]
  /\ \A place \in {"trailing", "legacy"} :
       im.at[place] \in {d.footer, Unreadable} /\ (im.at[place].sound => im.len >= FooterBytes(place))
  /\ im.at["mirror"] \in {d.footer, Unreadable} \/ (d.type = Fixed /\ im.at["mirror"].type = Fixed)

FixedSound(im, d) ==
  d.conformant =>
    /\ d.size > 0
    /\ \A place \in {"trailing", "legacy"} : im.at[place].sound => d.size + FooterBytes(place) <= im.len

HeaderSound(im, d) ==
  LET h == im.header IN
  /\ h = [sound |-> h.sound, version |-> h.version, blocks |-> h.blocks, blockSize |-> h.blockSize, batAt |-> h.batAt]
  /\ h.blocks \in Nat /\ h.batAt \in Nat /\ h.blockSize \in Nat \ {0}
  /\ h.blockSize % FooterSize = 0 /\ SectorBitmapSize(h.blockSize) = FooterSize
  /\ d.conformant => /\ HeaderReadable(im, d.footer) /\ ValidDynamic(d.footer, h, 0)
                     /\ h.batAt + h.blocks <= BlocksAt

\* The blocks lie behind the table and below the end of the file, each one that
\* is linked in a cell of its own.
BlocksSound(im, d) ==
  LET blocks == 1..im.header.blocks IN
  /\ im.cells \in Seq(blocks) /\ im.len >= CellAt(im, Len(im.cells) + 1)
  /\ im.bat \in [blocks -> Int] /\ d.blocks \in [blocks -> Nat]
  /\ \A b \in blocks :
       \/ d.blocks[b] = 0 /\ im.bat[b] = Unallocated
       \/ /\ d.blocks[b] = b
          /\ \E k \in DOMAIN im.cells : im.cells[k] = b /\ im.bat[b] * FooterSize = CellAt(im, k)

VhdSound(im, d) ==
  /\ VhdShape(im, d) /\ FootersSound(im, d)
  /\ IF d.type = Fixed THEN FixedSound(im, d) ELSE HeaderSound(im, d) /\ BlocksSound(im, d)

\* What can be made out of a VHDX when both its tables can be read.
Conformant(im) ==
  \A t \in 1..2 :
    LET table == im.tables[t]
        b == Region(table, "bat")
        m == Region(table, "metadata")
        v == ParseMetadata(im.meta[m.at], m.size)
    IN  /\ ~NeedsUnknown(table) /\ TableValid(table, im.len) /\ Complete(table)
        /\ RegionsValid(b, m, im.len) /\ v.ok /\ GeometryValid(v, b, im.len)

\* A VHDX, and what its writer has stored in it, len being the length an open
\* knows it to have.
VhdxShape(im, d) ==
  /\ im = [head |-> im.head, len |-> im.len, tables |-> im.tables, meta |-> im.meta, bat |-> im.bat]
  /\ d = [type |-> d.type, size |-> d.size, blocks |-> d.blocks, bitmaps |-> d.bitmaps, ratio |-> d.ratio,
          batAt |-> d.batAt, metaAt |-> d.metaAt, conformant |-> d.conformant]
  /\ im.len \in Nat \ {0} /\ d.size \in Nat /\ d.conformant \in BOOLEAN /\ (d.conformant => Conformant(im))
  /\ d.metaAt \in DOMAIN im.meta /\ d.batAt \in DOMAIN im.bat

\* A table whose two pointers can be used names the disk's own structures.
TablesSound(im, d, len) ==
  /\ im.tables = <<im.tables[1], im.tables[2]>>
  /\ \A t \in 1..2 : LET table == im.tables[t] IN
       /\ table = [sound |-> table.sound, regions |-> table.regions] /\ table.sound \in BOOLEAN
       /\ \A r \in Entries(table) : r.at \in Nat /\ r.size \in Nat \ {0} /\ r.req \in BOOLEAN
       /\ Complete(table) /\ RegionsValid(Region(table, "bat"), Region(table, "metadata"), len) =>
            Region(table, "bat").at = d.batAt /\ Region(table, "metadata").at = d.metaAt

\* The metadata, where its values are acceptable, has the disk's.
MetadataSound(im, d) ==
  LET items == im.meta[d.metaAt].items
      v == im.meta[d.metaAt].values
  IN
  /\ items \in Seq(ToSet(items))
  /\ \A x \in ToSet(items) : x.at \in Nat /\ x.size \in Nat /\ x.req \in BOOLEAN
  /\ v.size = d.size /\ v.blockSize \in Nat /\ v.logical \in Nat
  /\ d.type = IF v.hasParent THEN DiffType ELSE IF v.leaveAllocated THEN FixedType ELSE DynamicType
  /\ (\A x \in ToSet(items) : x.id = "logical" => x.size = 0) => v.logical = DefaultSector
  /\ v.blockSize \in MinBlock..MaxBlock /\ v.logical \in SectorSizes \cup {DefaultSector} =>
       /\ d.ratio = (ChunkSectors * v.logical) \div v.blockSize
       /\ DOMAIN d.blocks = 0..(Up(d.size, v.blockSize) - 1)
       /\ DOMAIN d.bitmaps = 0..(Up(Up(d.size, v.blockSize), d.ratio) - 1)

\* The block table is the one that is laid out for what is stored.
TableSound(im, d) ==
  LET n == Cardinality(DOMAIN d.blocks) IN
  /\ im.bat[d.batAt] = Layout(d)
  /\ d.ratio \in Nat \ {0} /\ IsFiniteSet(DOMAIN d.blocks)
  /\ DOMAIN d.blocks = 0..(n - 1) /\ DOMAIN d.bitmaps = 0..(Up(n, d.ratio) - 1)
  /\ d.blocks = [b \in DOMAIN d.blocks |-> d.blocks[b]]
  /\ \A b \in DOMAIN d.blocks : d.blocks[b] \in [state : Nat, at : Nat]
  /\ d.bitmaps = [c \in DOMAIN d.bitmaps |-> d.bitmaps[c]]
  /\ \A c \in DOMAIN d.bitmaps : d.bitmaps[c] \in {Empty} \cup [state : {Present}, at : Nat]
  /\ d.type # DiffType => \A c \in DOMAIN d.bitmaps : d.bitmaps[c] = Empty

VhdxSound(im, d, len) ==
  VhdxShape(im, d) /\ TablesSound(im, d, len) /\ MetadataSound(im, d) /\ TableSound(im, d)

\* What a writer starts from is an image and what is in it, with nothing broken
\* that the library could not tell.
ASSUME FreshAssumption ==
  \A x \in Fresh :
    /\ x.known \in BOOLEAN
    /\ IF x.image.head = "vhdxfile" THEN VhdxSound(x.image, x.disk, IF x.known THEN x.image.len ELSE 0)
       ELSE VhdSound(x.image, x.disk)
-----------------------------------------------------------------------------
Size == IF known THEN image.len ELSE 0

\* detectFormat, and the open it leads to.
IsVHDX == image.head = "vhdxfile"
Opened == IF IsVHDX THEN OpenVHDX(image, Size) ELSE OpenVHD(image, Size)
Probed == IF IsVHDX THEN ProbeVHDX(image, Size) ELSE ProbeVHD(image, Size)

Idle == [pc |-> "idle", block |-> 0]
Init ==
  /\ \E x \in Fresh : image = x.image /\ disk = x.disk /\ known = x.known
  /\ w = Idle /\ damaged = FALSE

-----------------------------------------------------------------------------
(* The writer of a dynamic or differencing VHD.                             *)

GrowsVHD == ~IsVHDX /\ disk.type # Fixed
TailIntact == image.at["trailing"].sound

\* A block is written where the footer was.
AppendBlock(b) ==
  /\ GrowsVHD /\ w.pc = "idle" /\ TailIntact /\ disk.blocks[b] = 0
  /\ Len(image.cells) < MaxCells
  /\ image' = [image EXCEPT !.cells = Append(@, b),
                            !.len = CellAt(image, Len(image.cells) + 2),
                            !.at["trailing"] = Unreadable, !.at["legacy"] = Unreadable]
  /\ w' = [pc |-> "footer", block |-> b]
  /\ UNCHANGED <<disk, known, damaged>>

\* The footer follows, all but its last byte at first.
TearFooter ==
  /\ GrowsVHD /\ w.pc = "footer" /\ ~TailIntact /\ ~image.at["legacy"].sound
  /\ image' = [image EXCEPT !.len = @ + LegacySize, !.at["legacy"] = disk.footer]
  /\ UNCHANGED <<disk, known, w, damaged>>
WriteFooter ==
  /\ GrowsVHD /\ w.pc = "footer" /\ image.at["legacy"].sound
  /\ image' = [image EXCEPT !.len = @ + 1, !.at["trailing"] = disk.footer, !.at["legacy"] = Unreadable]
  /\ w' = [w EXCEPT !.pc = IF w.block = 0 THEN "idle" ELSE "link"]
  /\ UNCHANGED <<disk, known, damaged>>

\* With the footer in place the block table names the block.
LinkBlock ==
  /\ GrowsVHD /\ w.pc = "link"
  /\ image' = [image EXCEPT !.bat[w.block] = CellAt(image, Len(image.cells)) \div FooterSize]
  /\ disk' = [disk EXCEPT !.blocks[w.block] = w.block]
  /\ w' = Idle
  /\ UNCHANGED <<known, damaged>>

\* The writer stops; the next one repairs the end of the file first, rewriting
\* whatever is behind the last block.
Crash ==
  /\ w.pc # "idle"
  /\ w' = Idle
  /\ UNCHANGED <<image, disk, known, damaged>>
Repair ==
  /\ GrowsVHD /\ w.pc = "idle" /\ ~TailIntact /\ OpenVHD(image, image.len).ok
  /\ image' = [image EXCEPT !.len = CellAt(image, Len(image.cells) + 1), !.at["legacy"] = Unreadable]
  /\ w' = [pc |-> "footer", block |-> 0]
  /\ UNCHANGED <<disk, known, damaged>>

DamageFooter(place) ==
  /\ ~IsVHDX /\ ~damaged /\ image.at[place].sound
  /\ image' = [image EXCEPT !.at[place] = Unreadable]
  /\ damaged' = TRUE
  /\ UNCHANGED <<disk, known, w>>

-----------------------------------------------------------------------------
(* The writer of a VHDX.                                                    *)

Stored(d) == [image.bat EXCEPT ![d.batAt] = Layout(d)]

\* A block is given a place and a state; blocks are told apart by their place.
WriteBlock(b, state) ==
  /\ IsVHDX /\ disk.blocks[b] = Empty
  /\ LET d == [disk EXCEPT !.blocks[b] = [state |-> state, at |-> 1 + b]] IN
     /\ disk' = d
     /\ image' = [image EXCEPT !.bat = Stored(d)]
  /\ UNCHANGED <<known, w, damaged>>

WriteBitmap(c) ==
  /\ IsVHDX /\ disk.type = DiffType /\ disk.bitmaps[c] = Empty
  /\ LET d == [disk EXCEPT !.bitmaps[c] = [state |-> Present, at |-> 10 + c]] IN
     /\ disk' = d
     /\ image' = [image EXCEPT !.bat = Stored(d)]
  /\ UNCHANGED <<known, w, damaged>>

DamageTable(t) ==
  /\ IsVHDX /\ ~damaged /\ image.tables[t].sound
  /\ image' = [image EXCEPT !.tables[t].sound = FALSE]
  /\ damaged' = TRUE
  /\ UNCHANGED <<disk, known, w>>

Next ==
  \/ \E b \in DOMAIN disk.blocks : AppendBlock(b)
  \/ TearFooter \/ WriteFooter \/ LinkBlock \/ Crash \/ Repair
  \/ \E place \in {"trailing", "legacy", "mirror"} : DamageFooter(place)
  \/ \E b \in DOMAIN disk.blocks, state \in {2, Present, Partial} : WriteBlock(b, state)
  \/ \E c \in DOMAIN disk.bitmaps : WriteBitmap(c)
  \/ \E t \in 1..2 : DamageTable(t)

Spec == Init /\ [][Next]_vars
-----------------------------------------------------------------------------
\* What a user of the opened disk finds in a VHD block: the block whose cell the
\* data is in, 0 for none, and -1 for a place that is the data of no block.
CellOf(at) ==
  IF at = -1 THEN 0
  ELSE LET k == (at - BlocksAt) \div CellSize(image) + 1
       IN  IF at = CellAt(image, k) + FooterSize /\ k \in DOMAIN image.cells
           THEN image.cells[k] ELSE -1

\* The type of every variable, and of what an open returns.
TypeOK ==
  /\ known \in BOOLEAN /\ damaged \in BOOLEAN
  /\ w.pc \in {"idle", "footer", "link"} /\ w.block \in {0} \cup DOMAIN disk.blocks
  /\ image.len \in Nat
  /\ IF IsVHDX
     THEN Opened.ok => /\ DOMAIN Opened.bat.blocks = DOMAIN disk.blocks
                       /\ DOMAIN Opened.bat.bitmaps = DOMAIN disk.bitmaps
     ELSE Opened.ok => \A b \in DOMAIN Opened.blocks : Opened.blocks[b] \in -1..image.len

\* An image that opens presents what its writer stored: its type and size, each
\* block found where it was put whatever chunk it is in, each bitmap that of its
\* own chunk, and a block that was being added when the writer stopped not there
\* (bat_parser.go: the interleaving; footer_parser.go: a fixed disk has no mirror).
OpensAsWritten ==
  Opened.ok =>
    IF IsVHDX
    THEN /\ Opened.meta.type = disk.type /\ Opened.meta.size = disk.size
         /\ \A b \in DOMAIN disk.blocks :
              /\ Opened.bat.blocks[b].state = disk.blocks[b].state
              /\ Opened.bat.blocks[b].at = IF disk.blocks[b].state \in {Present, Partial} THEN disk.blocks[b].at ELSE -1
         /\ \A c \in DOMAIN disk.bitmaps :
              Opened.bat.bitmaps[c] = IF disk.bitmaps[c] = Empty THEN -1 ELSE disk.bitmaps[c].at
    ELSE /\ Opened.type = disk.type /\ Opened.media = disk.size
         /\ disk.type # Fixed => \A b \in DOMAIN disk.blocks : CellOf(Opened.blocks[b]) = disk.blocks[b]

\* One readable copy of what is stored twice is enough: an image whose only fault
\* is that the writer stopped, or that one copy is damaged, opens.
OneCopyIsEnough ==
  disk.conformant =>
    IF IsVHDX THEN image.tables[1].sound \/ image.tables[2].sound => Opened.ok
    ELSE (\E place \in (IF known THEN {"trailing", "legacy"} ELSE {})
                          \cup (IF disk.type = Fixed THEN {} ELSE {"mirror"}) : image.at[place].sound)
         => Opened.ok

\* An image opened from a copy says so, and one read intact does not (footer_parser.go:
\* a caller acquiring evidence needs to know the image was recovered).
SaysWhenRecovered ==
  ~IsVHDX /\ Opened.ok => (Recovered(Opened.source) <=> ~(known /\ TailIntact))

\* No open goes on past a structure the image needs and the library does not
\* know: not in a table it read, even one with other faults, nor among the items.
NothingRequiredIgnored ==
  IsVHDX /\ Opened.ok =>
    /\ \A t \in 1..Opened.table : image.tables[t].sound =>
         \A i \in DOMAIN image.tables[t].regions :
           image.tables[t].regions[i].req => image.tables[t].regions[i].type \in Known
    /\ \A x \in ToSet(image.meta[disk.metaAt].items) : x.req /\ x.size # 0 => x.id \in MetadataItems

\* Nothing an open relies on lies where something else does: the regions of the
\* table it used, known or not, are apart, below the end of the file and past the
\* headers; the block table fits its region, and the items theirs.
Units(r) == r.at..(r.at + r.size - 1)
StructuresApart ==
  IsVHDX /\ known /\ Opened.ok =>
    LET table == image.tables[Opened.table]
        regions == ToSet(table.regions)
        meta == CHOOSE r \in regions : r.type = "metadata"
        bat == CHOOSE r \in regions : r.type = "bat"
    IN  /\ \A r, s \in regions : r # s => Units(r) \cap Units(s) = {}
        /\ \A r \in regions : Units(r) \subseteq Align..(image.len - 1)
        /\ Len(image.bat[bat.at]) <= bat.size
        /\ \A x \in ToSet(image.meta[meta.at].items) :
             Units(x) \subseteq (Len(image.meta[meta.at].items) + 1)..(meta.size - 1)

\* A probe reports of an image that opens what the open reports: type, size and
\* parent, from whichever copies are left (probe.go: enough to build a chain tree).
\* Without a log, and for tables that name the same metadata where both can be used.
MetadataNamed ==
  {Region(image.tables[t], "metadata") :
     t \in {u \in 1..2 : image.tables[u].sound /\ TableValid(image.tables[u], Size)}}
ProbeSeesTheSameDisk ==
  Opened.ok =>
    IF IsVHDX
    THEN (\A r, s \in MetadataNamed : r.at # 0 /\ s.at # 0 => r.at = s.at /\ r.size = s.size)
           => Probed = Opened.meta
    ELSE Probed = [Opened EXCEPT !.blocks = <<>>]
=============================================================================
