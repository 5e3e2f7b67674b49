----------------------------- MODULE DiskImage -----------------------------
(***************************************************************************)
(* One open VHD or VHDX image, as the read path and the extent map see it  *)
(* after a successful open: the decoded block allocation table, the sector *)
(* bitmaps and the length of the file.  An image never changes once open.  *)
(*                                                                         *)
(* An image is a record with the fields                                    *)
(*   fmt     "VHD" or "VHDX"                                               *)
(*   kind    "fixed", "dynamic" or "diff"                                  *)
(*   bs, ss  bytes per block, bytes per sector of the sector bitmap        *)
(*   state   block index -> payload block state (types.BlockState)         *)
(*   bitmap  bitmap index -> the set of bit positions that are set; {} when*)
(*           the file has no such bitmap, which every reader treats alike  *)
(*   at      block index -> file offset of the block's payload             *)
(*   fsize   length of the file; payload at or beyond it cannot be read    *)
(*                                                                         *)
(* A VHD block allocation table only says whether a block is allocated:    *)
(* that is state 6 here, and state 0 when it is not.                       *)
(***************************************************************************)
EXTENDS Integers

CONSTANTS
  Size,         \* virtual size in bytes; SetParent makes it one per chain
  ChunkRatio    \* payload blocks that share one VHDX sector bitmap

ASSUME SizeAssumption       == Size \in Nat \ {0}
ASSUME ChunkRatioAssumption == ChunkRatio \in Nat \ {0}

\* PAYLOAD_BLOCK_NOT_PRESENT, UNDEFINED, ZERO, UNMAPPED, FULLY, PARTIALLY_PRESENT
None      == 0
Undefined == 1
Zero      == 2
Unmapped  == 3
Full      == 6
Partial   == 7
BlockStates == {None, Undefined, Zero, Unmapped, Full, Partial}

Blocks(im) == DOMAIN im.state

\* What a successful open has checked of an image: its blocks cover the device,
\* a table entry is one of the states, and data lies at an offset of the file.
WellFormed(im) ==
  /\ im.fmt \in {"VHD", "VHDX"} /\ im.kind \in {"fixed", "dynamic", "diff"}
  /\ im.bs \in Nat \ {0} /\ im.ss \in Nat \ {0} /\ im.fsize \in Nat
  /\ \A v \in 0..(Size - 1) :
       /\ im.state[v \div im.bs] \in (IF im.fmt = "VHD" THEN {None, Full} ELSE BlockStates)
       /\ im.at[v \div im.bs] \in Nat

\* The block a virtual offset falls in, and where in that block it falls.
BlockIndex(im, v)    == v \div im.bs
OffsetInBlock(im, v) == v % im.bs
BlockEnd(im, v)      == (BlockIndex(im, v) + 1) * im.bs

\* The sector of its block, and the first virtual offset past that sector.
SectorIndex(im, v) == OffsetInBlock(im, v) \div im.ss
SectorEnd(im, v)   == BlockIndex(im, v) * im.bs + (SectorIndex(im, v) + 1) * im.ss

IsAllocated(im, b) == im.state[b] \in {Full, Partial}

\* One VHD bitmap per block; one VHDX bitmap per chunk of ChunkRatio blocks.
BitmapIndex(im, b) == IF im.fmt = "VHD" THEN b ELSE b \div ChunkRatio

\* Mutant: every block's bits start at the front of its bitmap.
BitPosFrontOfChunk(im, b, s) == s

BitPos(im, b, s) ==
  IF im.fmt = "VHD" THEN s ELSE (b % ChunkRatio) * (im.bs \div im.ss) + s

Present(im, b, s) == BitPos(im, b, s) \in im.bitmap[BitmapIndex(im, b)]

\* Where the bytes of a differencing image's block live.
Classify(im, b) ==
  IF im.fmt = "VHD"
    THEN IF IsAllocated(im, b) THEN "perSector" ELSE "parent"
    ELSE CASE im.state[b] = Full    -> "child"
           [] im.state[b] = Partial -> "perSector"
           [] im.state[b] = None    -> "parent"
           [] OTHER                 -> "zero"

\* Whether the image's own file holds the byte at v of an allocated block: a
\* partially present VHDX block holds only the sectors its bitmap names.
HasPayload(im, v) ==
  LET b == BlockIndex(im, v)
  IN  /\ IsAllocated(im, b)
      /\ (im.fmt = "VHDX" /\ im.state[b] = Partial) => Present(im, b, SectorIndex(im, v))

FileOffset(im, v) ==
  IF im.kind = "fixed" THEN v ELSE im.at[BlockIndex(im, v)] + OffsetInBlock(im, v)

-----------------------------------------------------------------------------
(* What the images of a chain promise, one byte at a time and with no loop: *)
(* the reference the read path and the extent map are checked against.      *)

\* Who answers for the byte at v of one image: its file, nobody (zeroes), or
\* the image below.  Only a differencing image ever leaves a byte to its parent.
Supplier(im, v) ==
  LET b  == v \div im.bs
      st == im.state[b]
      s  == (v % im.bs) \div im.ss
      bit == IF im.fmt = "VHD" THEN s \in im.bitmap[b]
             ELSE ((b % ChunkRatio) * (im.bs \div im.ss) + s) \in im.bitmap[b \div ChunkRatio]
      held == \/ im.kind = "fixed"
              \/ im.fmt = "VHD"  /\ st # None /\ (im.kind = "diff" => bit)
              \/ im.fmt = "VHDX" /\ (st = Full \/ (st = Partial /\ bit))
      zeroed == im.fmt = "VHDX" /\ st \notin {None, Full, Partial}
  IN  IF held THEN "file"
      ELSE IF im.kind = "diff" /\ ~zeroed THEN "parent"
      ELSE "zero"

\* The least chain position at or after i whose image does not pass v on, in a
\* chain whose first last + 1 images are attached; last + 1 when all pass it on.
Nearest(img, i, last, v) ==
  IF \E j \in i..last : Supplier(img[j], v) # "parent"
    THEN CHOOSE j \in i..last :
           /\ Supplier(img[j], v) # "parent"
           /\ \A k \in i..(j - 1) : Supplier(img[k], v) = "parent"
    ELSE last + 1

\* The byte at v: a byte of the nearest image's file, a zero, "missing" when
\* that file is cut short, "unresolved" when every attached image passes it on.
Content(img, i, last, v) ==
  LET j == Nearest(img, i, last, v)
  IN  IF j > last THEN [by |-> "unresolved"]
      ELSE IF Supplier(img[j], v) = "zero" THEN [by |-> "zero"]
      ELSE LET f == IF img[j].kind = "fixed" THEN v
                    ELSE img[j].at[v \div img[j].bs] + (v % img[j].bs)
           IN  IF f < img[j].fsize THEN [by |-> "file", disk |-> j, off |-> f]
               ELSE [by |-> "missing"]
=============================================================================
