------------------------------ MODULE VhdOpen ------------------------------
(***************************************************************************)
(* What OpenVHD and Probe make of a VHD file: which of the three places a  *)
(* footer may be in they use, what they check before they rely on it, and  *)
(* where the block table says each block is.                               *)
(*                                                                         *)
(* An image is a record                                                    *)
(*   len      its length                                                   *)
(*   at       the footer found at each place: "trailing" (the last         *)
(*            FooterSize bytes), "legacy" (one byte less) and "mirror"     *)
(*   header   the dynamic disk header, and headerAt, where it is           *)
(*   bat      the raw block table                                          *)
(*   cells    what lies after the table, block by block                    *)
(* A footer is [sound, type, next, media]; sound stands for its signature, *)
(* its checksum and its version.  A header is [sound, version, blocks,     *)
(* blockSize, batAt].                                                      *)
(***************************************************************************)
EXTENDS Integers, Sequences

CONSTANTS
  FooterSize,       \* 512: also the size of a sector
  MaxBAT            \* maxBATBytes, in table entries

ASSUME FooterAssumption == FooterSize \in Nat /\ FooterSize > 1 /\ MaxBAT \in Nat

Fixed == 2
Dynamic == 3
Differencing == 4
FixedNext == -1             \* FixedDataOffset
Unallocated == -1           \* VHDUnallocatedBlockMarker

LegacySize == FooterSize - 1
Unreadable == [sound |-> FALSE, type |-> 0, next |-> 0, media |-> 0]

CeilDiv(n, d) == (n + d - 1) \div d

\* parseFooter: what a footer must be to be used at all.
ParseFooter(f) ==
  /\ f.sound
  /\ f.type \in {Fixed, Dynamic, Differencing}
  /\ IF f.type = Fixed THEN f.next = FixedNext ELSE f.next >= FooterSize

If(cond, s) == IF cond THEN <<s>> ELSE <<>>

\* Mutant: the mirror is not tried.
AttemptsTrailingOnly(size) == If(size >= FooterSize, "trailing") \o If(size >= LegacySize, "legacy")

\* Mutant: the mirror, which is at a fixed offset, is tried first.
AttemptsMirrorFirst(size) == <<"mirror", "trailing", "legacy">>

\* The places a footer is looked for, in order.  A size of 0 is an unknown size.
Attempts(size) ==
  If(size >= FooterSize, "trailing") \o If(size >= LegacySize, "legacy")
    \o If(size >= FooterSize \/ size = 0, "mirror")

\* Mutant: a mirror that describes a fixed disk is believed.
UsableAnyMirror(image, s) == ParseFooter(image.at[s])

\* Whether the footer found at a place can be used: a fixed disk has no mirror,
\* so one that seems to be there is part of the disk's data.
Usable(image, s) == ParseFooter(image.at[s]) /\ ~(s = "mirror" /\ image.at[s].type = Fixed)

\* readFooterWithRecovery: the first usable footer and where it was, or "none".
FooterSource(image, size) ==
  LET tried == Attempts(size)
      usable == {i \in DOMAIN tried : Usable(image, tried[i])}
  IN  IF usable = {} THEN "none" ELSE tried[CHOOSE i \in usable : \A j \in usable : i <= j]
FooterBytes(source) == IF source = "legacy" THEN LegacySize ELSE FooterSize

\* Recovered: an open from elsewhere than the trailing footer carries a warning.
Recovered(source) == source \in {"legacy", "mirror"}

\* ReadHeaderAt, of the header at the place the footer names.
HeaderReadable(image, footer) ==
  /\ footer.next = image.headerAt
  /\ image.header.sound /\ image.header.version = 1
  /\ image.header.blockSize # 0 /\ image.header.blockSize % FooterSize = 0

\* validateVHDFixed: the payload and the footer that was read fit the file.
ValidFixed(footer, size, footerBytes) ==
  /\ footer.media > 0
  /\ size > 0 => footer.media + footerBytes <= size

\* validateVHDDynamic: the block table fits the file and covers the disk.
ValidDynamic(footer, h, size) ==
  /\ h.blockSize # 0 /\ footer.media # 0 /\ h.blocks # 0
  /\ h.blocks <= MaxBAT
  /\ h.batAt >= 0
  /\ size > 0 => h.batAt + h.blocks <= size
  /\ h.blocks >= CeilDiv(footer.media, h.blockSize)

\* vhdSectorBitmapSize: a bit per sector in whole sectors, and at least one.
SectorBitmapSize(blockSize) ==
  LET bytes == CeilDiv(blockSize, FooterSize * 8)
  IN  IF bytes = 0 THEN FooterSize ELSE CeilDiv(bytes, FooterSize) * FooterSize

\* Mutant: the bitmap before the data of a block is forgotten.
BlockOffsetNoBitmap(h, raw) == IF raw = Unallocated THEN -1 ELSE raw * FooterSize

\* Where the data of a block starts (ReadBAT of a VHD): -1 if it has none.
BlockOffset(h, raw) == IF raw = Unallocated THEN -1 ELSE raw * FooterSize + SectorBitmapSize(h.blockSize)

Refusal == [ok |-> FALSE, source |-> "none", type |-> 0, media |-> 0, blocks |-> <<>>]

\* OpenVHD: the disk as its users see it, blocks being where each block's data is.
OpenVHD(image, size) ==
  LET source == FooterSource(image, size)
      footer == image.at[source]
      opened(blocks) == [ok |-> TRUE, source |-> source, type |-> footer.type,
                         media |-> footer.media, blocks |-> blocks]
  IN  IF source = "none" THEN Refusal
      ELSE IF footer.type = Fixed
        THEN IF ValidFixed(footer, size, FooterBytes(source)) THEN opened(<<>>) ELSE Refusal
      ELSE IF HeaderReadable(image, footer) /\ ValidDynamic(footer, image.header, size)
        THEN opened([b \in 1..image.header.blocks |-> BlockOffset(image.header, image.bat[b])])
        ELSE Refusal

\* probeVHD: the same footer and header, without the checks of an open.
ProbeVHD(image, size) ==
  LET source == FooterSource(image, size)
      footer == image.at[source]
  IN  IF source = "none" THEN Refusal
      ELSE IF footer.type # Fixed /\ ~HeaderReadable(image, footer) THEN Refusal
      ELSE [Refusal EXCEPT !.ok = TRUE, !.source = source, !.type = footer.type, !.media = footer.media]
=============================================================================
