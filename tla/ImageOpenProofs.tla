-------------------------- MODULE ImageOpenProofs --------------------------
(***************************************************************************)
(* What opens presents what was written.  The argument has two halves.     *)
(* The first follows the writer: VhdSound and VhdxSound, which say what an *)
(* image and the history of its writer have to do with each other, hold at *)
(* the start (FreshAssumption) and every step of a writer, a crash, a      *)
(* repair or one damaged copy keeps them.  The second looks at one state:  *)
(* what the open and the probe make of any image they hold of.             *)
(***************************************************************************)
EXTENDS ImageOpen, IndexLemmas, SequenceTheorems, FiniteSetTheorems

-----------------------------------------------------------------------------
(* Where a footer is found.                                                 *)

LEMMA AttemptsAre ==
  ASSUME NEW size \in Nat
  PROVE  /\ size >= FooterSize => Attempts(size) = <<"trailing", "legacy", "mirror">>
         /\ size = LegacySize => Attempts(size) = <<"legacy">>
         /\ size = 0 => Attempts(size) = <<"mirror">>
         /\ 0 < size /\ size < LegacySize => Attempts(size) = <<>>
<1> DEFINE S == {"trailing", "legacy", "mirror"}
<1>0. <<"trailing">> \in Seq(S) /\ <<"legacy">> \in Seq(S) /\ <<"mirror">> \in Seq(S)
      /\ <<"trailing", "legacy">> \in Seq(S) /\ <<"trailing", "legacy", "mirror">> \in Seq(S)
      /\ <<>> \in Seq(S)
  OBVIOUS
<1>a. <<"trailing">> \o <<"legacy">> = <<"trailing", "legacy">>
  <2> DEFINE s == <<"trailing">> \o <<"legacy">>
  <2>1. s \in Seq(S) /\ Len(s) = 2 /\ s[1] = "trailing" /\ s[2] = "legacy"
    BY <1>0, ConcatProperties
  <2> DEFINE u == <<"trailing", "legacy">>
  <2>2. Len(u) = 2 /\ u[1] = "trailing" /\ u[2] = "legacy"
    OBVIOUS
  <2>3. u \in Seq(S)
    BY <1>0
  <2> HIDE DEF s, u, S
  <2>4. s = u
    BY <2>1, <2>2, <2>3, SeqEqual
  <2> QED
    BY <2>4 DEF s, u
<1>b. <<"trailing", "legacy">> \o <<"mirror">> = <<"trailing", "legacy", "mirror">>
  <2> DEFINE s == <<"trailing", "legacy">> \o <<"mirror">>
  <2>1. s \in Seq(S) /\ Len(s) = 3 /\ s[1] = "trailing" /\ s[2] = "legacy" /\ s[3] = "mirror"
    BY <1>0, ConcatProperties
  <2> DEFINE u == <<"trailing", "legacy", "mirror">>
  <2>2. Len(u) = 3 /\ u[1] = "trailing" /\ u[2] = "legacy" /\ u[3] = "mirror"
    OBVIOUS
  <2>3. u \in Seq(S)
    BY <1>0
  <2> HIDE DEF s, u, S
  <2>4. s = u
    BY <2>1, <2>2, <2>3, SeqEqual
  <2> QED
    BY <2>4 DEF s, u
<1>1. <<"trailing">> \o <<"legacy">> \o <<"mirror">> = <<"trailing", "legacy", "mirror">>
  BY <1>a, <1>b
<1>2. <<>> \o <<"legacy">> = <<"legacy">> /\ <<>> \o <<"mirror">> = <<"mirror">> /\ <<>> \o <<>> = <<>>
      /\ <<"legacy">> \o <<>> = <<"legacy">>
  BY <1>0, ConcatEmptySeq
<1> DEFINE a == If(size >= FooterSize, "trailing")
           b == If(size >= LegacySize, "legacy")
           c == If(size >= FooterSize \/ size = 0, "mirror")
<1>3. Attempts(size) = a \o b \o c
  BY DEF Attempts
<1>4. /\ a = IF size >= FooterSize THEN <<"trailing">> ELSE <<>>
      /\ b = IF size >= LegacySize THEN <<"legacy">> ELSE <<>>
      /\ c = IF size >= FooterSize \/ size = 0 THEN <<"mirror">> ELSE <<>>
  BY DEF If
<1> HIDE DEF a, b, c
<1>5. CASE size >= FooterSize
  <2>1. a = <<"trailing">> /\ b = <<"legacy">> /\ c = <<"mirror">>
    BY <1>4, <1>5, FooterAssumption DEF LegacySize
  <2>2. Attempts(size) = <<"trailing", "legacy", "mirror">>
    BY <1>1, <1>3, <2>1, Zenon
  <2> QED
    BY <1>5, <2>2, FooterAssumption DEF LegacySize
<1>6. CASE size = LegacySize
  <2>1. a = <<>> /\ b = <<"legacy">> /\ c = <<>>
    BY <1>4, <1>6, FooterAssumption DEF LegacySize
  <2> QED
    BY <1>2, <1>3, <1>6, <2>1, FooterAssumption DEF LegacySize
<1>7. CASE size = 0
  <2>1. a = <<>> /\ b = <<>> /\ c = <<"mirror">>
    BY <1>4, <1>7, FooterAssumption DEF LegacySize
  <2> QED
    BY <1>2, <1>3, <1>7, <2>1, FooterAssumption DEF LegacySize
<1>8. CASE 0 < size /\ size < LegacySize
  <2>1. a = <<>> /\ b = <<>> /\ c = <<>>
    BY <1>4, <1>8, FooterAssumption DEF LegacySize
  <2> QED
    BY <1>2, <1>3, <1>8, <2>1, FooterAssumption DEF LegacySize
<1> QED
  BY <1>5, <1>6, <1>7, <1>8

\* The least of a set of places by their order in a sequence of three.
LEMMA FirstOfThree ==
  ASSUME NEW U, U \subseteq {1, 2, 3}, U # {}
  PROVE  (CHOOSE i \in U : \A j \in U : i <= j) = IF 1 \in U THEN 1 ELSE IF 2 \in U THEN 2 ELSE 3
<1> DEFINE first == CHOOSE i \in U : \A j \in U : i <= j
<1>1. \E i \in U : \A j \in U : i <= j
  <2>1. U \in SUBSET Nat
    OBVIOUS
  <2> QED
    BY <2>1, LeastExists
<1>2. first \in U /\ \A j \in U : first <= j
  BY <1>1
<1> HIDE DEF first
<1>3. first = IF 1 \in U THEN 1 ELSE IF 2 \in U THEN 2 ELSE 3
  BY <1>2
<1> QED
  BY <1>3 DEF first

\* readFooterWithRecovery, place by place.
LEMMA SourceIs ==
  ASSUME NEW im, NEW size \in Nat
  PROVE  FooterSource(im, size) =
           IF size >= FooterSize /\ Usable(im, "trailing") THEN "trailing"
           ELSE IF size >= LegacySize /\ Usable(im, "legacy") THEN "legacy"
           ELSE IF (size >= FooterSize \/ size = 0) /\ Usable(im, "mirror") THEN "mirror"
           ELSE "none"
<1> DEFINE tried == Attempts(size)
           U == {i \in DOMAIN tried : Usable(im, tried[i])}
           first == CHOOSE i \in U : \A j \in U : i <= j
<1>1. FooterSource(im, size) = IF U = {} THEN "none" ELSE tried[first]
  BY DEF FooterSource
<1>2. LegacySize \in Nat \ {0} /\ LegacySize + 1 = FooterSize
  BY FooterAssumption DEF LegacySize
<1>3. CASE size >= FooterSize
  <2>1. tried = <<"trailing", "legacy", "mirror">>
    BY <1>3, AttemptsAre
  <2>2. U \subseteq {1, 2, 3} /\ (1 \in U <=> Usable(im, "trailing"))
        /\ (2 \in U <=> Usable(im, "legacy")) /\ (3 \in U <=> Usable(im, "mirror"))
    BY <2>1
  <2>3. U # {} => first = IF 1 \in U THEN 1 ELSE IF 2 \in U THEN 2 ELSE 3
    <3> HIDE DEF U
    <3> QED
      BY <2>2, FirstOfThree
  <2> HIDE DEF U, first
  <2>4. tried[1] = "trailing" /\ tried[2] = "legacy" /\ tried[3] = "mirror"
    BY <2>1
  <2> HIDE DEF tried
  <2> QED
    BY <1>1, <1>2, <1>3, <2>2, <2>3, <2>4, FooterAssumption
<1>4. ASSUME NEW p, tried = <<p>>
      PROVE  FooterSource(im, size) = IF Usable(im, p) THEN p ELSE "none"
  <2>1. U = IF Usable(im, p) THEN {1} ELSE {}
    BY <1>4
  <2>2. U # {} => first = 1
    <3> HIDE DEF U
    <3> QED
      BY <2>1
  <2> HIDE DEF U, first
  <2> QED
    BY <1>1, <1>4, <2>1, <2>2
<1>5. CASE size = LegacySize
  BY <1>2, <1>4, <1>5, AttemptsAre, FooterAssumption
<1>6. CASE size = 0
  BY <1>2, <1>4, <1>6, AttemptsAre, FooterAssumption
<1>7. CASE 0 < size /\ size < LegacySize
  <2>1. tried = <<>>
    BY <1>7, AttemptsAre
  <2>2. U = {}
    BY <2>1
  <2> QED
    BY <1>1, <1>2, <1>7, <2>2, FooterAssumption
<1> QED
  BY <1>2, <1>3, <1>5, <1>6, <1>7, FooterAssumption

-----------------------------------------------------------------------------
(* What the writer of a VHD changes, and what it leaves.                    *)

Places == {"trailing", "legacy", "mirror"}

\* The footers that may be in an image of length len.
FootersOK(at, len, d) ==
  /\ at = [place \in Places |-> at[place]]
  /\ \A place \in {"trailing", "legacy"} :
       at[place] \in {d.footer, Unreadable} /\ (at[place].sound => len >= FooterBytes(place))
  /\ at["mirror"] \in {d.footer, Unreadable} \/ (d.type = Fixed /\ at["mirror"].type = Fixed)

\* The blocks that are linked, and where.
LinksOK(im, stored, bat, cells) ==
  \A b \in 1..im.header.blocks :
    \/ stored[b] = 0 /\ bat[b] = Unallocated
    \/ stored[b] = b /\ \E k \in DOMAIN cells : cells[k] = b /\ bat[b] * FooterSize = CellAt(im, k)

Rewritten(im, len, at, bat, cells) ==
  [head |-> im.head, len |-> len, at |-> at, header |-> im.header, headerAt |-> im.headerAt,
   bat |-> bat, cells |-> cells]
Restored(d, stored) ==
  [type |-> d.type, size |-> d.size, blocks |-> stored, bitmaps |-> d.bitmaps,
   footer |-> d.footer, conformant |-> d.conformant]

LEMMA SoundParts ==
  ASSUME NEW im, NEW d, VhdSound(im, d)
  PROVE  /\ im = Rewritten(im, im.len, im.at, im.bat, im.cells) /\ d = Restored(d, d.blocks)
         /\ im.len \in Nat /\ FootersOK(im.at, im.len, d)
         /\ d.type # Fixed => /\ im.header.blocks \in Nat /\ im.header.blockSize \in Nat \ {0}
                              /\ im.cells \in Seq(1..im.header.blocks)
                              /\ im.len >= CellAt(im, Len(im.cells) + 1)
                              /\ im.bat \in [1..im.header.blocks -> Int]
                              /\ d.blocks \in [1..im.header.blocks -> Nat]
                              /\ LinksOK(im, d.blocks, im.bat, im.cells)
<1>1. VhdShape(im, d) /\ FootersSound(im, d) /\ (d.type # Fixed => HeaderSound(im, d) /\ BlocksSound(im, d))
  BY DEF VhdSound
<1>2. im = Rewritten(im, im.len, im.at, im.bat, im.cells) /\ d = Restored(d, d.blocks) /\ im.len \in Nat
  BY <1>1 DEF VhdShape, Rewritten, Restored
<1>3. FootersOK(im.at, im.len, d)
  BY <1>1 DEF FootersSound, FootersOK, Places
<1>4. ASSUME d.type # Fixed
      PROVE  /\ im.header.blocks \in Nat /\ im.header.blockSize \in Nat \ {0}
             /\ im.cells \in Seq(1..im.header.blocks)
             /\ im.len >= CellAt(im, Len(im.cells) + 1)
             /\ im.bat \in [1..im.header.blocks -> Int]
             /\ d.blocks \in [1..im.header.blocks -> Nat]
             /\ LinksOK(im, d.blocks, im.bat, im.cells)
  <2>1. HeaderSound(im, d) /\ BlocksSound(im, d)
    BY <1>1, <1>4
  <2>2. im.header.blocks \in Nat /\ im.header.blockSize \in Nat \ {0}
    BY <2>1 DEF HeaderSound
  <2> QED
    BY <2>1, <2>2, Zenon DEF BlocksSound, LinksOK
<1> QED
  BY <1>2, <1>3, <1>4

\* An image of the same disk with other footers, blocks and length.
LEMMA SoundAgain ==
  ASSUME NEW im, NEW d, VhdSound(im, d), d.type # Fixed,
         NEW len \in Nat, NEW at, NEW cells \in Seq(1..im.header.blocks),
         NEW bat \in [1..im.header.blocks -> Int], NEW stored \in [1..im.header.blocks -> Nat],
         FootersOK(at, len, d), len >= CellAt(im, Len(cells) + 1), LinksOK(im, stored, bat, cells)
  PROVE  VhdSound(Rewritten(im, len, at, bat, cells), Restored(d, stored))
<1> DEFINE jm == Rewritten(im, len, at, bat, cells)
           e == Restored(d, stored)
<1>1. /\ jm.head = im.head /\ jm.len = len /\ jm.at = at /\ jm.header = im.header
      /\ jm.headerAt = im.headerAt /\ jm.bat = bat /\ jm.cells = cells
      /\ jm = [head |-> jm.head, len |-> jm.len, at |-> jm.at, header |-> jm.header, headerAt |-> jm.headerAt,
               bat |-> jm.bat, cells |-> jm.cells]
  BY DEF Rewritten
<1>2. /\ e.type = d.type /\ e.size = d.size /\ e.blocks = stored /\ e.bitmaps = d.bitmaps
      /\ e.footer = d.footer /\ e.conformant = d.conformant
      /\ e = [type |-> e.type, size |-> e.size, blocks |-> e.blocks, bitmaps |-> e.bitmaps,
              footer |-> e.footer, conformant |-> e.conformant]
  BY DEF Restored
<1> HIDE DEF jm, e
<1>3. VhdShape(im, d) /\ FootersSound(im, d) /\ HeaderSound(im, d)
  BY DEF VhdSound
<1>4. VhdShape(jm, e)
  BY <1>1, <1>2, <1>3 DEF VhdShape
<1>5. FootersSound(jm, e)
  BY <1>1, <1>2, <1>3 DEF FootersSound, FootersOK, Places
<1>6. HeaderSound(jm, e)
  BY <1>1, <1>2, <1>3 DEF HeaderSound, HeaderReadable
<1>7. CellAt(jm, Len(jm.cells) + 1) = CellAt(im, Len(cells) + 1)
      /\ \A k : CellAt(jm, k) = CellAt(im, k)
  BY <1>1, Zenon DEF CellAt, CellSize
<1>8. BlocksSound(jm, e)
  <2>1. \A b \in 1..jm.header.blocks :
          \/ e.blocks[b] = 0 /\ jm.bat[b] = Unallocated
          \/ /\ e.blocks[b] = b
             /\ \E k \in DOMAIN jm.cells : jm.cells[k] = b /\ jm.bat[b] * FooterSize = CellAt(jm, k)
    <3> SUFFICES ASSUME NEW b \in 1..im.header.blocks
                 PROVE  \/ stored[b] = 0 /\ bat[b] = Unallocated
                        \/ /\ stored[b] = b
                           /\ \E k \in DOMAIN cells : cells[k] = b /\ bat[b] * FooterSize = CellAt(jm, k)
      BY <1>1, <1>2, ZenonT(60)
    <3>1. \A k : CellAt(jm, k) = CellAt(im, k)
      BY <1>7
    <3> QED
      BY <3>1, ZenonT(60) DEF LinksOK
  <2>2. jm.cells \in Seq(1..jm.header.blocks) /\ jm.len >= CellAt(jm, Len(jm.cells) + 1)
    BY <1>1, <1>7, Zenon
  <2>3. jm.bat \in [1..jm.header.blocks -> Int] /\ e.blocks \in [1..jm.header.blocks -> Nat]
    BY <1>1, <1>2, Zenon
  <2> QED
    BY <2>1, <2>2, <2>3, Zenon DEF BlocksSound
<1>9. VhdSound(jm, e)
  BY <1>2, <1>4, <1>5, <1>6, <1>8 DEF VhdSound
<1> QED
  BY <1>9 DEF jm, e

\* Cells begin at whole sectors, one behind the other.
LEMMA CellPlaces ==
  ASSUME NEW im, im.header.blockSize \in Nat \ {0}, im.header.blockSize % FooterSize = 0, NEW k \in Nat \ {0}
  PROVE  /\ CellAt(im, k) \in Nat /\ CellSize(im) \in Nat /\ CellSize(im) > FooterSize
         /\ CellAt(im, k) >= BlocksAt
         /\ CellAt(im, k + 1) = CellAt(im, k) + CellSize(im)
         /\ CellAt(im, k) \div FooterSize \in Nat
         /\ (CellAt(im, k) \div FooterSize) * FooterSize = CellAt(im, k)
<1> DEFINE F == FooterSize
           size == im.header.blockSize
<1>1. F \in Nat \ {0} /\ size \in Nat \ {0} /\ BlocksAt \in Nat /\ size % F = 0 /\ BlocksAt % F = 0
  BY FooterAssumption, WriterAssumption
<1>2. CellSize(im) = F + size /\ CellAt(im, k) = BlocksAt + (F + size) * (k - 1)
      /\ CellAt(im, k + 1) = BlocksAt + (F + size) * k
  BY DEF CellAt, CellSize
<1> HIDE DEF F, size
<1>3. size = (size \div F) * F /\ size \div F \in Nat /\ BlocksAt = (BlocksAt \div F) * F /\ BlocksAt \div F \in Nat
  BY <1>1, Division
<1>4. PICK r \in Nat : size = r * F
  BY <1>3
<1>5. PICK q \in Nat : BlocksAt = q * F
  BY <1>3
<1>6. PICK j \in Nat : j = k - 1
  OBVIOUS
<1> DEFINE m == q + (1 + r) * j
<1>7. m \in Nat
  BY <1>6
<1>8. CellAt(im, k) = m * F
  <2>1. (F + size) * j = ((1 + r) * j) * F
    BY <1>1, <1>4
  <2>2. PICK x \in Nat : x = (1 + r) * j
    OBVIOUS
  <2>3. (q + x) * F = q * F + x * F
    BY <1>1
  <2> QED
    BY <1>2, <1>5, <1>6, <2>1, <2>2, <2>3
<1> HIDE DEF m
<1>9. m * F \in Nat /\ m * F < (m + 1) * F
  BY <1>1, <1>7
<1>10. (m * F) \div F = m
  BY <1>1, <1>7, <1>9, DivisionUnique
<1>11. CellAt(im, k + 1) = CellAt(im, k) + CellSize(im)
  <2>1. (F + size) * k = (F + size) * (k - 1) + (F + size)
    BY <1>1
  <2> QED
    BY <1>1, <1>2, <2>1
<1>12. CellAt(im, k) >= BlocksAt
  <2>1. (F + size) * (k - 1) >= 0
    BY <1>1
  <2> QED
    BY <1>1, <1>2, <2>1
<1> QED
  BY <1>1, <1>2, <1>7, <1>8, <1>9, <1>10, <1>11, <1>12, SMTT(30) DEF F

LEMMA HeaderParts ==
  ASSUME NEW im, NEW d, VhdSound(im, d), d.type # Fixed
  PROVE  im.header.blockSize \in Nat \ {0} /\ im.header.blockSize % FooterSize = 0
         /\ SectorBitmapSize(im.header.blockSize) = FooterSize /\ im.header.blocks \in Nat
  BY DEF VhdSound, HeaderSound

\* The block the writer is adding, if any, is the one in the last cell.
Busy(im, x) ==
  /\ x = [pc |-> x.pc, block |-> x.block]
  /\ x.pc \in {"idle", "footer", "link"} /\ x.block \in {0} \cup (1..im.header.blocks)
  /\ x.pc = "idle" => x.block = 0
  /\ x.pc = "link" => x.block # 0
  /\ x.block # 0 => Len(im.cells) # 0 /\ im.cells[Len(im.cells)] = x.block

ImageInv ==
  /\ known \in BOOLEAN /\ damaged \in BOOLEAN
  /\ IF IsVHDX THEN VhdxSound(image, disk, Size) /\ w = Idle
     ELSE VhdSound(image, disk) /\ (IF disk.type = Fixed THEN w = Idle ELSE Busy(image, w))

LEMMA LinksLonger ==
  ASSUME NEW im, NEW stored, NEW bat, NEW cells, NEW more, LinksOK(im, stored, bat, cells),
         DOMAIN cells \subseteq DOMAIN more, \A k \in DOMAIN cells : more[k] = cells[k]
  PROVE  LinksOK(im, stored, bat, more)
<1> SUFFICES ASSUME NEW b \in 1..im.header.blocks,
                    stored[b] = b, NEW k \in DOMAIN cells, cells[k] = b, bat[b] * FooterSize = CellAt(im, k)
             PROVE  \E j \in DOMAIN more : more[j] = b /\ bat[b] * FooterSize = CellAt(im, j)
  BY Zenon DEF LinksOK
<1>1. k \in DOMAIN more /\ more[k] = b
  OBVIOUS
<1> QED
  BY <1>1, Zenon

\* What is known of a growing VHD at each of its writer's steps.
LEMMA GrowingParts ==
  ASSUME ImageInv, GrowsVHD
  PROVE  /\ ~IsVHDX /\ disk.type # Fixed /\ VhdSound(image, disk) /\ Busy(image, w)
         /\ known \in BOOLEAN /\ damaged \in BOOLEAN
         /\ image = Rewritten(image, image.len, image.at, image.bat, image.cells) /\ disk = Restored(disk, disk.blocks)
         /\ image.len \in Nat /\ FootersOK(image.at, image.len, disk)
         /\ image.header.blocks \in Nat /\ image.header.blockSize \in Nat \ {0}
         /\ image.cells \in Seq(1..image.header.blocks) /\ image.len >= CellAt(image, Len(image.cells) + 1)
         /\ image.bat \in [1..image.header.blocks -> Int] /\ disk.blocks \in [1..image.header.blocks -> Nat]
         /\ LinksOK(image, disk.blocks, image.bat, image.cells)
<1>1. ~IsVHDX /\ disk.type # Fixed /\ VhdSound(image, disk) /\ Busy(image, w)
      /\ known \in BOOLEAN /\ damaged \in BOOLEAN
  BY DEF GrowsVHD, ImageInv
<1> QED
  BY <1>1, SoundParts

\* Where the next cell begins.
LEMMA NextCell ==
  ASSUME NEW im, NEW d, VhdSound(im, d), d.type # Fixed, NEW n \in Nat
  PROVE  CellAt(im, n + 1) \in Nat /\ CellAt(im, n + 1) >= BlocksAt /\ CellAt(im, n + 2) \in Nat
<1>1. PICK k \in Nat \ {0} : k = n + 1
  OBVIOUS
<1>2. CellAt(im, k) \in Nat /\ CellAt(im, k) >= BlocksAt
  BY CellPlaces, HeaderParts
<1>3. PICK m \in Nat \ {0} : m = n + 2
  OBVIOUS
<1>4. CellAt(im, m) \in Nat
  BY CellPlaces, HeaderParts
<1> QED
  BY <1>1, <1>2, <1>3, <1>4

LEMMA AppendBlockKeeps ==
  ASSUME ImageInv, NEW b \in DOMAIN disk.blocks, AppendBlock(b) PROVE ImageInv'
<1>1. ~IsVHDX /\ disk.type # Fixed /\ VhdSound(image, disk) /\ Busy(image, w)
      /\ known \in BOOLEAN /\ damaged \in BOOLEAN
  BY GrowingParts DEF AppendBlock
<1>2. /\ image = Rewritten(image, image.len, image.at, image.bat, image.cells) /\ disk = Restored(disk, disk.blocks)
      /\ image.len \in Nat /\ FootersOK(image.at, image.len, disk)
      /\ image.header.blocks \in Nat /\ image.header.blockSize \in Nat \ {0}
      /\ image.cells \in Seq(1..image.header.blocks) /\ image.len >= CellAt(image, Len(image.cells) + 1)
      /\ image.bat \in [1..image.header.blocks -> Int] /\ disk.blocks \in [1..image.header.blocks -> Nat]
      /\ LinksOK(image, disk.blocks, image.bat, image.cells)
  BY GrowingParts DEF AppendBlock
<1>3. b \in 1..image.header.blocks
  BY <1>2
<1> DEFINE at == [place \in Places |-> IF place = "mirror" THEN image.at["mirror"] ELSE Unreadable]
           cells == Append(image.cells, b)
           len == CellAt(image, Len(image.cells) + 2)
<1>4. image' = Rewritten(image, len, at, image.bat, cells) /\ disk' = disk /\ known' = known /\ damaged' = damaged
      /\ w' = [pc |-> "footer", block |-> b]
  <2>1. image' = [image EXCEPT !.cells = cells, !.len = len, !.at["trailing"] = Unreadable, !.at["legacy"] = Unreadable]
    BY DEF AppendBlock
  <2>2. image' = [image EXCEPT !.cells = cells, !.len = len,
                    !.at = [[image.at EXCEPT !["trailing"] = Unreadable] EXCEPT !["legacy"] = Unreadable]]
    BY <1>2, <2>1 DEF Rewritten
  <2>3. [[image.at EXCEPT !["trailing"] = Unreadable] EXCEPT !["legacy"] = Unreadable] = at
    BY <1>2 DEF FootersOK, Places
  <2> HIDE DEF at, cells, len
  <2>4. image' = Rewritten(image, len, at, image.bat, cells)
    BY <1>2, <2>2, <2>3 DEF Rewritten
  <2> QED
    BY <2>4 DEF AppendBlock
<1>5. /\ cells \in Seq(1..image.header.blocks) /\ Len(cells) = Len(image.cells) + 1
      /\ cells[Len(cells)] = b /\ Len(image.cells) \in Nat /\ DOMAIN image.cells \subseteq DOMAIN cells
      /\ \A k \in DOMAIN image.cells : cells[k] = image.cells[k]
  BY <1>2, <1>3, SMTT(30)
<1>6. len \in Nat /\ len >= CellAt(image, Len(cells) + 1)
  <2>1. PICK n \in Nat : n = Len(image.cells)
    BY <1>5
  <2>2. len = CellAt(image, n + 2) /\ CellAt(image, Len(cells) + 1) = CellAt(image, n + 2)
    <3>1. Len(cells) + 1 = n + 2
      BY <1>5, <2>1
    <3> QED
      BY <2>1, <3>1
  <2>3. CellAt(image, n + 2) \in Nat
    BY <1>1, NextCell
  <2> HIDE DEF len
  <2> QED
    BY <2>2, <2>3
<1> HIDE DEF cells, len
<1>7. FootersOK(at, len, disk)
  <2>1. at["trailing"] = Unreadable /\ at["legacy"] = Unreadable /\ at["mirror"] = image.at["mirror"]
        /\ at = [place \in Places |-> at[place]]
    BY DEF Places
  <2>2. Unreadable.sound = FALSE
    BY DEF Unreadable
  <2> HIDE DEF at
  <2> QED
    BY <1>2, <2>1, <2>2 DEF FootersOK
<1>8. LinksOK(image, disk.blocks, image.bat, cells)
  BY <1>2, <1>5, LinksLonger, Zenon
<1> HIDE DEF at
<1>9. VhdSound(image', disk')
  BY <1>1, <1>2, <1>4, <1>5, <1>6, <1>7, <1>8, SoundAgain
<1>10. Busy(image', w')
  BY <1>3, <1>4, <1>5 DEF Busy, Rewritten
<1> QED
  BY <1>1, <1>4, <1>9, <1>10 DEF ImageInv, IsVHDX, Rewritten

\* Only the footers and the length of a growing VHD change.
LEMMA FootersChange ==
  ASSUME ImageInv, GrowsVHD, NEW len \in Nat, NEW at, FootersOK(at, len, disk),
         len >= CellAt(image, Len(image.cells) + 1),
         image' = Rewritten(image, len, at, image.bat, image.cells),
         UNCHANGED <<disk, known>>, damaged' \in BOOLEAN, Busy(image, w')
  PROVE  ImageInv'
<1>1. /\ ~IsVHDX /\ disk.type # Fixed /\ VhdSound(image, disk) /\ known \in BOOLEAN
      /\ disk = Restored(disk, disk.blocks) /\ image.cells \in Seq(1..image.header.blocks)
      /\ image.bat \in [1..image.header.blocks -> Int] /\ disk.blocks \in [1..image.header.blocks -> Nat]
      /\ LinksOK(image, disk.blocks, image.bat, image.cells)
  BY GrowingParts
<1>2. VhdSound(image', disk')
  BY <1>1, SoundAgain
<1>3. Busy(image', w')
  BY DEF Busy, Rewritten
<1> QED
  BY <1>1, <1>2, <1>3 DEF ImageInv, IsVHDX, Rewritten

LEMMA TearFooterKeeps ==
  ASSUME ImageInv, TearFooter PROVE ImageInv'
<1> DEFINE at == [place \in Places |-> IF place = "legacy" THEN disk.footer ELSE image.at[place]]
           len == image.len + LegacySize
<1>1. GrowsVHD /\ image.len \in Nat /\ image.len >= CellAt(image, Len(image.cells) + 1) /\ Busy(image, w)
      /\ FootersOK(image.at, image.len, disk) /\ damaged \in BOOLEAN
      /\ image = Rewritten(image, image.len, image.at, image.bat, image.cells)
  BY GrowingParts DEF TearFooter
<1>2. LegacySize \in Nat
  BY FooterAssumption DEF LegacySize
<1>3. image' = Rewritten(image, len, at, image.bat, image.cells)
  <2>1. image' = [image EXCEPT !.len = len, !.at["legacy"] = disk.footer]
    BY DEF TearFooter
  <2>2. image' = [image EXCEPT !.len = len, !.at = [image.at EXCEPT !["legacy"] = disk.footer]]
    BY <1>1, <2>1 DEF Rewritten
  <2>3. [image.at EXCEPT !["legacy"] = disk.footer] = at
    BY <1>1 DEF FootersOK, Places
  <2> HIDE DEF at, len
  <2> QED
    BY <1>1, <2>2, <2>3 DEF Rewritten
<1>4. len \in Nat /\ len >= CellAt(image, Len(image.cells) + 1) /\ len >= image.len /\ len >= LegacySize
  <2>1. CellAt(image, Len(image.cells) + 1) \in Nat
    <3>1. Len(image.cells) \in Nat /\ VhdSound(image, disk) /\ disk.type # Fixed
      BY <1>1, GrowingParts
    <3> QED
      BY <3>1, NextCell
  <2> QED
    BY <1>1, <1>2, <2>1
<1>5. FootersOK(at, len, disk)
  <2>1. at["trailing"] = image.at["trailing"] /\ at["legacy"] = disk.footer /\ at["mirror"] = image.at["mirror"]
        /\ at = [place \in Places |-> at[place]]
    BY DEF Places
  <2>2. FooterBytes("trailing") \in Nat /\ FooterBytes("legacy") = LegacySize
    BY FooterAssumption DEF FooterBytes
  <2> HIDE DEF at, len
  <2> QED
    BY <1>1, <1>4, <2>1, <2>2 DEF FootersOK
<1> HIDE DEF at, len
<1> QED
  BY <1>1, <1>3, <1>4, <1>5, FootersChange DEF TearFooter

LEMMA WriteFooterKeeps ==
  ASSUME ImageInv, WriteFooter PROVE ImageInv'
<1> DEFINE at == [place \in Places |-> IF place = "trailing" THEN disk.footer
                                       ELSE IF place = "legacy" THEN Unreadable ELSE image.at[place]]
           len == image.len + 1
<1>1. GrowsVHD /\ image.len \in Nat /\ image.len >= CellAt(image, Len(image.cells) + 1) /\ Busy(image, w)
      /\ FootersOK(image.at, image.len, disk) /\ damaged \in BOOLEAN
      /\ image = Rewritten(image, image.len, image.at, image.bat, image.cells)
  BY GrowingParts DEF WriteFooter
<1>3. image' = Rewritten(image, len, at, image.bat, image.cells)
  <2>1. image' = [image EXCEPT !.len = len, !.at["trailing"] = disk.footer, !.at["legacy"] = Unreadable]
    BY DEF WriteFooter
  <2>2. image' = [image EXCEPT !.len = len,
                    !.at = [[image.at EXCEPT !["trailing"] = disk.footer] EXCEPT !["legacy"] = Unreadable]]
    BY <1>1, <2>1 DEF Rewritten
  <2>3. [[image.at EXCEPT !["trailing"] = disk.footer] EXCEPT !["legacy"] = Unreadable] = at
    BY <1>1 DEF FootersOK, Places
  <2> HIDE DEF at, len
  <2> QED
    BY <1>1, <2>2, <2>3 DEF Rewritten
<1>4. len \in Nat /\ len >= CellAt(image, Len(image.cells) + 1) /\ len = image.len + 1
  <2>1. CellAt(image, Len(image.cells) + 1) \in Nat
    <3>1. Len(image.cells) \in Nat /\ VhdSound(image, disk) /\ disk.type # Fixed
      BY <1>1, GrowingParts
    <3> QED
      BY <3>1, NextCell
  <2> QED
    BY <1>1, <2>1
<1>5. FootersOK(at, len, disk)
  <2>1. at["trailing"] = disk.footer /\ at["legacy"] = Unreadable /\ at["mirror"] = image.at["mirror"]
        /\ at = [place \in Places |-> at[place]]
    BY DEF Places
  <2>2. FooterBytes("trailing") = LegacySize + 1 /\ FooterBytes("legacy") = LegacySize /\ LegacySize \in Nat
    BY FooterAssumption DEF FooterBytes, LegacySize
  <2>3. image.at["legacy"].sound
    BY DEF WriteFooter
  <2>4. Unreadable.sound = FALSE
    BY DEF Unreadable
  <2>5. image.len >= LegacySize
    BY <1>1, <2>2, <2>3 DEF FootersOK
  <2> HIDE DEF at, len
  <2>6. len >= FooterBytes("trailing")
    BY <1>1, <1>4, <2>2, <2>5
  <2> QED
    BY <1>1, <2>1, <2>4, <2>6 DEF FootersOK
<1>6. Busy(image, w')
  BY <1>1 DEF WriteFooter, Busy
<1> HIDE DEF at, len
<1> QED
  BY <1>1, <1>3, <1>4, <1>5, <1>6, FootersChange DEF WriteFooter

\* The link is to the last cell, which is the block's.
LEMMA LinkBlockKeeps ==
  ASSUME ImageInv, LinkBlock PROVE ImageInv'
<1> DEFINE last == Len(image.cells)
           bat == [image.bat EXCEPT ![w.block] = CellAt(image, last) \div FooterSize]
           stored == [disk.blocks EXCEPT ![w.block] = w.block]
<1>1. /\ ~IsVHDX /\ disk.type # Fixed /\ VhdSound(image, disk) /\ Busy(image, w)
      /\ known \in BOOLEAN /\ damaged \in BOOLEAN
      /\ image = Rewritten(image, image.len, image.at, image.bat, image.cells) /\ disk = Restored(disk, disk.blocks)
      /\ image.len \in Nat /\ FootersOK(image.at, image.len, disk)
      /\ image.cells \in Seq(1..image.header.blocks) /\ image.len >= CellAt(image, Len(image.cells) + 1)
      /\ image.bat \in [1..image.header.blocks -> Int] /\ disk.blocks \in [1..image.header.blocks -> Nat]
      /\ LinksOK(image, disk.blocks, image.bat, image.cells)
  BY GrowingParts DEF LinkBlock
<1>2. w.block \in 1..image.header.blocks /\ last \in Nat \ {0} /\ image.cells[last] = w.block
      /\ last \in DOMAIN image.cells
  <2>1. w.block # 0 /\ w.block \in {0} \cup (1..image.header.blocks)
    BY <1>1 DEF LinkBlock, Busy
  <2>2. Len(image.cells) # 0 /\ image.cells[Len(image.cells)] = w.block
    BY <1>1, <2>1 DEF Busy
  <2> QED
    BY <1>1, <2>1, <2>2
<1>3. /\ image' = Rewritten(image, image.len, image.at, bat, image.cells)
      /\ disk' = Restored(disk, stored) /\ known' = known /\ damaged' = damaged /\ w' = Idle
  <2>1. image' = [image EXCEPT !.bat = bat]
    BY <1>1 DEF LinkBlock, Rewritten
  <2>2. disk' = [disk EXCEPT !.blocks = stored]
    BY <1>1 DEF LinkBlock, Restored
  <2> HIDE DEF bat, stored
  <2>3. image' = Rewritten(image, image.len, image.at, bat, image.cells)
    BY <1>1, <2>1 DEF Rewritten
  <2>4. disk' = Restored(disk, stored)
    BY <1>1, <2>2 DEF Restored
  <2> QED
    BY <2>3, <2>4 DEF LinkBlock
<1>4. CellAt(image, last) \div FooterSize \in Nat
      /\ (CellAt(image, last) \div FooterSize) * FooterSize = CellAt(image, last)
  <2> HIDE DEF last
  <2> QED
    BY <1>1, <1>2, CellPlaces, HeaderParts
<1>5. bat \in [1..image.header.blocks -> Int] /\ stored \in [1..image.header.blocks -> Nat]
  BY <1>1, <1>2, <1>4
<1>6. LinksOK(image, stored, bat, image.cells)
  <2> SUFFICES ASSUME NEW b \in 1..image.header.blocks
               PROVE  \/ stored[b] = 0 /\ bat[b] = Unallocated
                      \/ /\ stored[b] = b
                         /\ \E k \in DOMAIN image.cells : image.cells[k] = b /\ bat[b] * FooterSize = CellAt(image, k)
    BY Zenon DEF LinksOK
  <2>1. CASE b = w.block
    <3>1. stored[b] = b /\ bat[b] = CellAt(image, last) \div FooterSize
      BY <1>1, <1>2, <2>1
    <3> HIDE DEF stored, bat, last
    <3>2. last \in DOMAIN image.cells /\ image.cells[last] = b /\ bat[b] * FooterSize = CellAt(image, last)
      BY <1>2, <1>4, <2>1, <3>1
    <3> QED
      BY <3>1, <3>2, Zenon
  <2>2. CASE b # w.block
    <3>1. stored[b] = disk.blocks[b] /\ bat[b] = image.bat[b]
      BY <1>1, <1>2, <2>2
    <3> HIDE DEF stored, bat, last
    <3> QED
      BY <1>1, <3>1, ZenonT(60) DEF LinksOK
  <2> QED
    BY <2>1, <2>2
<1> HIDE DEF bat, stored, last
<1>7. VhdSound(image', disk')
  BY <1>1, <1>3, <1>5, <1>6, SoundAgain
<1>8. disk'.type # Fixed /\ Busy(image', w')
  BY <1>1, <1>3 DEF Busy, Idle, Restored
<1> QED
  BY <1>1, <1>3, <1>7, <1>8 DEF ImageInv, IsVHDX, Rewritten

LEMMA CrashKeeps ==
  ASSUME ImageInv, Crash PROVE ImageInv'
<1>1. CASE IsVHDX
  <2>1. w = Idle
    BY <1>1 DEF ImageInv
  <2> QED
    BY <2>1 DEF Crash, Idle
<1>2. CASE ~IsVHDX
  <2>1. disk.type = Fixed => w = Idle
    BY <1>2 DEF ImageInv
  <2>2. disk.type # Fixed /\ VhdSound(image, disk)
    BY <1>2, <2>1 DEF Crash, Idle, ImageInv
  <2>3. Busy(image, w')
    BY DEF Crash, Busy, Idle
  <2> QED
    BY <1>2, <2>2, <2>3 DEF ImageInv, IsVHDX, Crash, Busy
<1> QED
  BY <1>1, <1>2

LEMMA RepairKeeps ==
  ASSUME ImageInv, Repair PROVE ImageInv'
<1> DEFINE at == [place \in Places |-> IF place = "legacy" THEN Unreadable ELSE image.at[place]]
           len == CellAt(image, Len(image.cells) + 1)
<1>1. GrowsVHD /\ image.len \in Nat /\ FootersOK(image.at, image.len, disk) /\ damaged \in BOOLEAN
      /\ image = Rewritten(image, image.len, image.at, image.bat, image.cells)
  BY GrowingParts DEF Repair
<1>3. image' = Rewritten(image, len, at, image.bat, image.cells)
  <2>1. image' = [image EXCEPT !.len = len, !.at["legacy"] = Unreadable]
    BY DEF Repair
  <2>2. image' = [image EXCEPT !.len = len, !.at = [image.at EXCEPT !["legacy"] = Unreadable]]
    BY <1>1, <2>1 DEF Rewritten
  <2>3. [image.at EXCEPT !["legacy"] = Unreadable] = at
    BY <1>1 DEF FootersOK, Places
  <2> HIDE DEF at, len
  <2> QED
    BY <1>1, <2>2, <2>3 DEF Rewritten
<1>4. len \in Nat
  <2>1. Len(image.cells) \in Nat /\ VhdSound(image, disk) /\ disk.type # Fixed
    BY <1>1, GrowingParts
  <2> QED
    BY <2>1, NextCell
<1>5. FootersOK(at, len, disk)
  <2>1. at["trailing"] = image.at["trailing"] /\ at["legacy"] = Unreadable /\ at["mirror"] = image.at["mirror"]
        /\ at = [place \in Places |-> at[place]]
    BY DEF Places
  <2>2. ~image.at["trailing"].sound
    BY DEF Repair, TailIntact
  <2>3. Unreadable.sound = FALSE
    BY DEF Unreadable
  <2> HIDE DEF at, len
  <2> QED
    BY <1>1, <2>1, <2>2, <2>3 DEF FootersOK
<1>6. Busy(image, w')
  BY DEF Repair, Busy
<1>7. len >= CellAt(image, Len(image.cells) + 1)
  BY <1>4
<1> HIDE DEF at, len
<1> QED
  BY <1>1, <1>3, <1>4, <1>5, <1>6, <1>7, FootersChange DEF Repair

LEMMA DamageFooterKeeps ==
  ASSUME ImageInv, NEW place \in Places, DamageFooter(place) PROVE ImageInv'
<1> DEFINE at == [p \in Places |-> IF p = place THEN Unreadable ELSE image.at[p]]
<1>1. /\ ~IsVHDX /\ VhdSound(image, disk) /\ known \in BOOLEAN /\ damaged' \in BOOLEAN
      /\ disk' = disk /\ known' = known /\ w' = w
  BY DEF DamageFooter, ImageInv
<1>2. /\ image = Rewritten(image, image.len, image.at, image.bat, image.cells) /\ disk = Restored(disk, disk.blocks)
      /\ image.len \in Nat /\ FootersOK(image.at, image.len, disk)
  BY <1>1, SoundParts
<1>3. image' = Rewritten(image, image.len, at, image.bat, image.cells)
  <2>1. image' = [image EXCEPT !.at = [image.at EXCEPT ![place] = Unreadable]]
    BY <1>2 DEF DamageFooter, Rewritten
  <2>2. [image.at EXCEPT ![place] = Unreadable] = at
    BY <1>2 DEF FootersOK, Places
  <2> HIDE DEF at
  <2> QED
    BY <1>2, <2>1, <2>2 DEF Rewritten
<1>4. /\ \A p \in Places : at[p] = Unreadable \/ at[p] = image.at[p]
      /\ at = [p \in Places |-> at[p]]
  BY DEF Places
<1>5. Unreadable.sound = FALSE
  BY DEF Unreadable
<1> HIDE DEF at
<1>6. FootersOK(at, image.len, disk)
  <2>1. /\ at["trailing"] = Unreadable \/ at["trailing"] = image.at["trailing"]
        /\ at["legacy"] = Unreadable \/ at["legacy"] = image.at["legacy"]
        /\ at["mirror"] = Unreadable \/ at["mirror"] = image.at["mirror"]
    BY <1>4 DEF Places
  <2> QED
    BY <1>2, <1>4, <1>5, <2>1 DEF FootersOK
<1>7. CASE disk.type # Fixed
  <2>1. GrowsVHD
    BY <1>1, <1>7 DEF GrowsVHD
  <2>2. image.len >= CellAt(image, Len(image.cells) + 1) /\ Busy(image, w)
    BY <2>1, GrowingParts
  <2> QED
    BY <1>1, <1>2, <1>3, <1>6, <2>1, <2>2, FootersChange
<1>8. CASE disk.type = Fixed
  <2>1. VhdShape(image, disk) /\ FootersSound(image, disk) /\ FixedSound(image, disk)
    BY <1>1, <1>8 DEF VhdSound
  <2>2. /\ image'.head = image.head /\ image'.len = image.len /\ image'.at = at
        /\ image' = [head |-> image'.head, len |-> image'.len, at |-> image'.at, header |-> image'.header,
                     headerAt |-> image'.headerAt, bat |-> image'.bat, cells |-> image'.cells]
    BY <1>3 DEF Rewritten
  <2>3. VhdShape(image', disk')
    BY <1>1, <2>1, <2>2 DEF VhdShape
  <2>4. FootersSound(image', disk')
    BY <1>1, <1>6, <2>1, <2>2 DEF FootersSound, FootersOK, Places
  <2>5. FixedSound(image', disk')
    <3>1. \A p \in {"trailing", "legacy"} : at[p].sound => image.at[p].sound
      BY <1>4, <1>5 DEF Places
    <3> QED
      BY <1>1, <2>1, <2>2, <3>1 DEF FixedSound
  <2>6. w = Idle
    BY <1>1, <1>8 DEF ImageInv
  <2>7. VhdSound(image', disk')
    BY <1>1, <1>8, <2>3, <2>4, <2>5 DEF VhdSound
  <2> QED
    BY <1>1, <1>8, <2>2, <2>6, <2>7 DEF ImageInv, IsVHDX, Idle
<1> QED
  BY <1>7, <1>8

-----------------------------------------------------------------------------
(* What an open makes of a VHD.                                             *)

LEMMA UsableIsWriters ==
  ASSUME NEW im, NEW d, VhdSound(im, d), NEW s \in Places
  PROVE  /\ Usable(im, s) => im.at[s] = d.footer /\ im.at[s].sound
         /\ im.at[s].sound /\ (s = "mirror" => d.type # Fixed) => Usable(im, s)
         /\ d.footer.type = d.type /\ d.footer.media = d.size /\ ParseFooter(d.footer)
         /\ d.type \in {Fixed, Dynamic, Differencing}
<1>1. FootersSound(im, d)
  BY DEF VhdSound
<1>2. /\ d.footer.type = d.type /\ d.footer.media = d.size /\ d.footer.sound = TRUE
      /\ d.type \in {Fixed, Dynamic, Differencing} /\ ParseFooter(d.footer)
  <2>1. /\ d.footer = [sound |-> TRUE, type |-> d.type, next |-> d.footer.next, media |-> d.size]
        /\ ParseFooter(d.footer)
    BY <1>1 DEF FootersSound
  <2>2. d.footer.type = d.type /\ d.footer.media = d.size /\ d.footer.sound = TRUE
    BY <2>1
  <2> QED
    BY <2>1, <2>2 DEF ParseFooter
<1>3. Unreadable.sound = FALSE
  BY DEF Unreadable
<1>4. ~ParseFooter(Unreadable)
  BY <1>3 DEF ParseFooter
<1>5. CASE s \in {"trailing", "legacy"}
  <2>1. im.at[s] \in {d.footer, Unreadable}
    BY <1>1, <1>5 DEF FootersSound
  <2> QED
    BY <1>2, <1>3, <1>4, <1>5, <2>1 DEF Usable
<1>6. CASE s = "mirror"
  <2>1. im.at[s] \in {d.footer, Unreadable} \/ (d.type = Fixed /\ im.at[s].type = Fixed)
    BY <1>1, <1>6 DEF FootersSound
  <2> QED
    BY <1>2, <1>3, <1>4, <1>6, <2>1 DEF Usable
<1> QED
  BY <1>5, <1>6 DEF Places

LEMMA SourceIsWriters ==
  ASSUME NEW im, NEW d, VhdSound(im, d), NEW size \in Nat, FooterSource(im, size) # "none"
  PROVE  /\ FooterSource(im, size) \in Places
         /\ im.at[FooterSource(im, size)] = d.footer /\ im.at[FooterSource(im, size)].sound
<1>1. FooterSource(im, size) \in Places /\ Usable(im, FooterSource(im, size))
  BY SourceIs DEF Places
<1> QED
  BY <1>1, UsableIsWriters

\* The decoded table.
VhdTable(im) == [b \in 1..im.header.blocks |-> BlockOffset(im.header, im.bat[b])]

\* Whatever opens has the writer's footer, and a block table to go with it.
LEMMA VhdOpened ==
  ASSUME NEW im, NEW d, VhdSound(im, d), NEW size \in Nat
  PROVE  LET o == OpenVHD(im, size)
             s == FooterSource(im, size) IN
         /\ o.ok \in BOOLEAN
         /\ o.ok <=> /\ s # "none"
                     /\ IF d.type = Fixed THEN ValidFixed(d.footer, size, FooterBytes(s))
                        ELSE HeaderReadable(im, d.footer) /\ ValidDynamic(d.footer, im.header, size)
         /\ o.ok => o = [ok |-> TRUE, source |-> s, type |-> d.type, media |-> d.size,
                         blocks |-> IF d.type = Fixed THEN <<>>
                                    ELSE VhdTable(im)]
<1> DEFINE o == OpenVHD(im, size)
           s == FooterSource(im, size)
           opened(blocks) == [ok |-> TRUE, source |-> s, type |-> d.type, media |-> d.size, blocks |-> blocks]
           table == VhdTable(im)
<1>1. Refusal.ok = FALSE
  BY DEF Refusal
<1>2. d.footer.type = d.type /\ d.footer.media = d.size
  BY UsableIsWriters DEF Places
<1>3. s # "none" => im.at[s] = d.footer
  BY SourceIsWriters
<1>4. o = IF s = "none" THEN Refusal
          ELSE IF d.type = Fixed
            THEN IF ValidFixed(d.footer, size, FooterBytes(s)) THEN opened(<<>>) ELSE Refusal
          ELSE IF HeaderReadable(im, d.footer) /\ ValidDynamic(d.footer, im.header, size)
            THEN opened(table) ELSE Refusal
  <2> HIDE DEF s
  <2>1. CASE s = "none"
    BY <2>1 DEF OpenVHD, s
  <2>2. CASE s # "none"
    <3>1. o = IF im.at[s].type = Fixed
            THEN IF ValidFixed(im.at[s], size, FooterBytes(s))
                 THEN [ok |-> TRUE, source |-> s, type |-> im.at[s].type, media |-> im.at[s].media, blocks |-> <<>>]
                 ELSE Refusal
            ELSE IF HeaderReadable(im, im.at[s]) /\ ValidDynamic(im.at[s], im.header, size)
            THEN [ok |-> TRUE, source |-> s, type |-> im.at[s].type, media |-> im.at[s].media, blocks |-> table]
            ELSE Refusal
      BY <2>2, Zenon DEF OpenVHD, VhdTable, s, table
    <3> QED
      BY <1>2, <1>3, <2>2, <3>1, Zenon
  <2> QED
    BY <2>1, <2>2
<1> HIDE DEF o, s, table
<1>5. \A blocks : opened(blocks).ok = TRUE
  OBVIOUS
<1>6. /\ o.ok \in BOOLEAN
      /\ o.ok <=> /\ s # "none"
                  /\ IF d.type = Fixed THEN ValidFixed(d.footer, size, FooterBytes(s))
                     ELSE HeaderReadable(im, d.footer) /\ ValidDynamic(d.footer, im.header, size)
  BY <1>1, <1>4, <1>5
<1>7. o.ok => o = opened(IF d.type = Fixed THEN <<>> ELSE table)
  BY <1>1, <1>4
<1> QED
  BY <1>6, <1>7 DEF o, s, table

\* The data of a block in cell k is found in that cell again, below the end of the file.
LEMMA CellFound ==
  ASSUME ImageInv, GrowsVHD, NEW k \in DOMAIN image.cells
  PROVE  /\ CellAt(image, k) + FooterSize \in 0..image.len
         /\ CellOf(CellAt(image, k) + FooterSize) = image.cells[k]
<1> DEFINE C == CellSize(image)
           n == Len(image.cells)
           at == CellAt(image, k) + FooterSize
<1>1. /\ VhdSound(image, disk) /\ disk.type # Fixed /\ image.cells \in Seq(1..image.header.blocks)
      /\ image.len \in Nat /\ image.len >= CellAt(image, n + 1)
  BY GrowingParts
<1>2. n \in Nat /\ k \in 1..n /\ k \in Nat \ {0}
  BY <1>1
<1>3. /\ C \in Nat /\ C > FooterSize /\ CellAt(image, k) \in Nat
  BY <1>1, <1>2, CellPlaces, HeaderParts
<1>4. \A j : CellAt(image, j) = BlocksAt + C * (j - 1)
  BY DEF CellAt
<1>5. FooterSize \in Nat \ {0} /\ BlocksAt \in Nat
  BY FooterAssumption, WriterAssumption
<1> HIDE DEF C, n
<1>6. PICK j \in Nat : j = k - 1 /\ j + 1 <= n
  BY <1>2
<1>7. at = BlocksAt + j * C + FooterSize
  BY <1>3, <1>4, <1>5, <1>6
<1>8. j * C \in Nat /\ (j + 1) * C = j * C + C /\ (j + 1) * C <= n * C
  <2>1. PICK m \in Nat : n = j + 1 + m
    <3>1. n - (j + 1) \in Nat
      BY <1>2, <1>6
    <3> QED
      BY <1>2, <1>6, <3>1
  <2>2. n * C = (j + 1) * C + m * C /\ m * C \in Nat
    BY <1>3, <2>1
  <2>3. (j + 1) * C = j * C + C /\ j * C \in Nat
    BY <1>3
  <2> QED
    BY <1>3, <2>2, <2>3
<1>9. CellAt(image, n + 1) = BlocksAt + n * C /\ n * C \in Nat
  BY <1>2, <1>3, <1>4, <1>5
<1>10. at \in 0..image.len
  <2>1. PICK a \in Nat : a = j * C
    BY <1>8
  <2>2. PICK z \in Nat : z = n * C
    BY <1>9
  <2>3. a + C <= z
    BY <1>8, <2>1, <2>2
  <2>4. at = BlocksAt + a + FooterSize /\ image.len >= BlocksAt + z
    BY <1>1, <1>7, <1>9, <2>1, <2>2
  <2> HIDE DEF at
  <2> QED
    BY <1>1, <1>3, <1>5, <2>3, <2>4
<1>11. CellOf(at) = image.cells[k]
  <2>1. (at - BlocksAt) \div C = j
    <3>1. at - BlocksAt = j * C + FooterSize
      BY <1>5, <1>7, <1>8
    <3>2. j * C <= j * C + FooterSize /\ j * C + FooterSize < (j + 1) * C /\ j * C + FooterSize \in Nat
      BY <1>3, <1>5, <1>8
    <3>3. PICK x \in Nat : x = j * C + FooterSize
      BY <3>2
    <3>4. x \div C = j
      BY <1>3, <1>5, <3>2, <3>3, DivisionUnique
    <3> QED
      BY <3>1, <3>3, <3>4
  <2>2. (at - BlocksAt) \div CellSize(image) + 1 = k
    BY <1>2, <1>6, <2>1 DEF C
  <2>3. at # -1
    BY <1>10, <1>1
  <2>4. at = CellAt(image, k) + FooterSize
    OBVIOUS
  <2> HIDE DEF at
  <2> QED
    BY <2>2, <2>3, <2>4, Zenon DEF CellOf
<1> QED
  BY <1>10, <1>11

\* Every block of an opened VHD is where its writer put it, or nowhere.
LEMMA BlocksFound ==
  ASSUME ImageInv, GrowsVHD, NEW b \in 1..image.header.blocks
  PROVE  LET at == BlockOffset(image.header, image.bat[b])
         IN  at \in -1..image.len /\ CellOf(at) = disk.blocks[b]
<1> DEFINE at == BlockOffset(image.header, image.bat[b])
<1>1. /\ VhdSound(image, disk) /\ disk.type # Fixed /\ LinksOK(image, disk.blocks, image.bat, image.cells)
      /\ image.bat \in [1..image.header.blocks -> Int] /\ image.len \in Nat
  BY GrowingParts
<1>2. SectorBitmapSize(image.header.blockSize) = FooterSize
  BY <1>1, HeaderParts
<1>3. CASE disk.blocks[b] = 0 /\ image.bat[b] = Unallocated
  <2>1. at = -1
    BY <1>3 DEF BlockOffset
  <2> QED
    BY <1>1, <1>3, <2>1 DEF CellOf
<1>4. CASE /\ disk.blocks[b] = b
           /\ \E k \in DOMAIN image.cells : image.cells[k] = b /\ image.bat[b] * FooterSize = CellAt(image, k)
  <2>1. PICK k \in DOMAIN image.cells : image.cells[k] = b /\ image.bat[b] * FooterSize = CellAt(image, k)
    BY <1>4
  <2>2. image.bat[b] # Unallocated
    <3>1. CellAt(image, k) \in Nat
      <4>1. k \in Nat \ {0}
        BY GrowingParts
      <4> QED
        BY <1>1, <4>1, CellPlaces, HeaderParts
    <3>2. \A n \in Int : n * FooterSize \in Nat => n # -1
      BY FooterAssumption
    <3>3. image.bat[b] \in Int /\ image.bat[b] * FooterSize \in Nat
      BY <1>1, <2>1, <3>1
    <3> QED
      BY <3>2, <3>3 DEF Unallocated
  <2>3. at = CellAt(image, k) + FooterSize
    BY <1>2, <2>1, <2>2 DEF BlockOffset
  <2>4. CellAt(image, k) + FooterSize \in 0..image.len /\ CellOf(CellAt(image, k) + FooterSize) = b
    BY <2>1, CellFound
  <2> HIDE DEF at
  <2>5. at \in -1..image.len
    BY <1>1, <2>3, <2>4
  <2> QED
    BY <1>4, <2>3, <2>4, <2>5 DEF at
<1> QED
  BY <1>1, <1>3, <1>4, Zenon DEF LinksOK

LEMMA OpenedVHD ==
  ASSUME ImageInv, ~IsVHDX
  PROVE  /\ VhdSound(image, disk) /\ Opened = OpenVHD(image, Size) /\ Size \in Nat
         /\ Probed = ProbeVHD(image, Size) /\ image.len \in Nat /\ known \in BOOLEAN
<1>1. VhdSound(image, disk) /\ known \in BOOLEAN
  BY DEF ImageInv
<1>2. image.len \in Nat
  BY <1>1, SoundParts
<1> QED
  BY <1>1, <1>2 DEF Opened, Probed, Size

LEMMA TypeOfVHD ==
  ASSUME ImageInv, ~IsVHDX PROVE TypeOK
<1>1. VhdSound(image, disk) /\ Opened = OpenVHD(image, Size) /\ Size \in Nat /\ image.len \in Nat
      /\ known \in BOOLEAN /\ damaged \in BOOLEAN
  BY OpenedVHD DEF ImageInv
<1>2. CASE disk.type = Fixed
  <2>1. w = Idle
    BY <1>2 DEF ImageInv
  <2>2. Opened.ok => Opened.blocks = <<>>
    BY <1>1, <1>2, VhdOpened
  <2>3. Opened.ok => DOMAIN Opened.blocks = {}
    BY <2>2
  <2>4. Opened.ok => \A b \in DOMAIN Opened.blocks : Opened.blocks[b] \in -1..image.len
    BY <2>3
  <2>5. w.pc \in {"idle", "footer", "link"} /\ w.block \in {0} \cup DOMAIN disk.blocks
    BY <2>1 DEF Idle
  <2> QED
    BY <1>1, <2>4, <2>5, Zenon DEF TypeOK
<1>3. CASE disk.type # Fixed
  <2>1. GrowsVHD
    BY <1>3 DEF GrowsVHD
  <2>2. Busy(image, w) /\ DOMAIN disk.blocks = 1..image.header.blocks
    BY <2>1, GrowingParts
  <2>3. Opened.ok => Opened.blocks = VhdTable(image)
    BY <1>1, <1>3, VhdOpened
  <2>4. Opened.ok => \A b \in DOMAIN Opened.blocks : Opened.blocks[b] \in -1..image.len
    <3> SUFFICES ASSUME Opened.ok, NEW b \in 1..image.header.blocks
                 PROVE  BlockOffset(image.header, image.bat[b]) \in -1..image.len
      BY <2>3 DEF VhdTable
    <3> QED
      BY <2>1, BlocksFound
  <2>5. w.pc \in {"idle", "footer", "link"} /\ w.block \in {0} \cup DOMAIN disk.blocks
    BY <2>2 DEF Busy
  <2> QED
    BY <1>1, <2>4, <2>5, Zenon DEF TypeOK
<1> QED
  BY <1>2, <1>3

LEMMA VhdOpensAsWritten ==
  ASSUME ImageInv, ~IsVHDX, Opened.ok PROVE OpensAsWritten
<1>1. VhdSound(image, disk) /\ Opened = OpenVHD(image, Size) /\ Size \in Nat
  BY OpenedVHD
<1>2. /\ Opened.type = disk.type /\ Opened.media = disk.size
      /\ disk.type # Fixed =>
           Opened.blocks = VhdTable(image)
  BY <1>1, VhdOpened
<1>3. ASSUME disk.type # Fixed, NEW b \in DOMAIN disk.blocks
      PROVE  CellOf(Opened.blocks[b]) = disk.blocks[b]
  <2>1. GrowsVHD
    BY <1>3 DEF GrowsVHD
  <2>2. b \in 1..image.header.blocks
    BY <1>3, <2>1, GrowingParts
  <2> QED
    BY <1>2, <1>3, <2>1, <2>2, BlocksFound DEF VhdTable
<1> QED
  BY <1>2, <1>3 DEF OpensAsWritten

LEMMA VhdSaysWhenRecovered ==
  ASSUME ImageInv PROVE SaysWhenRecovered
<1> SUFFICES ASSUME ~IsVHDX, Opened.ok
             PROVE  Recovered(Opened.source) <=> ~(known /\ TailIntact)
  BY DEF SaysWhenRecovered
<1>1. VhdSound(image, disk) /\ Opened = OpenVHD(image, Size) /\ Size \in Nat /\ image.len \in Nat /\ known \in BOOLEAN
  BY OpenedVHD
<1> DEFINE s == FooterSource(image, Size)
<1>2. Opened.source = s /\ s # "none"
  BY <1>1, VhdOpened
<1>3. s \in Places /\ image.at[s].sound
  BY <1>1, <1>2, SourceIsWriters
<1>4. s = "trailing" <=> Size >= FooterSize /\ Usable(image, "trailing")
  BY <1>1, SourceIs
<1>5. Usable(image, "trailing") <=> TailIntact
  BY <1>1, UsableIsWriters DEF Places, TailIntact
<1>6. TailIntact => image.len >= FooterSize
  BY <1>1, SoundParts DEF FootersOK, FooterBytes, TailIntact
<1> HIDE DEF s
<1>7. s = "trailing" <=> known /\ TailIntact
  BY <1>1, <1>4, <1>5, <1>6, FooterAssumption DEF Size
<1> QED
  BY <1>2, <1>3, <1>7 DEF Recovered, Places

LEMMA VhdOneCopyIsEnough ==
  ASSUME ImageInv, ~IsVHDX, disk.conformant,
         NEW place \in (IF known THEN {"trailing", "legacy"} ELSE {})
                          \cup (IF disk.type = Fixed THEN {} ELSE {"mirror"}),
         image.at[place].sound
  PROVE  Opened.ok
<1>1. VhdSound(image, disk) /\ Opened = OpenVHD(image, Size) /\ Size \in Nat /\ image.len \in Nat /\ known \in BOOLEAN
  BY OpenedVHD
<1>2. place \in Places /\ (place = "mirror" => disk.type # Fixed) /\ (place # "mirror" => known)
  BY DEF Places
<1>3. Usable(image, place)
  BY <1>1, <1>2, UsableIsWriters
<1>4. FootersOK(image.at, image.len, disk)
  BY <1>1, SoundParts
<1>5. place # "mirror" => Size >= FooterBytes(place)
  BY <1>2, <1>4 DEF FootersOK, Places, Size
<1>6. disk.type # Fixed => image.len >= BlocksAt
  <2> SUFFICES ASSUME disk.type # Fixed PROVE image.len >= BlocksAt
    OBVIOUS
  <2>1. GrowsVHD
    BY DEF GrowsVHD
  <2>2. image.len >= CellAt(image, Len(image.cells) + 1) /\ Len(image.cells) \in Nat
    BY <2>1, GrowingParts
  <2>3. CellAt(image, Len(image.cells) + 1) \in Nat /\ CellAt(image, Len(image.cells) + 1) >= BlocksAt
    BY <1>1, <2>2, NextCell
  <2> QED
    BY <1>1, <2>2, <2>3, WriterAssumption
<1> DEFINE s == FooterSource(image, Size)
<1>7. s # "none"
  <2>1. CASE place = "trailing"
    BY <1>1, <1>3, <1>5, <2>1, SourceIs DEF FooterBytes
  <2>2. CASE place = "legacy"
    BY <1>1, <1>3, <1>5, <2>2, SourceIs DEF FooterBytes
  <2>3. CASE place = "mirror"
    <3>1. Size >= FooterSize \/ Size = 0
      BY <1>1, <1>2, <1>6, <2>3, WriterAssumption, FooterAssumption DEF Size
    <3> QED
      BY <1>1, <1>3, <2>3, <3>1, SourceIs
  <2> QED
    BY <1>2, <2>1, <2>2, <2>3 DEF Places
<1>8. s \in Places /\ image.at[s] = disk.footer /\ image.at[s].sound
  BY <1>1, <1>7, SourceIsWriters
<1>9. disk.footer.type = disk.type /\ disk.footer.media = disk.size
  BY <1>1, <1>2, UsableIsWriters
<1>10. CASE disk.type = Fixed
  <2>1. s # "mirror"
    <3>1. Usable(image, "mirror") => image.at["mirror"].type # Fixed
      BY DEF Usable
    <3>2. s = "mirror" => Usable(image, "mirror")
      BY <1>1, SourceIs
    <3> QED
      BY <1>8, <1>9, <1>10, <3>1, <3>2
  <2>2. FixedSound(image, disk)
    BY <1>1, <1>10 DEF VhdSound
  <2>3. disk.size > 0 /\ disk.size + FooterBytes(s) <= image.len
    BY <1>8, <2>1, <2>2 DEF FixedSound, Places
  <2>4. ValidFixed(disk.footer, Size, FooterBytes(s))
    BY <1>9, <2>3 DEF ValidFixed, Size
  <2> QED
    BY <1>1, <1>7, <1>10, <2>4, VhdOpened
<1>11. CASE disk.type # Fixed
  <2>1. HeaderSound(image, disk)
    BY <1>1, <1>11 DEF VhdSound
  <2>2. /\ HeaderReadable(image, disk.footer) /\ ValidDynamic(disk.footer, image.header, 0)
        /\ image.header.batAt + image.header.blocks <= BlocksAt
        /\ image.header.batAt \in Nat /\ image.header.blocks \in Nat
    BY <2>1 DEF HeaderSound
  <2>3. image.header.batAt + image.header.blocks <= image.len
    BY <1>1, <1>6, <1>11, <2>2, WriterAssumption
  <2>4. Size > 0 => image.header.batAt + image.header.blocks <= Size
    BY <1>1, <2>3 DEF Size
  <2>5. ValidDynamic(disk.footer, image.header, Size)
    BY <2>2, <2>4, Zenon DEF ValidDynamic
  <2> QED
    BY <1>1, <1>7, <1>11, <2>2, <2>5, VhdOpened
<1> QED
  BY <1>10, <1>11

LEMMA VhdProbeAgrees ==
  ASSUME ImageInv, ~IsVHDX, Opened.ok PROVE Probed = [Opened EXCEPT !.blocks = <<>>]
<1>1. VhdSound(image, disk) /\ Opened = OpenVHD(image, Size) /\ Size \in Nat /\ Probed = ProbeVHD(image, Size)
  BY OpenedVHD
<1> DEFINE s == FooterSource(image, Size)
           footer == disk.footer
<1>2. /\ s # "none"
      /\ disk.type # Fixed => HeaderReadable(image, footer)
      /\ Opened = [ok |-> TRUE, source |-> s, type |-> disk.type, media |-> disk.size, blocks |-> Opened.blocks]
  <2>1. Opened.blocks = IF disk.type = Fixed THEN <<>>
                        ELSE VhdTable(image)
    BY <1>1, VhdOpened
  <2> QED
    BY <1>1, <2>1, VhdOpened
<1>3. image.at[s] = footer
  BY <1>1, <1>2, SourceIsWriters
<1>4. footer.type = disk.type /\ footer.media = disk.size
  BY <1>1, UsableIsWriters DEF Places
<1>5. Probed = [Refusal EXCEPT !.ok = TRUE, !.source = s, !.type = footer.type, !.media = footer.media]
  <2> HIDE DEF s, footer
  <2>1. ProbeVHD(image, Size) =
          IF s = "none" THEN Refusal
          ELSE IF image.at[s].type # Fixed /\ ~HeaderReadable(image, image.at[s]) THEN Refusal
          ELSE [Refusal EXCEPT !.ok = TRUE, !.source = s, !.type = image.at[s].type, !.media = image.at[s].media]
    BY Zenon DEF ProbeVHD, s
  <2> QED
    BY <1>1, <1>2, <1>3, <1>4, <2>1, Zenon
<1> HIDE DEF s, footer
<1>6. Probed = [ok |-> TRUE, source |-> s, type |-> disk.type, media |-> disk.size, blocks |-> <<>>]
  BY <1>4, <1>5 DEF Refusal
<1>7. PICK blocks : Opened = [ok |-> TRUE, source |-> s, type |-> disk.type, media |-> disk.size, blocks |-> blocks]
  BY <1>2
<1>8. PICK o, none, type, size, true : o = Opened /\ none = <<>> /\ type = disk.type /\ size = disk.size /\ true = TRUE
  OBVIOUS
<1>9. o = [ok |-> true, source |-> s, type |-> type, media |-> size, blocks |-> blocks]
  BY <1>7, <1>8
<1>10. [o EXCEPT !.blocks = none] = [ok |-> true, source |-> s, type |-> type, media |-> size, blocks |-> none]
  BY <1>9
<1> QED
  BY <1>6, <1>8, <1>10

-----------------------------------------------------------------------------
(* What the writer of a VHDX changes, and what it leaves.                   *)

\* Everything but whether it can be read is in the regions of a table.
LEMMA SameRegions ==
  ASSUME NEW x, NEW y, x.regions = y.regions, NEW len
  PROVE  /\ Entries(x) = Entries(y) /\ \A type : Region(x, type) = Region(y, type)
         /\ Complete(x) <=> Complete(y)
         /\ NeedsUnknown(x) <=> NeedsUnknown(y)
         /\ TableValid(x, len) <=> TableValid(y, len)
<1>1. Entries(x) = Entries(y)
  BY DEF Entries
<1>2. \A type : Region(x, type) = Region(y, type)
  BY <1>1, Zenon DEF Region
<1>3. Complete(x) <=> Complete(y)
  BY <1>2, Zenon DEF Complete
<1>4. NeedsUnknown(x) <=> NeedsUnknown(y)
  BY <1>1, Zenon DEF NeedsUnknown
<1>5. TableValid(x, len) <=> TableValid(y, len)
  BY <1>1, Zenon DEF TableValid
<1> QED
  BY <1>1, <1>2, <1>3, <1>4, <1>5

WithTables(im, tables, bat) == [head |-> im.head, len |-> im.len, tables |-> tables, meta |-> im.meta, bat |-> bat]
WithBlocks(d, blocks, bitmaps) ==
  [type |-> d.type, size |-> d.size, blocks |-> blocks, bitmaps |-> bitmaps, ratio |-> d.ratio,
   batAt |-> d.batAt, metaAt |-> d.metaAt, conformant |-> d.conformant]

\* An image of the same disk with other blocks, or a table that can no longer be read.
LEMMA VhdxSoundAgain ==
  ASSUME NEW im, NEW d, NEW len, VhdxSound(im, d, len),
         NEW tables, tables = <<tables[1], tables[2]>>,
         \A t \in 1..2 : /\ tables[t].regions = im.tables[t].regions /\ tables[t].sound \in BOOLEAN
                         /\ tables[t] = [sound |-> tables[t].sound, regions |-> tables[t].regions],
         NEW bat, DOMAIN bat = DOMAIN im.bat, NEW blocks, NEW bitmaps,
         DOMAIN blocks = DOMAIN d.blocks, DOMAIN bitmaps = DOMAIN d.bitmaps,
         TableSound(WithTables(im, tables, bat), WithBlocks(d, blocks, bitmaps))
  PROVE  VhdxSound(WithTables(im, tables, bat), WithBlocks(d, blocks, bitmaps), len)
<1> DEFINE jm == WithTables(im, tables, bat)
           e == WithBlocks(d, blocks, bitmaps)
<1>1. /\ jm.head = im.head /\ jm.len = im.len /\ jm.tables = tables /\ jm.meta = im.meta /\ jm.bat = bat
      /\ jm = [head |-> jm.head, len |-> jm.len, tables |-> jm.tables, meta |-> jm.meta, bat |-> jm.bat]
  BY DEF WithTables
<1>2. /\ e.type = d.type /\ e.size = d.size /\ e.blocks = blocks /\ e.bitmaps = bitmaps /\ e.ratio = d.ratio
      /\ e.batAt = d.batAt /\ e.metaAt = d.metaAt /\ e.conformant = d.conformant
      /\ e = [type |-> e.type, size |-> e.size, blocks |-> e.blocks, bitmaps |-> e.bitmaps, ratio |-> e.ratio,
              batAt |-> e.batAt, metaAt |-> e.metaAt, conformant |-> e.conformant]
  BY DEF WithBlocks
<1>3. TableSound(jm, e)
  OBVIOUS
<1> HIDE DEF jm, e
<1>4. VhdxShape(im, d) /\ TablesSound(im, d, len) /\ MetadataSound(im, d)
  BY DEF VhdxSound
<1>5. \A t \in 1..2 : /\ Entries(jm.tables[t]) = Entries(im.tables[t])
                      /\ \A type : Region(jm.tables[t], type) = Region(im.tables[t], type)
                      /\ Complete(jm.tables[t]) <=> Complete(im.tables[t])
                      /\ NeedsUnknown(jm.tables[t]) <=> NeedsUnknown(im.tables[t])
                      /\ TableValid(jm.tables[t], im.len) <=> TableValid(im.tables[t], im.len)
  <2> TAKE t \in 1..2
  <2>1. jm.tables[t].regions = im.tables[t].regions
    BY <1>1
  <2> QED
    BY <2>1, SameRegions, Zenon
<1>6. Conformant(im) => Conformant(jm)
  <2> SUFFICES ASSUME Conformant(im), NEW t \in 1..2
               PROVE  LET table == jm.tables[t]
                          b == Region(table, "bat")
                          m == Region(table, "metadata")
                          v == ParseMetadata(jm.meta[m.at], m.size)
                      IN  /\ ~NeedsUnknown(table) /\ TableValid(table, jm.len) /\ Complete(table)
                          /\ RegionsValid(b, m, jm.len) /\ v.ok /\ GeometryValid(v, b, jm.len)
    BY Zenon DEF Conformant
  <2>1. /\ Region(jm.tables[t], "bat") = Region(im.tables[t], "bat")
        /\ Region(jm.tables[t], "metadata") = Region(im.tables[t], "metadata")
        /\ Complete(jm.tables[t]) <=> Complete(im.tables[t])
        /\ NeedsUnknown(jm.tables[t]) <=> NeedsUnknown(im.tables[t])
        /\ TableValid(jm.tables[t], im.len) <=> TableValid(im.tables[t], im.len)
    BY <1>5
  <2> QED
    BY <1>1, <2>1, Zenon DEF Conformant
<1>7. VhdxShape(jm, e)
  BY <1>1, <1>2, <1>4, <1>6 DEF VhdxShape
<1>8. TablesSound(jm, e, len)
  <2>1. jm.tables = <<jm.tables[1], jm.tables[2]>>
    BY <1>1
  <2> SUFFICES ASSUME NEW t \in 1..2
               PROVE  LET table == jm.tables[t] IN
                      /\ table = [sound |-> table.sound, regions |-> table.regions] /\ table.sound \in BOOLEAN
                      /\ \A r \in Entries(table) : r.at \in Nat /\ r.size \in Nat \ {0} /\ r.req \in BOOLEAN
                      /\ Complete(table) /\ RegionsValid(Region(table, "bat"), Region(table, "metadata"), len) =>
                           Region(table, "bat").at = e.batAt /\ Region(table, "metadata").at = e.metaAt
    BY <2>1, Zenon DEF TablesSound
  <2>2. LET table == im.tables[t] IN
        /\ \A r \in Entries(table) : r.at \in Nat /\ r.size \in Nat \ {0} /\ r.req \in BOOLEAN
        /\ Complete(table) /\ RegionsValid(Region(table, "bat"), Region(table, "metadata"), len) =>
             Region(table, "bat").at = d.batAt /\ Region(table, "metadata").at = d.metaAt
    BY <1>4 DEF TablesSound
  <2>3. /\ jm.tables[t] = [sound |-> jm.tables[t].sound, regions |-> jm.tables[t].regions]
        /\ jm.tables[t].sound \in BOOLEAN
    BY <1>1
  <2>4. /\ Entries(jm.tables[t]) = Entries(im.tables[t])
        /\ Region(jm.tables[t], "bat") = Region(im.tables[t], "bat")
        /\ Region(jm.tables[t], "metadata") = Region(im.tables[t], "metadata")
        /\ Complete(jm.tables[t]) <=> Complete(im.tables[t])
    BY <1>5
  <2> QED
    BY <1>2, <2>2, <2>3, <2>4, Zenon
<1>9. MetadataSound(jm, e)
  BY <1>1, <1>2, <1>4, Zenon DEF MetadataSound
<1>10. VhdxSound(jm, e, len)
  BY <1>3, <1>7, <1>8, <1>9 DEF VhdxSound
<1> QED
  BY <1>10 DEF jm, e

LEMMA VhdxParts ==
  ASSUME ImageInv, IsVHDX
  PROVE  /\ VhdxSound(image, disk, Size) /\ w = Idle /\ known \in BOOLEAN /\ damaged \in BOOLEAN
         /\ image = WithTables(image, image.tables, image.bat) /\ disk = WithBlocks(disk, disk.blocks, disk.bitmaps)
         /\ disk.batAt \in DOMAIN image.bat /\ image.tables = <<image.tables[1], image.tables[2]>>
         /\ \A t \in 1..2 : /\ image.tables[t].sound \in BOOLEAN
                            /\ image.tables[t] = [sound |-> image.tables[t].sound, regions |-> image.tables[t].regions]
         /\ TableSound(image, disk)
         /\ image.len \in Nat \ {0} /\ Size \in Nat
<1>1. VhdxSound(image, disk, Size) /\ w = Idle /\ known \in BOOLEAN /\ damaged \in BOOLEAN
  BY DEF ImageInv
<1>2. VhdxShape(image, disk) /\ TablesSound(image, disk, Size) /\ TableSound(image, disk)
  BY <1>1 DEF VhdxSound
<1>3. /\ image = WithTables(image, image.tables, image.bat) /\ disk = WithBlocks(disk, disk.blocks, disk.bitmaps)
      /\ disk.batAt \in DOMAIN image.bat /\ image.len \in Nat \ {0}
  BY <1>2 DEF VhdxShape, WithTables, WithBlocks
<1>4. /\ image.tables = <<image.tables[1], image.tables[2]>>
      /\ \A t \in 1..2 : /\ image.tables[t].sound \in BOOLEAN
                         /\ image.tables[t] = [sound |-> image.tables[t].sound, regions |-> image.tables[t].regions]
  <2>1. image.tables = <<image.tables[1], image.tables[2]>>
    BY <1>2 DEF TablesSound
  <2>2. \A t \in 1..2 : /\ image.tables[t].sound \in BOOLEAN
                        /\ image.tables[t] = [sound |-> image.tables[t].sound, regions |-> image.tables[t].regions]
    BY <1>2, Zenon DEF TablesSound
  <2> QED
    BY <2>1, <2>2
<1>5. Size \in Nat
  BY <1>1, <1>3 DEF Size
<1> QED
  BY <1>1, <1>2, <1>3, <1>4, <1>5

\* What is asked of the table does not depend on whether a region table can be read.
LEMMA SameBlockTable ==
  ASSUME NEW im, NEW jm, NEW d, jm.bat = im.bat, TableSound(im, d) PROVE TableSound(jm, d)
  BY Zenon DEF TableSound

LEMMA DamageTableKeeps ==
  ASSUME ImageInv, NEW t \in 1..2, DamageTable(t) PROVE ImageInv'
<1>1. IsVHDX /\ damaged' = TRUE /\ disk' = disk /\ known' = known /\ w' = w
      /\ image' = [image EXCEPT !.tables[t].sound = FALSE]
  BY DEF DamageTable
<1>2. /\ VhdxSound(image, disk, Size) /\ w = Idle /\ known \in BOOLEAN
      /\ image = WithTables(image, image.tables, image.bat) /\ disk = WithBlocks(disk, disk.blocks, disk.bitmaps)
      /\ image.tables = <<image.tables[1], image.tables[2]>>
      /\ \A u \in 1..2 : /\ image.tables[u].sound \in BOOLEAN
                         /\ image.tables[u] = [sound |-> image.tables[u].sound, regions |-> image.tables[u].regions]
      /\ TableSound(image, disk)
  BY <1>1, VhdxParts
<1> DEFINE Dimmed(u) == [sound |-> IF u = t THEN FALSE ELSE image.tables[u].sound, regions |-> image.tables[u].regions]
<1>a. PICK d1, d2 : d1 = Dimmed(1) /\ d2 = Dimmed(2)
  OBVIOUS
<1>3. PICK tables : tables = <<d1, d2>>
  OBVIOUS
<1>4. /\ tables = <<tables[1], tables[2]>>
      /\ \A u \in 1..2 : /\ tables[u].regions = image.tables[u].regions /\ tables[u].sound \in BOOLEAN
                         /\ tables[u] = [sound |-> tables[u].sound, regions |-> tables[u].regions]
  <2>0. tables[1] = d1 /\ tables[2] = d2
    BY <1>3
  <2>1. tables[1] = Dimmed(1) /\ tables[2] = Dimmed(2) /\ tables = <<tables[1], tables[2]>>
    BY <1>3, <1>a, <2>0, Zenon
  <2>2. \A u \in 1..2 : tables[u] = Dimmed(u)
    <3> SUFFICES ASSUME NEW u \in 1..2 PROVE tables[u] = Dimmed(u)
      OBVIOUS
    <3>1. u = 1 \/ u = 2
      OBVIOUS
    <3> QED
      BY <2>1, <3>1, Zenon
  <2>3. \A u \in 1..2 : image.tables[u].sound \in BOOLEAN
    BY <1>2
  <2>4. ASSUME NEW u \in 1..2
        PROVE  /\ tables[u].regions = image.tables[u].regions /\ tables[u].sound \in BOOLEAN
               /\ tables[u] = [sound |-> tables[u].sound, regions |-> tables[u].regions]
    <3>1. PICK s, r : s = (IF u = t THEN FALSE ELSE image.tables[u].sound) /\ r = image.tables[u].regions
      OBVIOUS
    <3>2. tables[u] = [sound |-> s, regions |-> r]
      BY <2>2, <3>1, Zenon
    <3>3. s \in BOOLEAN
      <4>1. CASE u = t
        BY <3>1, <4>1
      <4>2. CASE u # t
        BY <2>3, <3>1, <4>2, Zenon
      <4> QED
        BY <4>1, <4>2
    <3>4. tables[u].sound = s /\ tables[u].regions = r
      BY <3>2
    <3> QED
      BY <3>1, <3>2, <3>3, <3>4, Zenon
  <2> QED
    BY <2>1, <2>4, Zenon
<1>5. image' = WithTables(image, tables, image.bat)
  <2>1. PICK h, l, m, b, a, z : /\ h = image.head /\ l = image.len /\ m = image.meta /\ b = image.bat
                                /\ a = image.tables[1] /\ z = image.tables[2]
    OBVIOUS
  <2>2. PICK as, ar, zs, zr : as = a.sound /\ ar = a.regions /\ zs = z.sound /\ zr = z.regions
    OBVIOUS
  <2>3. a = [sound |-> as, regions |-> ar] /\ z = [sound |-> zs, regions |-> zr]
    BY <1>2, <2>1, <2>2
  <2>4. image = [head |-> h, len |-> l, tables |-> <<a, z>>, meta |-> m, bat |-> b]
    BY <1>2, <2>1 DEF WithTables
  <2>5. CASE t = 1
    <3>1. PICK x : x = [sound |-> FALSE, regions |-> ar]
      OBVIOUS
    <3>2. d1 = x /\ d2 = z
      BY <1>a, <2>1, <2>2, <2>3, <2>5, <3>1
    <3>3. [a EXCEPT !.sound = FALSE] = x
      <4>1. PICK no : no = FALSE
        OBVIOUS
      <4>2. [a EXCEPT !.sound = no] = [sound |-> no, regions |-> ar]
        BY <2>3
      <4> QED
        BY <3>1, <4>1, <4>2, Zenon
    <3>4. [<<a, z>> EXCEPT ![1] = x] = <<x, z>>
      OBVIOUS
    <3>5. PICK o, q : o = image /\ q = <<x, z>>
      OBVIOUS
    <3>6. [o EXCEPT !.tables = q] = [head |-> h, len |-> l, tables |-> q, meta |-> m, bat |-> b]
      BY <2>4, <3>5
    <3>7. [o EXCEPT !.tables[1].sound = FALSE] = [o EXCEPT !.tables = [o.tables EXCEPT ![1] = [o.tables[1] EXCEPT !.sound = FALSE]]]
      OBVIOUS
    <3>8. o.tables = <<a, z>> /\ o.tables[1] = a
      BY <1>2, <2>1, <3>5
    <3>9. [o EXCEPT !.tables[1].sound = FALSE] = [o EXCEPT !.tables = q]
      BY <3>3, <3>4, <3>5, <3>7, <3>8, Zenon
    <3> QED
      BY <1>1, <1>3, <2>1, <2>5, <3>2, <3>5, <3>6, <3>9 DEF WithTables
  <2>6. CASE t = 2
    <3>1. PICK x : x = [sound |-> FALSE, regions |-> zr]
      OBVIOUS
    <3>2. d1 = a /\ d2 = x
      BY <1>a, <2>1, <2>2, <2>3, <2>6, <3>1
    <3>3. [z EXCEPT !.sound = FALSE] = x
      <4>1. PICK no : no = FALSE
        OBVIOUS
      <4>2. [z EXCEPT !.sound = no] = [sound |-> no, regions |-> zr]
        BY <2>3
      <4> QED
        BY <3>1, <4>1, <4>2, Zenon
    <3>4. [<<a, z>> EXCEPT ![2] = x] = <<a, x>>
      OBVIOUS
    <3>5. PICK o, q : o = image /\ q = <<a, x>>
      OBVIOUS
    <3>6. [o EXCEPT !.tables = q] = [head |-> h, len |-> l, tables |-> q, meta |-> m, bat |-> b]
      BY <2>4, <3>5
    <3>7. [o EXCEPT !.tables[2].sound = FALSE] = [o EXCEPT !.tables = [o.tables EXCEPT ![2] = [o.tables[2] EXCEPT !.sound = FALSE]]]
      OBVIOUS
    <3>8. o.tables = <<a, z>> /\ o.tables[2] = z
      BY <1>2, <2>1, <3>5
    <3>9. [o EXCEPT !.tables[2].sound = FALSE] = [o EXCEPT !.tables = q]
      BY <3>3, <3>4, <3>5, <3>7, <3>8, Zenon
    <3> QED
      BY <1>1, <1>3, <2>1, <2>6, <3>2, <3>5, <3>6, <3>9 DEF WithTables
  <2> QED
    BY <2>5, <2>6
<1>6. TableSound(WithTables(image, tables, image.bat), WithBlocks(disk, disk.blocks, disk.bitmaps))
  <2>1. WithTables(image, tables, image.bat).bat = image.bat
    BY DEF WithTables
  <2> QED
    BY <1>2, <2>1, SameBlockTable
<1>7. VhdxSound(image', disk', Size)
  <2>1. VhdxSound(WithTables(image, tables, image.bat), WithBlocks(disk, disk.blocks, disk.bitmaps), Size)
    BY <1>2, <1>4, <1>6, VhdxSoundAgain, Zenon
  <2> QED
    BY <1>1, <1>2, <1>5, <2>1, Zenon
<1>8. image'.len = image.len /\ image'.head = image.head
  BY <1>5 DEF WithTables
<1>9. Size' = Size /\ IsVHDX'
  BY <1>1, <1>8 DEF Size, IsVHDX
<1> QED
  BY <1>1, <1>2, <1>7, <1>9 DEF ImageInv

\* What the writer of a VHDX stores anew keeps the image sound.
StoredIn(blocks, bitmaps) ==
  /\ DOMAIN blocks = DOMAIN disk.blocks /\ blocks = [b \in DOMAIN blocks |-> blocks[b]]
  /\ \A b \in DOMAIN blocks : blocks[b] \in [state : Nat, at : Nat]
  /\ DOMAIN bitmaps = DOMAIN disk.bitmaps /\ bitmaps = [c \in DOMAIN bitmaps |-> bitmaps[c]]
  /\ \A c \in DOMAIN bitmaps : bitmaps[c] \in {Empty} \cup [state : {Present}, at : Nat]
  /\ disk.type # DiffType => \A c \in DOMAIN bitmaps : bitmaps[c] = Empty

LEMMA StoreKeeps ==
  ASSUME ImageInv, IsVHDX, NEW blocks, NEW bitmaps, StoredIn(blocks, bitmaps),
         disk' = WithBlocks(disk, blocks, bitmaps), image' = [image EXCEPT !.bat = Stored(disk')],
         UNCHANGED <<known, w, damaged>>
  PROVE  ImageInv'
<1>2. /\ VhdxSound(image, disk, Size) /\ w = Idle /\ known \in BOOLEAN /\ damaged \in BOOLEAN
      /\ image = WithTables(image, image.tables, image.bat)
      /\ disk.batAt \in DOMAIN image.bat /\ image.tables = <<image.tables[1], image.tables[2]>>
      /\ \A u \in 1..2 : /\ image.tables[u].sound \in BOOLEAN
                         /\ image.tables[u] = [sound |-> image.tables[u].sound, regions |-> image.tables[u].regions]
      /\ TableSound(image, disk)
  BY VhdxParts
<1>3. PICK d : d = WithBlocks(disk, blocks, bitmaps)
  OBVIOUS
<1>4. /\ d.type = disk.type /\ d.blocks = blocks /\ d.bitmaps = bitmaps /\ d.ratio = disk.ratio /\ d.batAt = disk.batAt
  BY <1>3 DEF WithBlocks
<1>5. PICK layout : layout = Layout(d)
  OBVIOUS
<1>6. PICK bat : bat = [image.bat EXCEPT ![disk.batAt] = layout]
  OBVIOUS
<1>7. DOMAIN bat = DOMAIN image.bat /\ bat[disk.batAt] = layout
  BY <1>2, <1>6
<1>8. image' = WithTables(image, image.tables, bat)
  <2>1. Stored(disk') = bat
    BY <1>3, <1>4, <1>5, <1>6, Zenon DEF Stored
  <2>2. image' = [image EXCEPT !.bat = bat]
    BY <2>1, Zenon
  <2>3. PICK o, h, l, t, m, b : o = image /\ h = image.head /\ l = image.len /\ t = image.tables /\ m = image.meta /\ b = image.bat
    OBVIOUS
  <2>4. o = [head |-> h, len |-> l, tables |-> t, meta |-> m, bat |-> b]
    BY <1>2, <2>3 DEF WithTables
  <2>5. [o EXCEPT !.bat = bat] = [head |-> h, len |-> l, tables |-> t, meta |-> m, bat |-> bat]
    BY <2>4
  <2> QED
    BY <2>2, <2>3, <2>5, Zenon DEF WithTables
<1> DEFINE jm == WithTables(image, image.tables, bat)
<1>9. TableSound(jm, d)
  <2>1. jm.bat[d.batAt] = Layout(d)
    BY <1>4, <1>5, <1>7 DEF WithTables
  <2>2. PICK n : n = Cardinality(DOMAIN disk.blocks)
    OBVIOUS
  <2>3. disk.ratio \in Nat \ {0} /\ IsFiniteSet(DOMAIN disk.blocks)
        /\ DOMAIN disk.blocks = 0..(n - 1) /\ DOMAIN disk.bitmaps = 0..(Up(n, disk.ratio) - 1)
    BY <1>2, <2>2, Zenon DEF TableSound
  <2> HIDE DEF jm
  <2>4. /\ d.ratio \in Nat \ {0} /\ IsFiniteSet(DOMAIN d.blocks) /\ n = Cardinality(DOMAIN d.blocks)
        /\ DOMAIN d.blocks = 0..(n - 1) /\ DOMAIN d.bitmaps = 0..(Up(n, d.ratio) - 1)
    BY <1>4, <2>2, <2>3, Zenon DEF StoredIn
  <2>5. /\ d.blocks = [b \in DOMAIN d.blocks |-> d.blocks[b]]
        /\ \A b \in DOMAIN d.blocks : d.blocks[b] \in [state : Nat, at : Nat]
        /\ d.bitmaps = [c \in DOMAIN d.bitmaps |-> d.bitmaps[c]]
        /\ \A c \in DOMAIN d.bitmaps : d.bitmaps[c] \in {Empty} \cup [state : {Present}, at : Nat]
        /\ d.type # DiffType => \A c \in DOMAIN d.bitmaps : d.bitmaps[c] = Empty
    BY <1>4, Zenon DEF StoredIn
  <2> QED
    BY <2>1, <2>4, <2>5, Zenon DEF TableSound
<1>10. VhdxSound(jm, d, Size)
  BY <1>2, <1>3, <1>7, <1>9, VhdxSoundAgain, Zenon DEF StoredIn
<1>11. image'.len = image.len /\ image'.head = image.head
  BY <1>8 DEF WithTables
<1>12. Size' = Size /\ IsVHDX'
  BY <1>11 DEF Size, IsVHDX
<1>13. VhdxSound(image', disk', Size)
  BY <1>3, <1>8, <1>10, Zenon
<1> QED
  BY <1>2, <1>12, <1>13 DEF ImageInv

LEMMA StoredNow ==
  ASSUME ImageInv, IsVHDX PROVE StoredIn(disk.blocks, disk.bitmaps)
<1>1. TableSound(image, disk)
  BY VhdxParts
<1> QED
  BY <1>1, Zenon DEF TableSound, StoredIn

LEMMA WriteBlockKeeps ==
  ASSUME ImageInv, NEW b \in DOMAIN disk.blocks, NEW state \in {2, Present, Partial}, WriteBlock(b, state)
  PROVE  ImageInv'
<1>1. /\ IsVHDX /\ UNCHANGED <<known, w, damaged>>
      /\ disk' = [disk EXCEPT !.blocks[b] = [state |-> state, at |-> 1 + b]]
      /\ image' = [image EXCEPT !.bat = Stored(disk')]
  BY DEF WriteBlock
<1>2. disk = WithBlocks(disk, disk.blocks, disk.bitmaps) /\ StoredIn(disk.blocks, disk.bitmaps) /\ TableSound(image, disk)
  BY <1>1, VhdxParts, StoredNow
<1>3. PICK n : DOMAIN disk.blocks = 0..(n - 1)
  BY <1>2, Zenon DEF TableSound
<1>4. PICK entry : entry = [state |-> state, at |-> 1 + b]
  OBVIOUS
<1>5. entry \in [state : Nat, at : Nat]
  BY <1>3, <1>4 DEF Present, Partial
<1>6. PICK blocks : blocks = [disk.blocks EXCEPT ![b] = entry]
  OBVIOUS
<1>7. StoredIn(blocks, disk.bitmaps)
  <2>1. DOMAIN blocks = DOMAIN disk.blocks /\ blocks = [a \in DOMAIN blocks |-> blocks[a]]
    BY <1>6
  <2>2. \A a \in DOMAIN blocks : blocks[a] \in [state : Nat, at : Nat]
    <3> SUFFICES ASSUME NEW a \in DOMAIN disk.blocks PROVE blocks[a] \in [state : Nat, at : Nat]
      BY <2>1
    <3>1. blocks[a] = IF a = b THEN entry ELSE disk.blocks[a]
      BY <1>6
    <3>2. disk.blocks[a] \in [state : Nat, at : Nat]
      BY <1>2, Zenon DEF StoredIn
    <3> QED
      BY <1>5, <3>1, <3>2, Zenon
  <2> QED
    BY <1>2, <2>1, <2>2, Zenon DEF StoredIn
<1>8. disk' = WithBlocks(disk, blocks, disk.bitmaps)
  <2>1. PICK d, t, s, o, m, r, p, q, k :
          /\ d = disk /\ t = disk.type /\ s = disk.size /\ o = disk.blocks /\ m = disk.bitmaps /\ r = disk.ratio
          /\ p = disk.batAt /\ q = disk.metaAt /\ k = disk.conformant
    OBVIOUS
  <2>2. d = [type |-> t, size |-> s, blocks |-> o, bitmaps |-> m, ratio |-> r, batAt |-> p, metaAt |-> q, conformant |-> k]
    BY <1>2, <2>1, Zenon DEF WithBlocks
  <2>3. [d EXCEPT !.blocks = blocks]
          = [type |-> t, size |-> s, blocks |-> blocks, bitmaps |-> m, ratio |-> r, batAt |-> p, metaAt |-> q, conformant |-> k]
    BY <2>2
  <2>4. [d EXCEPT !.blocks[b] = entry] = [d EXCEPT !.blocks = [d.blocks EXCEPT ![b] = entry]]
    OBVIOUS
  <2> QED
    BY <1>1, <1>4, <1>6, <2>1, <2>3, <2>4, Zenon DEF WithBlocks
<1> QED
  BY <1>1, <1>7, <1>8, StoreKeeps

LEMMA WriteBitmapKeeps ==
  ASSUME ImageInv, NEW c \in DOMAIN disk.bitmaps, WriteBitmap(c)
  PROVE  ImageInv'
<1>1. /\ IsVHDX /\ UNCHANGED <<known, w, damaged>> /\ disk.type = DiffType
      /\ disk' = [disk EXCEPT !.bitmaps[c] = [state |-> Present, at |-> 10 + c]]
      /\ image' = [image EXCEPT !.bat = Stored(disk')]
  BY DEF WriteBitmap
<1>2. disk = WithBlocks(disk, disk.blocks, disk.bitmaps) /\ StoredIn(disk.blocks, disk.bitmaps) /\ TableSound(image, disk)
  BY <1>1, VhdxParts, StoredNow
<1>3. PICK n : DOMAIN disk.bitmaps = 0..(n - 1)
  BY <1>2, Zenon DEF TableSound
<1>4. PICK entry : entry = [state |-> Present, at |-> 10 + c]
  OBVIOUS
<1>5. entry \in {Empty} \cup [state : {Present}, at : Nat]
  BY <1>3, <1>4
<1>6. PICK bitmaps : bitmaps = [disk.bitmaps EXCEPT ![c] = entry]
  OBVIOUS
<1>7. StoredIn(disk.blocks, bitmaps)
  <2>1. DOMAIN bitmaps = DOMAIN disk.bitmaps /\ bitmaps = [a \in DOMAIN bitmaps |-> bitmaps[a]]
    BY <1>6
  <2>2. \A a \in DOMAIN bitmaps : bitmaps[a] \in {Empty} \cup [state : {Present}, at : Nat]
    <3> SUFFICES ASSUME NEW a \in DOMAIN disk.bitmaps PROVE bitmaps[a] \in {Empty} \cup [state : {Present}, at : Nat]
      BY <2>1, Zenon
    <3>1. bitmaps[a] = IF a = c THEN entry ELSE disk.bitmaps[a]
      BY <1>6
    <3>2. disk.bitmaps[a] \in {Empty} \cup [state : {Present}, at : Nat]
      BY <1>2, Zenon DEF StoredIn
    <3> QED
      BY <1>5, <3>1, <3>2, Zenon
  <2> QED
    BY <1>1, <1>2, <2>1, <2>2, Zenon DEF StoredIn
<1>8. disk' = WithBlocks(disk, disk.blocks, bitmaps)
  <2>1. PICK d, t, s, o, m, r, p, q, k :
          /\ d = disk /\ t = disk.type /\ s = disk.size /\ o = disk.blocks /\ m = disk.bitmaps /\ r = disk.ratio
          /\ p = disk.batAt /\ q = disk.metaAt /\ k = disk.conformant
    OBVIOUS
  <2>2. d = [type |-> t, size |-> s, blocks |-> o, bitmaps |-> m, ratio |-> r, batAt |-> p, metaAt |-> q, conformant |-> k]
    BY <1>2, <2>1, Zenon DEF WithBlocks
  <2>3. [d EXCEPT !.bitmaps = bitmaps]
          = [type |-> t, size |-> s, blocks |-> o, bitmaps |-> bitmaps, ratio |-> r, batAt |-> p, metaAt |-> q, conformant |-> k]
    BY <2>2
  <2>4. [d EXCEPT !.bitmaps[c] = entry] = [d EXCEPT !.bitmaps = [d.bitmaps EXCEPT ![c] = entry]]
    OBVIOUS
  <2> QED
    BY <1>1, <1>4, <1>6, <2>1, <2>3, <2>4, Zenon DEF WithBlocks
<1> QED
  BY <1>1, <1>7, <1>8, StoreKeeps

-----------------------------------------------------------------------------
(* The invariant.                                                           *)

LEMMA InitInv ==
  ASSUME Init PROVE ImageInv
<1>1. PICK x \in Fresh : image = x.image /\ disk = x.disk /\ known = x.known
  BY DEF Init
<1>2. w = Idle /\ damaged = FALSE
  BY DEF Init
<1>3. /\ known \in BOOLEAN
      /\ IF IsVHDX THEN VhdxSound(image, disk, Size) ELSE VhdSound(image, disk)
  BY <1>1, FreshAssumption, Zenon DEF IsVHDX, Size
<1>4. Busy(image, Idle)
  BY DEF Busy, Idle
<1>5. damaged \in BOOLEAN
  BY <1>2
<1> QED
  BY <1>2, <1>3, <1>4, <1>5, Zenon DEF ImageInv

LEMMA StepInv ==
  ASSUME ImageInv, [Next]_vars PROVE ImageInv'
<1>1. CASE UNCHANGED vars
  BY <1>1, ZenonT(60) DEF vars, ImageInv, IsVHDX, Size, VhdxSound, VhdxShape, TablesSound, MetadataSound, TableSound,
     VhdSound, VhdShape, FootersSound, FixedSound, HeaderSound, BlocksSound
<1>2. ASSUME NEW b \in DOMAIN disk.blocks, AppendBlock(b) PROVE ImageInv'
  BY <1>2, AppendBlockKeeps
<1>3. ASSUME TearFooter PROVE ImageInv'
  BY <1>3, TearFooterKeeps
<1>4. ASSUME WriteFooter PROVE ImageInv'
  BY <1>4, WriteFooterKeeps
<1>5. ASSUME LinkBlock PROVE ImageInv'
  BY <1>5, LinkBlockKeeps
<1>6. ASSUME Crash PROVE ImageInv'
  BY <1>6, CrashKeeps
<1>7. ASSUME Repair PROVE ImageInv'
  BY <1>7, RepairKeeps
<1>8. ASSUME NEW place \in {"trailing", "legacy", "mirror"}, DamageFooter(place) PROVE ImageInv'
  BY <1>8, DamageFooterKeeps DEF Places
<1>9. ASSUME NEW b \in DOMAIN disk.blocks, NEW state \in {2, Present, Partial}, WriteBlock(b, state) PROVE ImageInv'
  BY <1>9, WriteBlockKeeps
<1>10. ASSUME NEW c \in DOMAIN disk.bitmaps, WriteBitmap(c) PROVE ImageInv'
  BY <1>10, WriteBitmapKeeps
<1>11. ASSUME NEW t \in 1..2, DamageTable(t) PROVE ImageInv'
  BY <1>11, DamageTableKeeps
<1> QED
  BY <1>1, <1>2, <1>3, <1>4, <1>5, <1>6, <1>7, <1>8, <1>9, <1>10, <1>11, Zenon DEF Next

\* The image is sound after any number of steps.
LEMMA InvHolds == Spec => []ImageInv
<1>1. Init => ImageInv
  BY InitInv
<1>2. ImageInv /\ [Next]_vars => ImageInv'
  BY StepInv
<1> QED
  BY <1>1, <1>2, PTL DEF Spec

-----------------------------------------------------------------------------
(* How the block table of a VHDX is laid out.                               *)

\* A function on the numbers from 1 is a sequence of its own length.
LEMMA LenOfTabled ==
  ASSUME NEW k \in Nat, NEW f, DOMAIN f = 1..k, f = [i \in DOMAIN f |-> f[i]]
  PROVE  Len(f) = k
<1> DEFINE S == {f[i] : i \in 1..k}
<1>1. f \in [1..k -> S]
  OBVIOUS
<1>2. f \in Seq(S)
  BY <1>1
<1>3. Len(f) \in Nat /\ DOMAIN f = 1..Len(f)
  BY <1>2, LenProperties
<1> QED
  BY <1>3

\* The whole chunks of R blocks that n blocks fill, the last one in part.
LEMMA ChunksOf ==
  ASSUME NEW n \in Nat \ {0}, NEW R \in Nat \ {0}
  PROVE  /\ Up(n, R) \in Nat \ {0} /\ Up(n, R) - 1 = (n - 1) \div R
         /\ (Up(n, R) - 1) * R < n /\ n <= Up(n, R) * R
<1>1. PICK m \in Nat : n = m + 1
  OBVIOUS
<1>2. PICK q \in Nat : q = m \div R
  BY Division
<1>3. q * R <= m /\ m < (q + 1) * R
  BY <1>2, Division
<1>4. (q + 1) * R = q * R + R
  OBVIOUS
<1>5. PICK s \in Nat : s = n + R - 1
  OBVIOUS
<1>6. PICK p \in Nat : p = q + 1
  OBVIOUS
<1>7. p * R <= s /\ s < (p + 1) * R
  <2>1. p * R = q * R + R /\ (p + 1) * R = q * R + R + R
    BY <1>6
  <2>2. s = m + R
    BY <1>1, <1>5
  <2> QED
    BY <1>3, <1>4, <2>1, <2>2
<1>8. s \div R = p
  BY <1>7, DivisionUnique
<1>9. Up(n, R) = p
  BY <1>5, <1>8 DEF Up
<1> QED
  BY <1>1, <1>2, <1>3, <1>4, <1>6, <1>9

\* How long a chunk is.
ChunkLen(d, c) ==
  IF d.type = DiffType \/ (c + 1) * d.ratio < Cardinality(DOMAIN d.blocks) THEN d.ratio + 1
  ELSE Cardinality(DOMAIN d.blocks) - c * d.ratio

\* The blocks and chunks of a disk.
Chunked(d, n, R) ==
  /\ n \in Nat \ {0} /\ R \in Nat \ {0} /\ d.ratio = R /\ Cardinality(DOMAIN d.blocks) = n
  /\ DOMAIN d.blocks = 0..(n - 1) /\ DOMAIN d.bitmaps = 0..(Up(n, R) - 1)

LEMMA ChunkEntries ==
  ASSUME NEW d, NEW n, NEW R, Chunked(d, n, R), NEW c \in 0..(Up(n, R) - 1)
  PROVE  /\ ChunkLen(d, c) \in Nat /\ Len(Chunk(d, c)) = ChunkLen(d, c)
         /\ \A i \in 1..ChunkLen(d, c) :
              Chunk(d, c)[i] = IF i = R + 1 THEN d.bitmaps[c]
                               ELSE IF c * R + i - 1 \in DOMAIN d.blocks THEN d.blocks[c * R + i - 1] ELSE Empty
<1>1. n \in Nat \ {0} /\ R \in Nat \ {0} /\ d.ratio = R /\ Cardinality(DOMAIN d.blocks) = n /\ c \in Nat
  BY ChunksOf DEF Chunked
<1>2. (Up(n, R) - 1) * R < n /\ Up(n, R) \in Nat \ {0}
  BY <1>1, ChunksOf
<1>3. c * R < n
  <2>1. PICK u \in Nat : u = Up(n, R) - 1
    BY <1>2
  <2>2. c <= u
    BY <1>1, <2>1
  <2>3. c * R <= u * R
    BY <1>1, <2>2
  <2>4. c * R \in Nat /\ u * R \in Nat
    BY <1>1
  <2> QED
    BY <1>1, <1>2, <2>1, <2>3, <2>4
<1>4. ChunkLen(d, c) \in Nat
  <2>1. c * R \in Nat
    BY <1>1
  <2>2. ChunkLen(d, c) = R + 1 \/ ChunkLen(d, c) = n - c * R
    BY <1>1 DEF ChunkLen
  <2> QED
    BY <1>1, <1>3, <2>1, <2>2
<1>5. PICK k \in Nat : k = ChunkLen(d, c)
  BY <1>4
<1> DEFINE E(i) == IF i = R + 1 THEN d.bitmaps[c]
                   ELSE IF c * R + i - 1 \in DOMAIN d.blocks THEN d.blocks[c * R + i - 1] ELSE Empty
<1>6. Chunk(d, c) = [i \in 1..k |-> E(i)]
  <2>1. Chunk(d, c) = [i \in 1..ChunkLen(d, c) |->
           IF i = d.ratio + 1 THEN d.bitmaps[c]
           ELSE IF c * d.ratio + i - 1 \in DOMAIN d.blocks THEN d.blocks[c * d.ratio + i - 1] ELSE Empty]
    BY Zenon DEF Chunk, ChunkLen
  <2> QED
    BY <1>1, <1>5, <2>1, Zenon
<1> HIDE DEF E
<1>7. PICK f : f = Chunk(d, c)
  OBVIOUS
<1>8. DOMAIN f = 1..k /\ f = [i \in DOMAIN f |-> f[i]] /\ \A i \in 1..k : f[i] = E(i)
  BY <1>6, <1>7
<1>9. Len(f) = k
  BY <1>8, LenOfTabled
<1> QED
  BY <1>4, <1>5, <1>7, <1>8, <1>9, Zenon DEF E

\* The entries of the table, in chunks of R + 1.
LEMMA LayoutEntries ==
  ASSUME NEW d, NEW n, NEW R, Chunked(d, n, R), NEW c \in 0..(Up(n, R) - 1), NEW r \in 0..R
  PROVE  /\ Len(Layout(d)) = EntryCount(n, R, d.type)
         /\ r < ChunkLen(d, c) =>
              /\ c * (R + 1) + r < EntryCount(n, R, d.type)
              /\ Layout(d)[c * (R + 1) + r + 1] = Chunk(d, c)[r + 1]
         /\ c * (R + 1) + r < EntryCount(n, R, d.type) => r < ChunkLen(d, c) \/ c < Up(n, R) - 1
<1>1. /\ n \in Nat \ {0} /\ R \in Nat \ {0} /\ d.ratio = R /\ Cardinality(DOMAIN d.blocks) = n /\ c \in Nat
      /\ DOMAIN d.bitmaps = 0..(Up(n, R) - 1)
  BY ChunksOf DEF Chunked
<1>2. PICK last \in Nat : last = Up(n, R) - 1
  <2>1. n \in Nat \ {0} /\ R \in Nat \ {0}
    BY <1>1
  <2>2. Up(n, R) \in Nat \ {0}
    BY <2>1, ChunksOf
  <2> QED
    BY <2>2
<1>3. last = (n - 1) \div R /\ last * R < n /\ n <= (last + 1) * R /\ Up(n, R) = last + 1
  <2>1. PICK u \in Nat \ {0} : u = Up(n, R)
    BY <1>1, ChunksOf
  <2>2. u - 1 = (n - 1) \div R /\ (u - 1) * R < n /\ n <= u * R
    BY <1>1, <2>1, ChunksOf, Zenon
  <2>3. u - 1 = last /\ u = last + 1
    BY <1>2, <2>1
  <2> QED
    BY <2>1, <2>2, <2>3, Zenon
<1>4. Cardinality(DOMAIN d.bitmaps) - 1 = last
  <2>1. Cardinality(0..last) = last + 1
    BY FS_Interval
  <2> QED
    BY <1>1, <1>2, <2>1
<1>5. PICK k \in Nat : k = ChunkLen(d, last)
  BY <1>2, ChunkEntries
<1>6. Len(Chunk(d, last)) = k
  BY <1>2, <1>5, ChunkEntries
<1>7. PICK W \in Nat \ {0} : W = R + 1
  BY <1>1
<1>8. PICK a \in Nat : a = last * W
  BY <1>7
<1>9. a + k = EntryCount(n, R, d.type)
  <2>1. (last + 1) * R = last * R + R /\ a = last * R + last /\ last * R \in Nat
    BY <1>1, <1>7, <1>8
  <2>2. k = IF d.type = DiffType \/ (last + 1) * R < n THEN R + 1 ELSE n - last * R
    BY <1>1, <1>5 DEF ChunkLen
  <2>3. CASE d.type = DiffType
    <3>1. EntryCount(n, R, d.type) = (last + 1) * (R + 1)
      BY <1>1, <1>3, <2>3 DEF EntryCount
    <3>2. (last + 1) * (R + 1) = last * R + last + R + 1
      BY <1>1
    <3> QED
      BY <1>1, <2>1, <2>2, <2>3, <3>1, <3>2
  <2>4. CASE d.type # DiffType
    <3>1. EntryCount(n, R, d.type) = n + last
      BY <1>1, <1>3, <2>4 DEF EntryCount
    <3>2. k = n - last * R
      BY <1>1, <1>3, <2>1, <2>2, <2>4
    <3> QED
      BY <1>1, <2>1, <3>1, <3>2
  <2> QED
    BY <2>3, <2>4
<1> DEFINE E(j) == Chunk(d, (j - 1) \div W)[((j - 1) % W) + 1]
<1>10. Layout(d) = [j \in 1..(a + k) |-> E(j)]
  <2>1. Layout(d) = LET la == Cardinality(DOMAIN d.bitmaps) - 1
                        wide == d.ratio + 1
                    IN  [j \in 1..(la * wide + Len(Chunk(d, la))) |-> Chunk(d, (j - 1) \div wide)[((j - 1) % wide) + 1]]
    BY Zenon DEF Layout
  <2> QED
    BY <1>1, <1>4, <1>6, <1>7, <1>8, <2>1, Zenon
<1> HIDE DEF E
<1>11. PICK f : f = Layout(d)
  OBVIOUS
<1>12. DOMAIN f = 1..(a + k) /\ f = [j \in DOMAIN f |-> f[j]] /\ \A j \in 1..(a + k) : f[j] = E(j)
  BY <1>10, <1>11
<1>13. Len(f) = a + k
  BY <1>12, LenOfTabled
<1>14. PICK b \in Nat : b = c * W
  BY <1>1, <1>7
<1>15. c <= last /\ (c < last => b + W <= a) /\ (c = last => b = a)
  <2>1. c <= last
    BY <1>1, <1>2
  <2>2. ASSUME c < last PROVE b + W <= a
    <3>1. PICK e \in Nat : last = c + 1 + e
      BY <1>1, <2>2
    <3>2. a = c * W + W + e * W /\ e * W \in Nat
      BY <1>1, <1>7, <1>8, <3>1
    <3> QED
      BY <1>7, <1>14, <3>2
  <2> QED
    BY <1>8, <1>14, <2>1, <2>2
<1>16. ASSUME r < ChunkLen(d, c)
       PROVE  b + r < a + k /\ f[b + r + 1] = Chunk(d, c)[r + 1]
  <2>1. b + r < a + k
    <3>1. CASE c < last
      <4>1. b + W <= a /\ r <= R /\ r \in Int
        BY <1>1, <1>15, <3>1
      <4> QED
        BY <1>1, <1>7, <4>1
    <3>2. CASE c = last
      BY <1>5, <1>8, <1>14, <1>15, <1>16, <3>2
    <3> QED
      BY <1>1, <1>15, <3>1, <3>2
  <2>2. PICK j \in Nat : j = b + r
    BY <1>14
  <2>3. c * W <= j /\ j < (c + 1) * W
    BY <1>1, <1>7, <1>14, <2>2
  <2>4. j \div W = c /\ j % W = j - c * W
    BY <1>1, <2>3, DivisionUnique
  <2>a. j % W = r
    BY <1>14, <2>2, <2>4
  <2>5. j + 1 \in 1..(a + k) /\ (j + 1) - 1 = j
    BY <2>1, <2>2
  <2>6. f[j + 1] = E(j + 1)
    BY <1>12, <2>5
  <2>7. E(j + 1) = Chunk(d, c)[r + 1]
    BY <2>4, <2>5, <2>a, Zenon DEF E
  <2> QED
    BY <2>1, <2>2, <2>6, <2>7
<1>17. ASSUME b + r < a + k PROVE r < ChunkLen(d, c) \/ c < last
  BY <1>1, <1>5, <1>8, <1>14, <1>15, <1>17
<1> QED
  BY <1>2, <1>7, <1>9, <1>11, <1>13, <1>14, <1>16, <1>17

\* A block's entry and a bitmap's are where the reader looks for them.
LEMMA PayloadFound ==
  ASSUME NEW d, NEW n, NEW R, Chunked(d, n, R), NEW b \in 0..(n - 1)
  PROVE  Layout(d)[PayloadIndex(b, R) + 1] = d.blocks[b]
<1>1. n \in Nat \ {0} /\ R \in Nat \ {0} /\ d.ratio = R /\ Cardinality(DOMAIN d.blocks) = n /\ b \in Nat
      /\ DOMAIN d.blocks = 0..(n - 1)
  BY DEF Chunked
<1>2. PICK c \in Nat : c = b \div R
  BY <1>1, Division
<1>3. PICK r \in Nat : r = b % R
  BY <1>1, Division
<1>4. b = c * R + r /\ r < R
  BY <1>1, <1>2, <1>3, Division
<1>5. PICK u \in Nat \ {0} : u = Up(n, R)
  BY <1>1, ChunksOf
<1>6. c \in 0..(u - 1)
  <2>1. u - 1 = (n - 1) \div R
    BY <1>1, <1>5, ChunksOf
  <2>2. b <= n - 1 /\ n - 1 \in Nat
    BY <1>1
  <2>3. c <= (n - 1) \div R
    BY <1>1, <1>2, <2>2, DivisionMonotone
  <2> QED
    BY <1>5, <2>1, <2>3
<1>7. PICK e \in Nat : e = c * R
  BY <1>1
<1>8. r < ChunkLen(d, c) /\ ChunkLen(d, c) \in Nat
  <2>1. ChunkLen(d, c) = R + 1 \/ ChunkLen(d, c) = n - e
    BY <1>1, <1>7, Zenon DEF ChunkLen
  <2> QED
    BY <1>1, <1>4, <1>7, <2>1
<1>9. Layout(d)[c * (R + 1) + r + 1] = Chunk(d, c)[r + 1]
  <2>1. c \in 0..(Up(n, R) - 1) /\ r \in 0..R
    BY <1>1, <1>4, <1>5, <1>6
  <2> QED
    BY <1>8, <2>1, LayoutEntries
<1>10. Chunk(d, c)[r + 1] = d.blocks[b]
  <2>1. c \in 0..(Up(n, R) - 1) /\ r + 1 \in 1..ChunkLen(d, c) /\ r + 1 # R + 1
    BY <1>1, <1>4, <1>5, <1>6, <1>8
  <2>2. c * R + (r + 1) - 1 = b
    BY <1>4, <1>7
  <2>3. Chunk(d, c)[r + 1] = IF r + 1 = R + 1 THEN d.bitmaps[c]
                             ELSE IF c * R + (r + 1) - 1 \in DOMAIN d.blocks
                                  THEN d.blocks[c * R + (r + 1) - 1] ELSE Empty
    BY <2>1, ChunkEntries
  <2> QED
    BY <1>1, <2>1, <2>2, <2>3, Zenon
<1>11. PayloadIndex(b, R) = c * (R + 1) + r
  <2>1. c * (R + 1) = c * R + c
    BY <1>1
  <2> QED
    BY <1>2, <1>4, <1>7, <2>1 DEF PayloadIndex
<1> QED
  BY <1>9, <1>10, <1>11

LEMMA BitmapFound ==
  ASSUME NEW d, NEW n, NEW R, Chunked(d, n, R), NEW c \in 0..(Up(n, R) - 1)
  PROVE  /\ BitmapIndex(c, R) < EntryCount(n, R, d.type) =>
              Layout(d)[BitmapIndex(c, R) + 1] = d.bitmaps[c]
         /\ d.type = DiffType => BitmapIndex(c, R) < EntryCount(n, R, d.type)
<1>1. n \in Nat \ {0} /\ R \in Nat \ {0} /\ d.ratio = R /\ Cardinality(DOMAIN d.blocks) = n
  BY DEF Chunked
<1>2. R \in 0..R /\ c \in Nat
  BY <1>1, ChunksOf
<1>3. PICK u \in Nat \ {0} : u = Up(n, R)
  BY <1>1, ChunksOf
<1>4. (u - 1) * R < n /\ n <= u * R
  BY <1>1, <1>3, ChunksOf
<1>5. c < u - 1 => R < ChunkLen(d, c)
  <2> SUFFICES ASSUME c < u - 1 PROVE R < ChunkLen(d, c)
    OBVIOUS
  <2>1. (c + 1) * R <= (u - 1) * R /\ (c + 1) * R \in Nat /\ (u - 1) * R \in Nat
    <3>1. PICK x \in Nat, y \in Nat : x = c + 1 /\ y = u - 1
      BY <1>2
    <3>2. x <= y
      BY <1>2, <3>1
    <3>3. x * R <= y * R /\ x * R \in Nat /\ y * R \in Nat
      BY <1>1, <3>2
    <3> QED
      BY <3>1, <3>3
  <2>2. (c + 1) * R < n
    BY <1>1, <1>4, <2>1
  <2>3. ChunkLen(d, c) = R + 1
    BY <1>1, <2>2, Zenon DEF ChunkLen
  <2> QED
    BY <1>1, <2>3
<1>6. d.type = DiffType => R < ChunkLen(d, c)
  BY <1>1 DEF ChunkLen
<1>7. R < ChunkLen(d, c) =>
        /\ BitmapIndex(c, R) < EntryCount(n, R, d.type)
        /\ Layout(d)[BitmapIndex(c, R) + 1] = Chunk(d, c)[R + 1]
  BY <1>2, LayoutEntries DEF BitmapIndex
<1>8. BitmapIndex(c, R) < EntryCount(n, R, d.type) => R < ChunkLen(d, c)
  <2>1. BitmapIndex(c, R) < EntryCount(n, R, d.type) => R < ChunkLen(d, c) \/ c < Up(n, R) - 1
    BY <1>2, LayoutEntries DEF BitmapIndex
  <2> QED
    BY <1>3, <1>5, <2>1
<1>9. R < ChunkLen(d, c) => Chunk(d, c)[R + 1] = d.bitmaps[c]
  <2> SUFFICES ASSUME R < ChunkLen(d, c) PROVE Chunk(d, c)[R + 1] = d.bitmaps[c]
    OBVIOUS
  <2>1. R + 1 \in 1..ChunkLen(d, c)
    BY <1>1, ChunkEntries
  <2>2. \A i \in 1..ChunkLen(d, c) :
          Chunk(d, c)[i] = IF i = R + 1 THEN d.bitmaps[c]
                           ELSE IF c * R + i - 1 \in DOMAIN d.blocks THEN d.blocks[c * R + i - 1] ELSE Empty
    BY ChunkEntries
  <2> QED
    BY <2>1, <2>2, Zenon
<1> QED
  BY <1>6, <1>7, <1>8, <1>9

-----------------------------------------------------------------------------
(* What an open makes of a VHDX.                                            *)

\* The table an open uses is one it read and accepted, and it accepted what it
\* read on the way there.
LEMMA UsedIsGood ==
  ASSUME NEW im, NEW len, NEW used, used = TableUsed(im, len), used # 0
  PROVE  /\ used \in 1..2
         /\ im.tables[used].sound /\ ~NeedsUnknown(im.tables[used]) /\ TableValid(im.tables[used], len)
         /\ \A t \in 1..used : im.tables[t].sound => ~NeedsUnknown(im.tables[t])
<1> DEFINE first == LoadRegions(im.tables[1], len)
           second == LoadRegions(im.tables[2], len)
<1>1. /\ first # "unknown"
      /\ (used = 1 /\ first = "ok") \/ (used = 2 /\ second = "ok")
  <2>1. first \in {"ok", "bad", "unknown"}
    BY DEF LoadRegions
  <2>2. used = IF first = "unknown" THEN 0
               ELSE IF first = "ok" /\ Complete(im.tables[1]) THEN 1
               ELSE IF second = "ok" THEN 2
               ELSE IF second = "unknown" \/ first = "bad" THEN 0 ELSE 1
    BY Zenon DEF TableUsed
  <2> HIDE DEF first, second
  <2> QED
    BY <2>1, <2>2
<1>2. first # "unknown" => (im.tables[1].sound => ~NeedsUnknown(im.tables[1]))
  BY DEF LoadRegions
<1>3. \A t \in 1..2 : LoadRegions(im.tables[t], len) = "ok" =>
        im.tables[t].sound /\ ~NeedsUnknown(im.tables[t]) /\ TableValid(im.tables[t], len)
  BY DEF LoadRegions
<1>4. used \in 1..2 /\ LoadRegions(im.tables[used], len) = "ok"
  <2>1. CASE used = 1
    BY <1>1, <2>1
  <2>2. CASE used = 2
    BY <1>1, <2>2
  <2> QED
    BY <1>1, <2>1, <2>2
<1>5. im.tables[used].sound /\ ~NeedsUnknown(im.tables[used]) /\ TableValid(im.tables[used], len)
  BY <1>3, <1>4, Zenon
<1>6. ASSUME NEW t \in 1..used, im.tables[t].sound PROVE ~NeedsUnknown(im.tables[t])
  <2>1. t = 1 \/ t = used
    BY <1>4
  <2> QED
    BY <1>1, <1>2, <1>5, <1>6, <2>1, Zenon
<1> QED
  BY <1>4, <1>5, <1>6

\* What an image that opens has gone through.
Accepted(im, len, o, used, table, b, m, v) ==
  /\ used = TableUsed(im, len) /\ used # 0
  /\ table = im.tables[used] /\ b = Region(table, "bat") /\ m = Region(table, "metadata")
  /\ v = ParseMetadata(im.meta[m.at], m.size)
  /\ Complete(table) /\ RegionsValid(b, m, len) /\ v.ok /\ GeometryValid(v, b, len)
  /\ o = [ok |-> TRUE, table |-> used, meta |-> v, bat |-> ReadBAT(im.bat[b.at], v)]

LEMMA OpenedAccepted ==
  ASSUME NEW im, NEW len, OpenVHDX(im, len).ok
  PROVE  \E used, table, b, m, v : Accepted(im, len, OpenVHDX(im, len), used, table, b, m, v)
<1>1. PICK used : used = TableUsed(im, len)
  OBVIOUS
<1>2. PICK table : table = im.tables[used]
  OBVIOUS
<1>3. PICK b, m : b = Region(table, "bat") /\ m = Region(table, "metadata")
  OBVIOUS
<1>4. PICK v : v = ParseMetadata(im.meta[m.at], m.size)
  OBVIOUS
<1>5. OpenVHDX(im, len) =
        IF used = 0 THEN NotOpened
        ELSE IF ~(Complete(table) /\ RegionsValid(b, m, len)) THEN NotOpened
        ELSE IF ~v.ok THEN NotOpened
        ELSE IF ~GeometryValid(v, b, len) THEN NotOpened
        ELSE [ok |-> TRUE, table |-> used, meta |-> v, bat |-> ReadBAT(im.bat[b.at], v)]
  BY <1>1, <1>2, <1>3, <1>4, Zenon DEF OpenVHDX
<1>6. ~NotOpened.ok
  BY DEF NotOpened
<1>7. used # 0 /\ Complete(table) /\ RegionsValid(b, m, len) /\ v.ok /\ GeometryValid(v, b, len)
  BY <1>5, <1>6, Zenon
<1>8. Accepted(im, len, OpenVHDX(im, len), used, table, b, m, v)
  BY <1>1, <1>2, <1>3, <1>4, <1>5, <1>7, Zenon DEF Accepted
<1> QED
  BY <1>8, Zenon

LEMMA AcceptedParts ==
  ASSUME NEW im, NEW len, NEW o, NEW used, NEW table, NEW b, NEW m, NEW v, Accepted(im, len, o, used, table, b, m, v)
  PROVE  /\ used = TableUsed(im, len) /\ used # 0
         /\ table = im.tables[used] /\ b = Region(table, "bat") /\ m = Region(table, "metadata")
         /\ v = ParseMetadata(im.meta[m.at], m.size)
         /\ Complete(table) /\ RegionsValid(b, m, len) /\ v.ok /\ GeometryValid(v, b, len)
  BY Zenon DEF Accepted

\* Its values, field by field.
LEMMA AcceptedValues ==
  ASSUME NEW im, NEW len, NEW o, NEW used, NEW table, NEW b, NEW m, NEW v, Accepted(im, len, o, used, table, b, m, v)
  PROVE  o.ok /\ o.table = used /\ o.meta = v /\ o.bat = ReadBAT(im.bat[b.at], v)
<1>1. PICK bat, true : bat = ReadBAT(im.bat[b.at], v) /\ true = TRUE
  OBVIOUS
<1>2. o = [ok |-> true, table |-> used, meta |-> v, bat |-> bat]
  BY <1>1, Zenon DEF Accepted
<1>3. o.ok = true /\ o.table = used /\ o.meta = v /\ o.bat = bat
  BY <1>2
<1> QED
  BY <1>1, <1>3, Zenon

LEMMA AcceptedTable ==
  ASSUME NEW im, NEW len, NEW o, NEW used, NEW table, NEW b, NEW m, NEW v, Accepted(im, len, o, used, table, b, m, v)
  PROVE  \E raw : raw = im.bat[b.at] /\ o.bat = ReadBAT(raw, v)
  BY AcceptedValues

\* A sound image that opens does so with its own structures.
LEMMA OwnStructures ==
  ASSUME NEW im, NEW d, NEW len, VhdxSound(im, d, len),
         NEW o, NEW used, NEW table, NEW b, NEW m, NEW v, Accepted(im, len, o, used, table, b, m, v)
  PROVE  b.at = d.batAt /\ m.at = d.metaAt /\ v = ParseMetadata(im.meta[d.metaAt], m.size) /\ im.bat[b.at] = Layout(d)
<1>1. used \in 1..2
  BY AcceptedParts, UsedIsGood
<1>2. TablesSound(im, d, len) /\ TableSound(im, d)
  BY DEF VhdxSound
<1>3. LET t == im.tables[used] IN
      Complete(t) /\ RegionsValid(Region(t, "bat"), Region(t, "metadata"), len) =>
        Region(t, "bat").at = d.batAt /\ Region(t, "metadata").at = d.metaAt
  BY <1>1, <1>2, Zenon DEF TablesSound
<1>4. b.at = d.batAt /\ m.at = d.metaAt
  BY <1>3, Zenon DEF Accepted
<1>5. im.bat[d.batAt] = Layout(d)
  BY <1>2, Zenon DEF TableSound
<1> QED
  BY <1>4, <1>5, Zenon DEF Accepted

Used(mm) == {x \in ToSet(mm.items) : x.size # 0}
Has(mm, id) == \E x \in Used(mm) : x.id = id

\* What is accepted of the metadata, and what comes out.
LEMMA Parsed ==
  ASSUME NEW mm, NEW size, NEW v, v = ParseMetadata(mm, size), v.ok
  PROVE  /\ size > 0 => Len(mm.items) <= size - 1
         /\ \A i \in DOMAIN mm.items : ItemValid(mm.items[i], Len(mm.items), size)
         /\ \A x \in Used(mm) : ValueValid(x, mm.values)
         /\ v.type = IF ~Has(mm, "parameters") THEN 0
                     ELSE IF mm.values.hasParent THEN DiffType
                     ELSE IF mm.values.leaveAllocated THEN FixedType ELSE DynamicType
         /\ v.blockSize = IF Has(mm, "parameters") THEN mm.values.blockSize ELSE 0
         /\ v.size = IF Has(mm, "size") THEN mm.values.size ELSE 0
         /\ v.sector = IF Has(mm, "logical") THEN mm.values.logical ELSE DefaultSector
<1> DEFINE C == /\ mm.sound
                /\ size > 0 => Len(mm.items) <= size - 1
                /\ \A i \in DOMAIN mm.items : ItemValid(mm.items[i], Len(mm.items), size)
                /\ \A x \in Used(mm) : ValueValid(x, mm.values)
<1>1. PICK true, ty, bs, sz, sec, par, pa :
        /\ true = TRUE
        /\ ty = IF ~Has(mm, "parameters") THEN 0
                ELSE IF mm.values.hasParent THEN DiffType
                ELSE IF mm.values.leaveAllocated THEN FixedType ELSE DynamicType
        /\ bs = IF Has(mm, "parameters") THEN mm.values.blockSize ELSE 0
        /\ sz = IF Has(mm, "size") THEN mm.values.size ELSE 0
        /\ sec = IF Has(mm, "logical") THEN mm.values.logical ELSE DefaultSector
        /\ par = IF Has(mm, "locator") THEN Linkage(mm.values.locator) ELSE "none"
        /\ pa = IF Has(mm, "locator") THEN RecordedPaths(mm.values.locator) ELSE <<>>
  OBVIOUS
<1>2. v = IF C THEN [ok |-> true, type |-> ty, blockSize |-> bs, size |-> sz, sector |-> sec, parent |-> par, paths |-> pa]
          ELSE Bad
  BY <1>1, Zenon DEF ParseMetadata, Used, Has
<1>3. ~Bad.ok
  BY DEF Bad
<1>4. C /\ v = [ok |-> true, type |-> ty, blockSize |-> bs, size |-> sz, sector |-> sec, parent |-> par, paths |-> pa]
  BY <1>2, <1>3, Zenon
<1> HIDE DEF C
<1>a. PICK u : u = v
  OBVIOUS
<1>b. u = [ok |-> true, type |-> ty, blockSize |-> bs, size |-> sz, sector |-> sec, parent |-> par, paths |-> pa]
  BY <1>4, <1>a, Zenon
<1>c. u.type = ty /\ u.blockSize = bs /\ u.size = sz /\ u.sector = sec
  BY <1>b
<1>5. v.type = ty /\ v.blockSize = bs /\ v.size = sz /\ v.sector = sec
  BY <1>a, <1>c, Zenon
<1> QED
  BY <1>1, <1>4, <1>5, Zenon DEF C

\* A sound image that opens is the disk that is stored in it.
LEMMA OwnGeometry ==
  ASSUME NEW im, NEW d, NEW len, VhdxSound(im, d, len),
         NEW o, NEW used, NEW table, NEW b, NEW m, NEW v, Accepted(im, len, o, used, table, b, m, v)
  PROVE  /\ v.type = d.type /\ v.size = d.size /\ ChunkRatio(v) = d.ratio
         /\ Chunked(d, BlockCount(v), d.ratio)
<1>1. PICK mm : mm = im.meta[d.metaAt]
  OBVIOUS
<1>2. v = ParseMetadata(mm, m.size) /\ v.ok /\ GeometryValid(v, b, len)
  <2>1. v.ok /\ GeometryValid(v, b, len)
    BY AcceptedParts, Zenon
  <2>2. v = ParseMetadata(im.meta[d.metaAt], m.size)
    BY OwnStructures
  <2> QED
    BY <1>1, <2>1, <2>2, Zenon
<1>3. v.blockSize # 0 /\ v.size # 0 /\ v.sector # 0 /\ ChunkRatio(v) # 0
  BY <1>2, Zenon DEF GeometryValid
<1>4. /\ Has(mm, "parameters") /\ Has(mm, "size") /\ v.blockSize = mm.values.blockSize /\ v.size = mm.values.size
      /\ v.type = IF mm.values.hasParent THEN DiffType
                  ELSE IF mm.values.leaveAllocated THEN FixedType ELSE DynamicType
      /\ v.sector = IF Has(mm, "logical") THEN mm.values.logical ELSE DefaultSector
      /\ \A x \in Used(mm) : ValueValid(x, mm.values)
  <2>1. /\ \A x \in Used(mm) : ValueValid(x, mm.values)
        /\ v.type = IF ~Has(mm, "parameters") THEN 0
                    ELSE IF mm.values.hasParent THEN DiffType
                    ELSE IF mm.values.leaveAllocated THEN FixedType ELSE DynamicType
        /\ v.blockSize = IF Has(mm, "parameters") THEN mm.values.blockSize ELSE 0
        /\ v.size = IF Has(mm, "size") THEN mm.values.size ELSE 0
        /\ v.sector = IF Has(mm, "logical") THEN mm.values.logical ELSE DefaultSector
    BY <1>2, Parsed
  <2> QED
    BY <1>3, <2>1, Zenon
<1>5. mm.values.blockSize \in MinBlock..MaxBlock
  <2>1. PICK x \in Used(mm) : x.id = "parameters"
    BY <1>4, Zenon DEF Has
  <2>2. ValueValid(x, mm.values)
    BY <1>4, Zenon
  <2> QED
    BY <2>1, <2>2, Zenon DEF ValueValid
<1>6. MetadataSound(im, d)
  BY DEF VhdxSound
<1>7. v.sector = mm.values.logical /\ mm.values.logical \in SectorSizes \cup {DefaultSector}
  <2>1. CASE Has(mm, "logical")
    <3>1. PICK x \in Used(mm) : x.id = "logical"
      BY <2>1, Zenon DEF Has
    <3>a. ValueValid(x, mm.values)
      BY <1>4, Zenon
    <3>b. x.id \in {"logical", "physical"}
      BY <3>1
    <3>2. mm.values[x.id] \in SectorSizes
      BY <3>a, <3>b, Zenon DEF ValueValid
    <3>3. mm.values.logical \in SectorSizes
      BY <3>1, <3>2, Zenon
    <3> QED
      BY <1>4, <2>1, <3>3, Zenon
  <2>2. CASE ~Has(mm, "logical")
    <3>1. \A x \in ToSet(mm.items) : x.id = "logical" => x.size = 0
      BY <2>2, Zenon DEF Has, Used
    <3>2. mm.values.logical = DefaultSector
      BY <1>1, <1>6, <3>1, Zenon DEF MetadataSound
    <3> QED
      BY <1>4, <2>2, <3>2, Zenon
  <2> QED
    BY <2>1, <2>2
<1>8. /\ mm.values.size = d.size /\ mm.values.blockSize \in Nat /\ mm.values.logical \in Nat
      /\ d.type = IF mm.values.hasParent THEN DiffType
                  ELSE IF mm.values.leaveAllocated THEN FixedType ELSE DynamicType
      /\ d.ratio = (ChunkSectors * mm.values.logical) \div mm.values.blockSize
      /\ DOMAIN d.blocks = 0..(Up(d.size, mm.values.blockSize) - 1)
      /\ DOMAIN d.bitmaps = 0..(Up(Up(d.size, mm.values.blockSize), d.ratio) - 1)
  BY <1>1, <1>5, <1>6, <1>7, Zenon DEF MetadataSound
<1>9. ChunkRatio(v) = d.ratio /\ v.size = d.size /\ v.type = d.type
  BY <1>4, <1>7, <1>8, Zenon DEF ChunkRatio
<1>10. d.size \in Nat \ {0} /\ v.blockSize \in Nat \ {0}
  BY <1>3, <1>4, <1>8, <1>9 DEF VhdxSound, VhdxShape
<1>11. PICK n \in Nat \ {0} : n = BlockCount(v)
  BY <1>9, <1>10, ChunksOf DEF BlockCount
<1>12. DOMAIN d.blocks = 0..(n - 1) /\ DOMAIN d.bitmaps = 0..(Up(n, d.ratio) - 1)
  BY <1>4, <1>8, <1>9, <1>11, Zenon DEF BlockCount
<1>13. Cardinality(DOMAIN d.blocks) = n
  <2>1. Cardinality(0..(n - 1)) = (n - 1) - 0 + 1
    BY FS_Interval
  <2> QED
    BY <1>12, <2>1
<1>14. d.ratio \in Nat \ {0}
  BY Zenon DEF VhdxSound, TableSound
<1> QED
  BY <1>9, <1>11, <1>12, <1>13, <1>14, Zenon DEF Chunked

\* What an open reads of the block table is what is stored.
LEMMA OwnBlocks ==
  ASSUME NEW im, NEW d, NEW len, VhdxSound(im, d, len),
         NEW o, NEW used, NEW table, NEW b, NEW m, NEW v, Accepted(im, len, o, used, table, b, m, v)
  PROVE  /\ DOMAIN o.bat.blocks = DOMAIN d.blocks /\ DOMAIN o.bat.bitmaps = DOMAIN d.bitmaps
         /\ \A k \in DOMAIN d.blocks :
              /\ o.bat.blocks[k].state = d.blocks[k].state
              /\ o.bat.blocks[k].at = IF d.blocks[k].state \in {Present, Partial} THEN d.blocks[k].at ELSE -1
         /\ \A c \in DOMAIN d.bitmaps :
              o.bat.bitmaps[c] = IF d.bitmaps[c] = Empty THEN -1 ELSE d.bitmaps[c].at
<1>1. PICK n : n = BlockCount(v)
  OBVIOUS
<1>2. PICK R : R = d.ratio
  OBVIOUS
<1>3. Chunked(d, n, R) /\ ChunkRatio(v) = R /\ v.type = d.type
  BY <1>1, <1>2, OwnGeometry
<1>4. PICK raw : raw = Layout(d)
  OBVIOUS
<1>5. im.bat[b.at] = raw
  BY <1>4, OwnStructures
<1>6. PICK total : total = EntryCount(n, R, d.type)
  OBVIOUS
<1>a. \E e : e = im.bat[b.at] /\ o.bat = ReadBAT(e, v)
  BY AcceptedTable
<1> DEFINE Block(e) == [state |-> e.state, at |-> IF e.state \in {Present, Partial} THEN e.at ELSE -1]
           Bitmap(i) == IF i < total /\ raw[i + 1].state = Present THEN raw[i + 1].at ELSE -1
           P(k) == Block(raw[PayloadIndex(k, R) + 1])
           Q(c) == Bitmap(BitmapIndex(c, R))
<1>7. o.bat = [blocks |-> [k \in 0..(n - 1) |-> P(k)], bitmaps |-> [c \in 0..(Up(n, R) - 1) |-> Q(c)]]
  <2>1. o.bat = ReadBAT(raw, v)
    BY <1>5, <1>a, Zenon
  <2>2. ReadBAT(raw, v) =
          LET blocks == BlockCount(v)
              ratio == ChunkRatio(v)
              all == EntryCount(blocks, ratio, v.type)
              block(e) == [state |-> e.state, at |-> IF e.state \in {Present, Partial} THEN e.at ELSE -1]
              bitmap(i) == IF i < all /\ raw[i + 1].state = Present THEN raw[i + 1].at ELSE -1
          IN  [blocks |-> [k \in 0..(blocks - 1) |-> block(raw[PayloadIndex(k, ratio) + 1])],
               bitmaps |-> [c \in 0..(Up(blocks, ratio) - 1) |-> bitmap(BitmapIndex(c, ratio))]]
    BY Zenon DEF ReadBAT
  <2> QED
    BY <1>1, <1>3, <1>6, <2>1, <2>2, Zenon
<1> HIDE DEF P, Q
<1>8. PICK f, g : f = [k \in 0..(n - 1) |-> P(k)] /\ g = [c \in 0..(Up(n, R) - 1) |-> Q(c)]
  OBVIOUS
<1>9. o.bat.blocks = f /\ o.bat.bitmaps = g
  BY <1>7, <1>8
<1>10. DOMAIN d.blocks = 0..(n - 1) /\ DOMAIN d.bitmaps = 0..(Up(n, R) - 1)
  BY <1>3 DEF Chunked
<1>11. DOMAIN f = DOMAIN d.blocks /\ DOMAIN g = DOMAIN d.bitmaps
  BY <1>8, <1>10
<1>12. ASSUME NEW k \in DOMAIN d.blocks
       PROVE  /\ f[k].state = d.blocks[k].state
              /\ f[k].at = IF d.blocks[k].state \in {Present, Partial} THEN d.blocks[k].at ELSE -1
  <2>1. f[k] = P(k)
    BY <1>8, <1>10, <1>12
  <2>2. raw[PayloadIndex(k, R) + 1] = d.blocks[k]
    BY <1>3, <1>4, <1>10, <1>12, PayloadFound
  <2>3. P(k) = Block(d.blocks[k])
    BY <2>2, Zenon DEF P
  <2> QED
    BY <2>1, <2>3
<1>13. ASSUME NEW c \in DOMAIN d.bitmaps
       PROVE  g[c] = IF d.bitmaps[c] = Empty THEN -1 ELSE d.bitmaps[c].at
  <2>1. g[c] = Q(c)
    BY <1>8, <1>10, <1>13
  <2>2. PICK i : i = BitmapIndex(c, R)
    OBVIOUS
  <2>3. /\ i < total => raw[i + 1] = d.bitmaps[c]
        /\ d.type = DiffType => i < total
    BY <1>3, <1>4, <1>6, <1>10, <1>13, <2>2, BitmapFound
  <2>4. Q(c) = IF i < total /\ raw[i + 1].state = Present THEN raw[i + 1].at ELSE -1
    BY <2>2, Zenon DEF Q
  <2>5. /\ d.bitmaps[c] \in {Empty} \cup [state : {Present}, at : Nat]
        /\ d.type # DiffType => d.bitmaps[c] = Empty
    BY <1>13, Zenon DEF VhdxSound, TableSound
  <2>6. Empty.state # Present /\ (d.bitmaps[c] \in [state : {Present}, at : Nat] => d.bitmaps[c].state = Present)
    BY DEF Empty, Present
  <2>7. CASE d.bitmaps[c] = Empty
    BY <2>1, <2>3, <2>4, <2>6, <2>7, Zenon
  <2>8. CASE d.bitmaps[c] # Empty
    BY <2>1, <2>3, <2>4, <2>5, <2>6, <2>8, Zenon
  <2> QED
    BY <2>7, <2>8
<1> QED
  BY <1>9, <1>11, <1>12, <1>13, Zenon

LEMMA OpenedVHDX ==
  ASSUME ImageInv, IsVHDX
  PROVE  /\ VhdxSound(image, disk, Size) /\ Opened = OpenVHDX(image, Size) /\ Probed = ProbeVHDX(image, Size)
         /\ image.len \in Nat \ {0} /\ Size \in Nat
<1>1. VhdxSound(image, disk, Size) /\ image.len \in Nat \ {0} /\ Size \in Nat
  BY VhdxParts
<1>2. Opened = OpenVHDX(image, Size) /\ Probed = ProbeVHDX(image, Size)
  BY Zenon DEF Opened, Probed
<1> QED
  BY <1>1, <1>2

LEMMA TypeOfVHDX ==
  ASSUME ImageInv, IsVHDX PROVE TypeOK
<1>1. VhdxSound(image, disk, Size) /\ Opened = OpenVHDX(image, Size) /\ image.len \in Nat
  BY OpenedVHDX
<1>2. known \in BOOLEAN /\ damaged \in BOOLEAN /\ w = Idle
  BY VhdxParts
<1>3. ASSUME Opened.ok
      PROVE  DOMAIN Opened.bat.blocks = DOMAIN disk.blocks /\ DOMAIN Opened.bat.bitmaps = DOMAIN disk.bitmaps
  <2>1. PICK o : o = Opened
    OBVIOUS
  <2>2. PICK used, table, b, m, v : Accepted(image, Size, o, used, table, b, m, v)
    BY <1>1, <1>3, <2>1, OpenedAccepted
  <2> QED
    BY <1>1, <2>1, <2>2, OwnBlocks
<1>4. w.pc \in {"idle", "footer", "link"} /\ w.block \in {0} \cup DOMAIN disk.blocks
  BY <1>2 DEF Idle
<1> QED
  BY <1>1, <1>2, <1>3, <1>4, Zenon DEF TypeOK

LEMMA VhdxOpensAsWritten ==
  ASSUME ImageInv, IsVHDX PROVE OpensAsWritten
<1> SUFFICES ASSUME Opened.ok
             PROVE  /\ Opened.meta.type = disk.type /\ Opened.meta.size = disk.size
                    /\ \A b \in DOMAIN disk.blocks :
                         /\ Opened.bat.blocks[b].state = disk.blocks[b].state
                         /\ Opened.bat.blocks[b].at = IF disk.blocks[b].state \in {Present, Partial}
                                                      THEN disk.blocks[b].at ELSE -1
                    /\ \A c \in DOMAIN disk.bitmaps :
                         Opened.bat.bitmaps[c] = IF disk.bitmaps[c] = Empty THEN -1 ELSE disk.bitmaps[c].at
  BY Zenon DEF OpensAsWritten
<1>1. VhdxSound(image, disk, Size) /\ Opened = OpenVHDX(image, Size)
  BY OpenedVHDX
<1>2. PICK o : o = Opened
  OBVIOUS
<1>3. PICK used, table, b, m, v : Accepted(image, Size, o, used, table, b, m, v)
  BY <1>1, <1>2, OpenedAccepted
<1>4. v.type = disk.type /\ v.size = disk.size
  BY <1>1, <1>3, OwnGeometry
<1>5. o.meta = v
  BY <1>3, AcceptedValues
<1>6. /\ \A k \in DOMAIN disk.blocks :
           /\ o.bat.blocks[k].state = disk.blocks[k].state
           /\ o.bat.blocks[k].at = IF disk.blocks[k].state \in {Present, Partial} THEN disk.blocks[k].at ELSE -1
      /\ \A c \in DOMAIN disk.bitmaps :
           o.bat.bitmaps[c] = IF disk.bitmaps[c] = Empty THEN -1 ELSE disk.bitmaps[c].at
  BY <1>1, <1>3, OwnBlocks
<1> QED
  BY <1>2, <1>4, <1>5, <1>6, Zenon

LEMMA VhdxNothingIgnored ==
  ASSUME ImageInv, IsVHDX, Opened.ok PROVE NothingRequiredIgnored
<1>1. VhdxSound(image, disk, Size) /\ Opened = OpenVHDX(image, Size)
  BY OpenedVHDX
<1>2. PICK o : o = Opened
  OBVIOUS
<1>3. PICK used, table, b, m, v : Accepted(image, Size, o, used, table, b, m, v)
  BY <1>1, <1>2, OpenedAccepted
<1>4. o.table = used
  BY <1>3, AcceptedValues
<1>5. \A t \in 1..used : image.tables[t].sound => ~NeedsUnknown(image.tables[t])
  BY <1>3, AcceptedParts, UsedIsGood
<1>6. ASSUME NEW t \in 1..used, image.tables[t].sound, NEW i \in DOMAIN image.tables[t].regions,
             image.tables[t].regions[i].req
      PROVE  image.tables[t].regions[i].type \in Known
  <2>1. image.tables[t].regions[i] \in Entries(image.tables[t])
    BY Zenon DEF Entries
  <2>2. ~NeedsUnknown(image.tables[t])
    BY <1>5, <1>6, Zenon
  <2> QED
    BY <1>6, <2>1, <2>2, Zenon DEF NeedsUnknown
<1>7. PICK mm : mm = image.meta[disk.metaAt]
  OBVIOUS
<1>8. \A x \in Used(mm) : ValueValid(x, mm.values)
  <2>1. v = ParseMetadata(mm, m.size)
    BY <1>1, <1>3, <1>7, OwnStructures
  <2>2. v.ok
    BY <1>3, AcceptedParts
  <2> QED
    BY <2>1, <2>2, Parsed
<1>9. ASSUME NEW x \in ToSet(mm.items), x.req, x.size # 0 PROVE x.id \in MetadataItems
  <2>1. ValueValid(x, mm.values)
    BY <1>8, <1>9, Zenon DEF Used
  <2> QED
    BY <1>9, <2>1, Zenon DEF ValueValid
<1> QED
  BY <1>2, <1>4, <1>6, <1>7, <1>9, Zenon DEF NothingRequiredIgnored

\* The numbers of a sound table.
RegionOK(r) == r.at \in Nat /\ r.size \in Nat \ {0}

LEMMA RegionIsEntry ==
  ASSUME NEW table, NEW type, Region(table, type).at # 0
  PROVE  /\ Region(table, type) \in Entries(table)
         /\ Region(table, type) = CHOOSE r \in Entries(table) : r.type = type
<1>1. NoRegion.at = 0
  BY DEF NoRegion
<1>2. \E r \in Entries(table) : r.type = type
  BY <1>1, Zenon DEF Region
<1>3. Region(table, type) = CHOOSE r \in Entries(table) : r.type = type
  BY <1>2, Zenon DEF Region
<1>4. (CHOOSE r \in Entries(table) : r.type = type) \in Entries(table)
  BY <1>2, Zenon
<1> QED
  BY <1>3, <1>4, Zenon

LEMMA VhdxApart ==
  ASSUME ImageInv, IsVHDX, known, Opened.ok PROVE StructuresApart
<1>1. VhdxSound(image, disk, Size) /\ Opened = OpenVHDX(image, Size) /\ Size \in Nat \ {0} /\ Size = image.len
  BY OpenedVHDX DEF Size
<1>2. PICK o : o = Opened
  OBVIOUS
<1>3. PICK used, table, b, m, v : Accepted(image, Size, o, used, table, b, m, v)
  BY <1>1, <1>2, OpenedAccepted
<1>4. o.table = used
  BY <1>3, AcceptedValues
<1>5. /\ used = TableUsed(image, Size) /\ used # 0 /\ table = image.tables[used]
      /\ b = Region(table, "bat") /\ m = Region(table, "metadata") /\ v.ok /\ GeometryValid(v, b, Size)
      /\ Complete(table)
  BY <1>3, AcceptedParts
<1>6. used \in 1..2 /\ TableValid(table, Size)
  BY <1>5, UsedIsGood
<1>7. \A r \in Entries(table) : RegionOK(r)
  <2>1. \A t \in 1..2 : \A r \in Entries(image.tables[t]) : r.at \in Nat /\ r.size \in Nat \ {0}
    BY <1>1, Zenon DEF VhdxSound, TablesSound
  <2> QED
    BY <1>5, <1>6, <2>1, Zenon DEF RegionOK
<1>8. /\ b \in Entries(table) /\ b = CHOOSE r \in Entries(table) : r.type = "bat"
      /\ m \in Entries(table) /\ m = CHOOSE r \in Entries(table) : r.type = "metadata"
  BY <1>5, RegionIsEntry DEF Complete
<1>9. b.size \in Nat \ {0} /\ m.size \in Nat \ {0} /\ m.at = disk.metaAt /\ image.bat[b.at] = Layout(disk)
      /\ v = ParseMetadata(image.meta[disk.metaAt], m.size)
  <2>1. b.size \in Nat \ {0} /\ m.size \in Nat \ {0}
    BY <1>7, <1>8 DEF RegionOK
  <2> QED
    BY <1>1, <1>3, <2>1, OwnStructures
<1>10. ASSUME NEW r \in Entries(table), NEW s \in Entries(table), r # s
       PROVE  Units(r) \cap Units(s) = {}
  <2>1. RegionOK(r) /\ RegionOK(s)
    BY <1>7
  <2>2. r.size > 0 /\ s.size > 0 => r.at + r.size <= s.at \/ s.at + s.size <= r.at
    BY <1>6, <1>10, Zenon DEF TableValid
  <2>3. PICK i, j, k, l : i = r.at /\ j = r.size /\ k = s.at /\ l = s.size
    OBVIOUS
  <2>4. i \in Nat /\ j \in Nat \ {0} /\ k \in Nat /\ l \in Nat \ {0} /\ (i + j <= k \/ k + l <= i)
    BY <2>1, <2>2, <2>3 DEF RegionOK
  <2>5. (i..(i + j - 1)) \cap (k..(k + l - 1)) = {}
    BY <2>4
  <2> QED
    BY <2>3, <2>5 DEF Units
<1>11. ASSUME NEW r \in Entries(table) PROVE Units(r) \subseteq Align..(image.len - 1)
  <2>1. r.at \in Nat /\ r.size \in Nat \ {0}
    BY <1>7 DEF RegionOK
  <2>2. r.at > 0 /\ r.at % Align = 0 /\ (Size > 0 => r.at + r.size <= Size)
    BY <1>6, Zenon DEF TableValid
  <2>3. r.at >= Align
    BY <2>1, <2>2 DEF Align
  <2>4. r.at + r.size <= image.len
    BY <1>1, <2>2
  <2>5. PICK i, j, l : i = r.at /\ j = r.size /\ l = image.len
    OBVIOUS
  <2>6. i..(i + j - 1) \subseteq Align..(l - 1)
    BY <1>1, <2>1, <2>3, <2>4, <2>5 DEF Align
  <2> QED
    BY <2>5, <2>6 DEF Units
<1>12. Len(Layout(disk)) <= b.size
  <2>1. /\ ChunkRatio(v) = disk.ratio /\ v.type = disk.type
        /\ Chunked(disk, BlockCount(v), disk.ratio)
    BY <1>1, <1>3, OwnGeometry
  <2>2. PICK n, R : n = BlockCount(v) /\ R = disk.ratio
    OBVIOUS
  <2>3. n \in Nat \ {0} /\ R \in Nat \ {0}
    BY <2>1, <2>2 DEF Chunked
  <2>4. 0 \in 0..(Up(n, R) - 1) /\ 0 \in 0..R
    BY <2>3, ChunksOf
  <2>5. Len(Layout(disk)) = EntryCount(n, R, disk.type)
    BY <2>1, <2>2, <2>4, LayoutEntries
  <2>6. b.size > 0 => EntryCount(n, R, disk.type) <= b.size
    BY <1>5, <2>1, <2>2, Zenon DEF GeometryValid
  <2>7. b.size > 0
    BY <1>9
  <2> QED
    BY <2>5, <2>6, <2>7, Zenon
<1>13. PICK mm : mm = image.meta[disk.metaAt]
  OBVIOUS
<1>14. PICK count : count = Len(mm.items)
  OBVIOUS
<1>15. /\ mm.items \in Seq(ToSet(mm.items))
       /\ \A x \in ToSet(mm.items) : x.at \in Nat /\ x.size \in Nat /\ x.req \in BOOLEAN
  <2>1. MetadataSound(image, disk)
    BY <1>1 DEF VhdxSound
  <2> QED
    BY <1>13, <2>1, Zenon DEF MetadataSound
<1>16. count \in Nat
  BY <1>14, <1>15, LenProperties
<1>17. \A i \in DOMAIN mm.items : ItemValid(mm.items[i], count, m.size)
  BY <1>5, <1>9, <1>13, <1>14, Parsed
<1>18. ASSUME NEW x \in ToSet(mm.items) PROVE Units(x) \subseteq (count + 1)..(m.size - 1)
  <2>1. PICK i \in DOMAIN mm.items : x = mm.items[i]
    BY Zenon DEF ToSet
  <2>2. ItemValid(x, count, m.size)
    BY <1>17, <2>1
  <2>3. PICK k, l, s : k = x.at /\ l = x.size /\ s = m.size
    OBVIOUS
  <2>4. k \in Nat /\ l \in Nat /\ s \in Nat \ {0}
    BY <1>9, <1>15, <2>3
  <2>5. l # 0 => k >= 1 + count /\ (s > 0 => k + l <= s)
    BY <2>2, <2>3, Zenon DEF ItemValid
  <2>6. k..(k + l - 1) \subseteq (count + 1)..(s - 1)
    <3>1. CASE l = 0
      BY <2>4, <3>1
    <3>2. CASE l # 0
      BY <1>16, <2>4, <2>5, <3>2
    <3> QED
      BY <3>1, <3>2
  <2> QED
    BY <2>3, <2>6 DEF Units
<1>19. Opened.table = used /\ image.tables[Opened.table] = table
  BY <1>2, <1>4, <1>5, Zenon
<1>20. ToSet(table.regions) = Entries(table)
  BY Zenon DEF ToSet, Entries
<1>21. Len(image.bat[b.at]) <= b.size
  BY <1>9, <1>12, Zenon
<1>22. \A x \in ToSet(image.meta[m.at].items) :
         Units(x) \subseteq (Len(image.meta[m.at].items) + 1)..(m.size - 1)
  BY <1>9, <1>13, <1>14, <1>18, Zenon
<1>23. /\ \A r, s \in Entries(table) : r # s => Units(r) \cap Units(s) = {}
       /\ \A r \in Entries(table) : Units(r) \subseteq Align..(image.len - 1)
  BY <1>10, <1>11, Zenon
<1> DEFINE T == image.tables[Opened.table]
<1>a. /\ b = CHOOSE r \in ToSet(T.regions) : r.type = "bat"
      /\ m = CHOOSE r \in ToSet(T.regions) : r.type = "metadata"
  <2>1. Region(T, "bat") = b /\ Region(T, "metadata") = m /\ b.at # 0 /\ m.at # 0
    BY <1>5, <1>19, Zenon DEF Complete
  <2> HIDE DEF T
  <2>2. /\ Region(T, "bat") = CHOOSE r \in Entries(T) : r.type = "bat"
        /\ Region(T, "metadata") = CHOOSE r \in Entries(T) : r.type = "metadata"
    BY <2>1, RegionIsEntry
  <2>3. /\ b = CHOOSE r \in Entries(T) : r.type = "bat"
        /\ m = CHOOSE r \in Entries(T) : r.type = "metadata"
    BY <2>1, <2>2, Zenon
  <2> QED
    BY <2>3, Zenon DEF Entries, ToSet
<1>b. ToSet(T.regions) = Entries(table)
  BY <1>19, <1>20, Zenon
<1>c. /\ \A r, s \in ToSet(T.regions) : r # s => Units(r) \cap Units(s) = {}
      /\ \A r \in ToSet(T.regions) : Units(r) \subseteq Align..(image.len - 1)
  BY <1>b, <1>23, Zenon
<1>24. LET t == image.tables[Opened.table]
           regions == ToSet(t.regions)
           meta == CHOOSE r \in regions : r.type = "metadata"
           bat == CHOOSE r \in regions : r.type = "bat"
       IN  /\ \A r, s \in regions : r # s => Units(r) \cap Units(s) = {}
           /\ \A r \in regions : Units(r) \subseteq Align..(image.len - 1)
           /\ Len(image.bat[bat.at]) <= bat.size
           /\ \A x \in ToSet(image.meta[meta.at].items) :
                Units(x) \subseteq (Len(image.meta[meta.at].items) + 1)..(meta.size - 1)
  BY <1>21, <1>22, <1>a, <1>c, Zenon
<1> QED
  BY <1>24, Zenon DEF StructuresApart

\* What is acceptable in a file of a known size is so when the size is not known.
LEMMA SizeUnknown ==
  ASSUME NEW len, NEW size \in {0, len}, NEW table, NEW b, NEW m, NEW v
  PROVE  /\ TableValid(table, len) => TableValid(table, size)
         /\ RegionsValid(b, m, len) => RegionsValid(b, m, size)
         /\ GeometryValid(v, b, len) => GeometryValid(v, b, size)
<1>1. CASE size = len
  BY <1>1, Zenon
<1>2. CASE size = 0
  <2>1. ~(0 > 0)
    OBVIOUS
  <2> QED
    BY <1>2, <2>1, Zenon DEF TableValid, RegionsValid, GeometryValid
<1> QED
  BY <1>1, <1>2, Zenon

LEMMA VhdxOneCopyIsEnough ==
  ASSUME ImageInv, IsVHDX, disk.conformant, image.tables[1].sound \/ image.tables[2].sound
  PROVE  Opened.ok
<1>1. VhdxSound(image, disk, Size) /\ Opened = OpenVHDX(image, Size)
  BY OpenedVHDX
<1>2. Size \in {0, image.len}
  BY DEF Size
<1>3. Conformant(image)
  BY <1>1 DEF VhdxSound, VhdxShape
<1> DEFINE B(t) == Region(image.tables[t], "bat")
           M(t) == Region(image.tables[t], "metadata")
           V(t) == ParseMetadata(image.meta[M(t).at], M(t).size)
<1>4. ASSUME NEW t \in 1..2
      PROVE  /\ ~NeedsUnknown(image.tables[t]) /\ TableValid(image.tables[t], Size) /\ Complete(image.tables[t])
             /\ RegionsValid(B(t), M(t), Size) /\ V(t).ok /\ GeometryValid(V(t), B(t), Size)
  <2>1. /\ ~NeedsUnknown(image.tables[t]) /\ TableValid(image.tables[t], image.len) /\ Complete(image.tables[t])
        /\ RegionsValid(B(t), M(t), image.len) /\ V(t).ok /\ GeometryValid(V(t), B(t), image.len)
    BY <1>3, <1>4, Zenon DEF Conformant
  <2> HIDE DEF B, M, V
  <2> QED
    BY <1>2, <2>1, SizeUnknown, Zenon
<1>5. \A t \in 1..2 : LoadRegions(image.tables[t], Size) = IF image.tables[t].sound THEN "ok" ELSE "bad"
  BY <1>4, Zenon DEF LoadRegions
<1>6. PICK used : used = TableUsed(image, Size)
  OBVIOUS
<1>7. used \in 1..2
  <2> DEFINE first == LoadRegions(image.tables[1], Size)
             second == LoadRegions(image.tables[2], Size)
  <2>1. used = IF first = "unknown" THEN 0
               ELSE IF first = "ok" /\ Complete(image.tables[1]) THEN 1
               ELSE IF second = "ok" THEN 2
               ELSE IF second = "unknown" \/ first = "bad" THEN 0 ELSE 1
    BY <1>6, Zenon DEF TableUsed
  <2>2. first = IF image.tables[1].sound THEN "ok" ELSE "bad"
    BY <1>5
  <2>3. second = IF image.tables[2].sound THEN "ok" ELSE "bad"
    BY <1>5
  <2>4. Complete(image.tables[1])
    <3>1. 1 \in 1..2
      OBVIOUS
    <3> QED
      BY <1>4, <3>1, Zenon
  <2> HIDE DEF first, second
  <2>5. CASE image.tables[1].sound
    BY <2>1, <2>2, <2>4, <2>5
  <2>6. CASE ~image.tables[1].sound
    BY <2>1, <2>2, <2>3, <2>6
  <2> QED
    BY <2>5, <2>6
<1>8. used # 0
  BY <1>7
<1>9. /\ Complete(image.tables[used]) /\ RegionsValid(B(used), M(used), Size)
      /\ V(used).ok /\ GeometryValid(V(used), B(used), Size)
  BY <1>4, <1>7
<1>10. OpenVHDX(image, Size) = [ok |-> TRUE, table |-> used, meta |-> V(used), bat |-> ReadBAT(image.bat[B(used).at], V(used))]
  BY <1>6, <1>8, <1>9, Zenon DEF OpenVHDX
<1>11. PICK meta, bat : meta = V(used) /\ bat = ReadBAT(image.bat[B(used).at], V(used))
  OBVIOUS
<1>12. Opened = [ok |-> TRUE, table |-> used, meta |-> meta, bat |-> bat]
  BY <1>1, <1>10, <1>11, Zenon
<1> QED
  BY <1>12

\* A probe goes by the first table it can use, and an open by one it can use too.
LEMMA VhdxProbeAgrees ==
  ASSUME ImageInv, IsVHDX, Opened.ok,
         \A r, s \in MetadataNamed : r.at # 0 /\ s.at # 0 => r.at = s.at /\ r.size = s.size
  PROVE  Probed = Opened.meta
<1>1. VhdxSound(image, disk, Size) /\ Opened = OpenVHDX(image, Size) /\ Probed = ProbeVHDX(image, Size)
  BY OpenedVHDX
<1>2. PICK o : o = Opened
  OBVIOUS
<1>3. PICK used, table, b, m, v : Accepted(image, Size, o, used, table, b, m, v)
  BY <1>1, <1>2, OpenedAccepted
<1>4. o.meta = v
  BY <1>3, AcceptedValues
<1>5. /\ used = TableUsed(image, Size) /\ used # 0 /\ table = image.tables[used]
      /\ m = Region(table, "metadata") /\ Complete(table)
      /\ v = ParseMetadata(image.meta[m.at], m.size)
  BY <1>3, AcceptedParts
<1>6. used \in 1..2 /\ TableValid(image.tables[used], Size) /\ image.tables[used].sound
  BY <1>5, UsedIsGood
<1>7. Region(image.tables[used], "metadata") = m /\ m.at # 0
  BY <1>5, Zenon DEF Complete
<1> DEFINE good == {t \in 1..2 : /\ image.tables[t].sound /\ TableValid(image.tables[t], Size)
                                 /\ Region(image.tables[t], "metadata").at # 0}
<1>8. used \in good
  BY <1>6, <1>7, Zenon
<1>9. PICK p : p = ProbeTableUsed(image, Size)
  OBVIOUS
<1>10. p = IF good = {} THEN 0 ELSE CHOOSE t \in good : \A u \in good : t <= u
  BY <1>9, Zenon DEF ProbeTableUsed
<1>11. \E t \in good : \A u \in good : t <= u
  <2>1. good \in SUBSET Nat /\ good # {}
    BY <1>8
  <2> HIDE DEF good
  <2> QED
    BY <2>1, LeastExists
<1>12. p \in good
  <2> HIDE DEF good
  <2>1. p = CHOOSE t \in good : \A u \in good : t <= u
    BY <1>8, <1>10, Zenon
  <2> QED
    BY <1>11, <2>1, Zenon
<1>13. PICK r : r = Region(image.tables[p], "metadata")
  OBVIOUS
<1>14. /\ p \in {u \in 1..2 : image.tables[u].sound /\ TableValid(image.tables[u], Size)}
       /\ r.at # 0 /\ p # 0
  BY <1>12, <1>13
<1>15. r \in MetadataNamed
  BY <1>13, <1>14, Zenon DEF MetadataNamed
<1>16. m \in MetadataNamed
  <2>1. used \in {u \in 1..2 : image.tables[u].sound /\ TableValid(image.tables[u], Size)}
    BY <1>6
  <2> QED
    BY <1>7, <2>1, Zenon DEF MetadataNamed
<1>17. r.at = m.at /\ r.size = m.size
  BY <1>7, <1>14, <1>15, <1>16, Zenon
<1>18. Probed = ParseMetadata(image.meta[r.at], r.size)
  BY <1>1, <1>9, <1>13, <1>14, Zenon DEF ProbeVHDX
<1> QED
  BY <1>2, <1>4, <1>5, <1>17, <1>18, Zenon

-----------------------------------------------------------------------------
(* What holds of every image its writer may leave.                          *)

\* Every variable, and what an open returns, is of its type.
THEOREM TypeCorrect == Spec => []TypeOK
<1>1. ImageInv => TypeOK
  BY TypeOfVHD, TypeOfVHDX
<1> QED
  BY <1>1, InvHolds, PTL

\* An image that opens presents what its writer stored: type, size, every block in
\* its place and every bitmap with its chunk, whenever the writer stopped.
THEOREM OpensPresentWhatWasWritten == Spec => []OpensAsWritten
<1>1. ImageInv => OpensAsWritten
  <2>1. ~Opened.ok => OpensAsWritten
    BY DEF OpensAsWritten
  <2> QED
    BY <2>1, VhdOpensAsWritten, VhdxOpensAsWritten
<1> QED
  BY <1>1, InvHolds, PTL

\* One readable copy of a footer or a region table is enough to open an image that
\* has no other fault.
THEOREM OneCopySuffices == Spec => []OneCopyIsEnough
<1>1. ImageInv => OneCopyIsEnough
  BY VhdOneCopyIsEnough, VhdxOneCopyIsEnough, Zenon DEF OneCopyIsEnough
<1> QED
  BY <1>1, InvHolds, PTL

\* An image is reported as recovered exactly when its own footer was not to be had.
THEOREM RecoverySaid == Spec => []SaysWhenRecovered
<1>1. ImageInv => SaysWhenRecovered
  BY VhdSaysWhenRecovered
<1> QED
  BY <1>1, InvHolds, PTL

\* No image opens past a required region or metadata item that is not known.
THEOREM RequiredNeverIgnored == Spec => []NothingRequiredIgnored
<1>1. ImageInv => NothingRequiredIgnored
  <2>1. ~(IsVHDX /\ Opened.ok) => NothingRequiredIgnored
    BY Zenon DEF NothingRequiredIgnored
  <2> QED
    BY <2>1, VhdxNothingIgnored
<1> QED
  BY <1>1, InvHolds, PTL

\* The structures an open relies on are apart from each other, inside the file and
\* inside the region they belong to.
THEOREM StructuresNeverOverlap == Spec => []StructuresApart
<1>1. ImageInv => StructuresApart
  <2>1. ~(IsVHDX /\ known /\ Opened.ok) => StructuresApart
    BY Zenon DEF StructuresApart
  <2> QED
    BY <2>1, VhdxApart
<1> QED
  BY <1>1, InvHolds, PTL

\* A probe of an image that opens reports the disk that the open presents.
THEOREM ProbesAgree == Spec => []ProbeSeesTheSameDisk
<1>1. ImageInv => ProbeSeesTheSameDisk
  BY VhdProbeAgrees, VhdxProbeAgrees, Zenon DEF ProbeSeesTheSameDisk
<1> QED
  BY <1>1, InvHolds, PTL
=============================================================================
