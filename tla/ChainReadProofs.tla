-------------------------- MODULE ChainReadProofs --------------------------
(***************************************************************************)
(* What is proved of ChainRead for every chain of well-formed images, any  *)
(* number of positions, every layout, size and request: a read delivers    *)
(* the content of the device, fails closed, and is atomic to its caller.   *)
(***************************************************************************)
EXTENDS ChainRead, IndexLemmas

-----------------------------------------------------------------------------
(* One image.                                                               *)

\* Where a block's bytes live, one case at a time.
LEMMA ClassifyCases ==
  ASSUME NEW im, NEW b
  PROVE  LET st == im.state[b] IN
         Classify(im, b) =
           IF im.fmt = "VHD" THEN (IF st \in {6, 7} THEN "perSector" ELSE "parent")
           ELSE IF st = 6 THEN "child"
           ELSE IF st = 7 THEN "perSector"
           ELSE IF st = 0 THEN "parent" ELSE "zero"
<1>1. CASE im.fmt = "VHD"
  BY <1>1 DEF Classify, IsAllocated, Full, Partial
<1>2. CASE im.fmt # "VHD" /\ im.state[b] = 6
  <2>1. im.state[b] # 7 /\ im.state[b] # 0
    BY <1>2
  <2>2. Classify(im, b) = "child"
    BY <1>2, <2>1, Zenon DEF Classify, Full, Partial, None
  <2> QED
    BY <1>2, <2>2
<1>3. CASE im.fmt # "VHD" /\ im.state[b] = 7
  <2>1. im.state[b] # 6 /\ im.state[b] # 0
    BY <1>3
  <2>2. Classify(im, b) = "perSector"
    BY <1>3, <2>1, Zenon DEF Classify, Full, Partial, None
  <2> QED
    BY <1>3, <2>1, <2>2
<1>4. CASE im.fmt # "VHD" /\ im.state[b] = 0
  <2>1. im.state[b] # 6 /\ im.state[b] # 7
    BY <1>4
  <2>2. Classify(im, b) = "parent"
    BY <1>4, <2>1, Zenon DEF Classify, Full, Partial, None
  <2> QED
    BY <1>4, <2>1, <2>2
<1>5. CASE im.fmt # "VHD" /\ im.state[b] # 6 /\ im.state[b] # 7 /\ im.state[b] # 0
  <2>1. Classify(im, b) = "zero"
    BY <1>5, Zenon DEF Classify, Full, Partial, None
  <2> QED
    BY <1>5, <2>1
<1> QED
  BY <1>1, <1>2, <1>3, <1>4, <1>5

\* Who answers for a byte, by the kind of the image and the state of its block.
LEMMA SupplierByBlock ==
  ASSUME NEW im, WellFormed(im), NEW v \in 0..(Size - 1)
  PROVE  LET c == Classify(im, BlockIndex(im, v))
             bit == Present(im, BlockIndex(im, v), SectorIndex(im, v))
         IN  /\ im.kind \in {"fixed", "dynamic", "diff"}
             /\ im.kind = "fixed" => Supplier(im, v) = "file"
             /\ im.kind = "dynamic" => Supplier(im, v) = IF HasPayload(im, v) THEN "file" ELSE "zero"
             /\ im.kind = "diff" =>
                  /\ c \in {"child", "parent", "zero", "perSector"}
                  /\ c = "child"  => Supplier(im, v) = "file" /\ HasPayload(im, v)
                  /\ c = "parent" => Supplier(im, v) = "parent"
                  /\ c = "zero"   => Supplier(im, v) = "zero" /\ ~HasPayload(im, v)
                  /\ c = "perSector" /\ bit  => Supplier(im, v) = "file" /\ HasPayload(im, v)
                  /\ c = "perSector" /\ ~bit => Supplier(im, v) = "parent"
<1> DEFINE b == v \div im.bs
           st == im.state[b]
           pos == BitPos(im, b, SectorIndex(im, v))
           bits == im.bitmap[BitmapIndex(im, b)]
           bit == pos \in bits
<1>1. /\ im.fmt = "VHD" \/ im.fmt = "VHDX"
      /\ im.kind = "fixed" \/ im.kind = "dynamic" \/ im.kind = "diff"
      /\ im.fmt = "VHD" => st \in {0, 6}
      /\ st \in {0, 1, 2, 3, 6, 7}
  BY DEF WellFormed, BlockStates, None, Undefined, Zero, Unmapped, Full, Partial
<1>2. Supplier(im, v) =
        IF \/ im.kind = "fixed"
           \/ im.fmt = "VHD"  /\ st # 0 /\ (im.kind = "diff" => bit)
           \/ im.fmt = "VHDX" /\ (st = 6 \/ (st = 7 /\ bit))
        THEN "file"
        ELSE IF im.kind = "diff" /\ ~(im.fmt = "VHDX" /\ st \notin {0, 6, 7}) THEN "parent"
        ELSE "zero"
  BY <1>1 DEF Supplier, BitPos, BitmapIndex, SectorIndex, OffsetInBlock, None, Full, Partial
<1>3. HasPayload(im, v) <=> (st \in {6, 7} /\ (im.fmt = "VHDX" /\ st = 7 => bit))
  BY DEF HasPayload, IsAllocated, BlockIndex, Full, Partial, Present
<1>4. Classify(im, BlockIndex(im, v)) =
        IF im.fmt = "VHD" THEN (IF st \in {6, 7} THEN "perSector" ELSE "parent")
        ELSE IF st = 6 THEN "child"
        ELSE IF st = 7 THEN "perSector"
        ELSE IF st = 0 THEN "parent" ELSE "zero"
  BY ClassifyCases DEF BlockIndex
<1>5. Present(im, BlockIndex(im, v), SectorIndex(im, v)) <=> bit
  BY DEF Present, BlockIndex
<1> HIDE DEF b, st, pos, bits
<1> QED
  BY <1>1, <1>2, <1>3, <1>4, <1>5

\* A byte of an image's file lies at an offset of it.
LEMMA FileOffsetIsOffset ==
  ASSUME NEW im, WellFormed(im), NEW v \in 0..(Size - 1)
  PROVE  FileOffset(im, v) \in Nat
<1>1. im.bs \in Nat \ {0} /\ v \in Nat /\ im.at[BlockIndex(im, v)] \in Nat
  BY SizeAssumption DEF WellFormed, BlockIndex
<1>2. OffsetInBlock(im, v) \in Nat
  BY <1>1, Division DEF OffsetInBlock
<1> QED
  BY <1>1, <1>2 DEF FileOffset

-----------------------------------------------------------------------------
(* The chain: which image answers for a byte.                               *)

\* An image that does not pass a byte on, with only images above it that do, is
\* the nearest, however much of the chain below it is attached.
LEMMA NearestIsFirstSupplier ==
  ASSUME NEW chain, NEW last \in Nat, NEW v, NEW j \in 0..last,
         Supplier(chain[j], v) # "parent",
         \A k \in 0..(j - 1) : Supplier(chain[k], v) = "parent"
  PROVE  Nearest(chain, 0, last, v) = j
<1> DEFINE P(i) == /\ Supplier(chain[i], v) # "parent"
                   /\ \A k \in 0..(i - 1) : Supplier(chain[k], v) = "parent"
<1>1. P(j)
  OBVIOUS
<1>2. \A i \in 0..last : P(i) => i = j
  <2> SUFFICES ASSUME NEW i \in 0..last, P(i), i # j PROVE FALSE
    OBVIOUS
  <2>1. i \in 0..(j - 1) \/ j \in 0..(i - 1)
    OBVIOUS
  <2> QED
    BY <2>1
<1>3. (CHOOSE i \in 0..last : P(i)) = j
  <2> HIDE DEF P
  <2> QED
    BY <1>1, <1>2
<1> QED
  BY <1>3 DEF Nearest

\* When every attached image passes a byte on, nothing is known of it.
LEMMA UnresolvedWhenAllPassOn ==
  ASSUME NEW chain, NEW last \in Nat, NEW v,
         \A k \in 0..last : Supplier(chain[k], v) = "parent"
  PROVE  Content(chain, 0, last, v) = [by |-> "unresolved"]
<1>1. Nearest(chain, 0, last, v) = last + 1
  BY DEF Nearest
<1> QED
  BY <1>1 DEF Content

\* A byte some attached image supplies is known to be there, or known to be
\* missing, and stays what it is when more of the chain is attached.
LEMMA KnownBytesStay ==
  ASSUME NEW chain, NEW last \in Nat, NEW more \in Nat, last <= more, NEW v,
         Content(chain, 0, last, v).by # "unresolved"
  PROVE  Content(chain, 0, more, v) = Content(chain, 0, last, v)
<1> DEFINE S == {j \in 0..last : Supplier(chain[j], v) # "parent"}
<1>1. S # {}
  BY UnresolvedWhenAllPassOn
<1>a. S \in SUBSET Nat
  OBVIOUS
<1>2. PICK j \in S : \A n \in S : j <= n
  <2> HIDE DEF S
  <2> QED
    BY <1>1, <1>a, LeastExists
<1>3. j \in 0..last /\ j \in 0..more /\ Supplier(chain[j], v) # "parent"
  OBVIOUS
<1>4. \A k \in 0..(j - 1) : Supplier(chain[k], v) = "parent"
  <2> SUFFICES ASSUME NEW k \in 0..(j - 1), Supplier(chain[k], v) # "parent" PROVE FALSE
    OBVIOUS
  <2>1. k \in S /\ ~(j <= k)
    BY <1>3
  <2> QED
    BY <1>2, <2>1
<1>5. Nearest(chain, 0, last, v) = j /\ Nearest(chain, 0, more, v) = j
  BY <1>3, <1>4, NearestIsFirstSupplier
<1>6. ~(j > last) /\ ~(j > more)
  BY <1>3
<1> QED
  BY <1>5, <1>6 DEF Content

-----------------------------------------------------------------------------
(* One image: what the read path asks of it, and what it promises.          *)

\* The resolver passes a byte on exactly when the image leaves it to its
\* parent, and answers with zeroes exactly when no file holds it.
LEMMA DispositionIsSupplier ==
  ASSUME NEW im, WellFormed(im), NEW v \in Offsets
  PROVE  /\ Disposition(im, v) = "parent" <=> Supplier(im, v) = "parent"
         /\ Disposition(im, v) # "parent" =>
              (Supplier(im, v) = "zero" <=>
                 Disposition(im, v) = "zero" \/ (im.kind # "fixed" /\ ~HasPayload(im, v)))
  BY SupplierByBlock DEF Disposition, Offsets

\* Two offsets of one block and of sectors that the bitmap treats alike have one
\* disposition.
LEMMA SameSectorSameDisposition ==
  ASSUME NEW im, NEW v, NEW w,
         BlockIndex(im, v) = BlockIndex(im, w),
         im.kind = "diff" /\ Classify(im, BlockIndex(im, v)) = "perSector" =>
           (Present(im, BlockIndex(im, v), SectorIndex(im, v)) <=>
              Present(im, BlockIndex(im, w), SectorIndex(im, w)))
  PROVE  Disposition(im, v) = Disposition(im, w)
  BY DEF Disposition

\* A run is never empty, never longer than what was asked for, and all of it has
\* the disposition of its first byte: what makes it right to serve it as one.
LEMMA RunHasOneDisposition ==
  ASSUME NEW im, WellFormed(im), NEW at \in Offsets, NEW end \in 0..Size, at < end
  PROVE  /\ RunEnd(im, at, end) \in (at + 1)..end
         /\ \A v \in at..(RunEnd(im, at, end) - 1) : Disposition(im, v) = Disposition(im, at)
<1> DEFINE b   == BlockIndex(im, at)
           seg == SegmentEnd(im, at, end)
           s   == SectorIndex(im, at)
           t   == SectorIndex(im, seg - 1)
           same(r) == \A u \in s..r : Present(im, b, u) = Present(im, b, s)
<1>1. /\ im.bs \in Nat \ {0} /\ im.ss \in Nat \ {0} /\ at \in Nat /\ end \in Nat
      /\ b \in Nat /\ b * im.bs <= at /\ at < (b + 1) * im.bs
  <2>1. im.bs \in Nat \ {0} /\ im.ss \in Nat \ {0} /\ at \in Nat /\ end \in Nat
    BY SizeAssumption DEF WellFormed, Offsets
  <2> QED
    BY <2>1, Division DEF BlockIndex
<1>2. CASE im.kind = "fixed"
  BY <1>2, <1>1 DEF RunEnd, SegmentEnd, Disposition
<1>3. CASE im.kind # "fixed"
  <2>1. seg \in (at + 1)..end /\ seg <= (b + 1) * im.bs
    BY <1>3, <1>1 DEF SegmentEnd, Min2, BlockEnd
  <2>2. ASSUME NEW v \in at..(seg - 1)
        PROVE  BlockIndex(im, v) = b /\ OffsetInBlock(im, v) = v - b * im.bs /\ v \in Nat
    <3>1. v \in Nat /\ b * im.bs <= v /\ v < (b + 1) * im.bs
      BY <1>1, <2>1
    <3> QED
      BY <1>1, <3>1, DivisionUnique DEF BlockIndex, OffsetInBlock
  <2>3. CASE ~(im.kind = "diff" /\ Classify(im, b) = "perSector")
    <3>1. RunEnd(im, at, end) = seg
      BY <2>3 DEF RunEnd
    <3>2. \A v \in at..(seg - 1) : Disposition(im, v) = Disposition(im, at)
      <4>1. at \in at..(seg - 1)
        BY <1>1, <2>1
      <4> QED
        BY <2>2, <2>3, <4>1, SameSectorSameDisposition
    <3> QED
      BY <2>1, <3>1, <3>2
  <2>4. CASE im.kind = "diff" /\ Classify(im, b) = "perSector"
    <3>1. s \in Nat /\ t \in Nat /\ s <= t
      <4>1. at \in at..(seg - 1) /\ seg - 1 \in at..(seg - 1)
        BY <1>1, <2>1
      <4>2. at - b * im.bs \in Nat /\ (seg - 1) - b * im.bs \in Nat
            /\ at - b * im.bs <= (seg - 1) - b * im.bs
        BY <1>1, <2>1
      <4>3. s = (at - b * im.bs) \div im.ss /\ t = ((seg - 1) - b * im.bs) \div im.ss
        BY <2>2, <4>1 DEF SectorIndex
      <4> HIDE DEF b, seg, s, t
      <4> QED
        BY <1>1, <4>2, <4>3, Division, DivisionMonotone
    <3>2. PICK last \in s..t : /\ RunEnd(im, at, end) = Min2(seg, b * im.bs + (last + 1) * im.ss)
                              /\ same(last)
      <4> DEFINE S == {r \in s..t : same(r)}
      <4>1. S \in SUBSET (0..t) /\ s \in S
        BY <3>1
      <4>2. PICK m \in S : \A n \in S : n <= m
        <5> HIDE DEF S
        <5> QED
          BY <3>1, <4>1, GreatestExists
      <4>3. m \in s..t /\ same(m) /\ (m < t => ~same(m + 1))
        <5>1. m < t => m + 1 \in s..t /\ ~(m + 1 <= m)
          BY <3>1
        <5> QED
          BY <4>2, <5>1
      <4> DEFINE last == CHOOSE r \in s..t : same(r) /\ (r < t => ~same(r + 1))
      <4>4. last \in s..t /\ same(last)
        BY <4>3
      <4>5. RunEnd(im, at, end) = Min2(seg, b * im.bs + (last + 1) * im.ss)
        BY <2>4 DEF RunEnd
      <4> QED
        BY <4>4, <4>5
    <3>3. at < b * im.bs + (last + 1) * im.ss
      <4>1. at - b * im.bs \in Nat /\ s = (at - b * im.bs) \div im.ss
        BY <1>1, <2>1, <2>2 DEF SectorIndex
      <4>2. at - b * im.bs < (s + 1) * im.ss
        BY <1>1, <4>1, Division
      <4>3. (s + 1) * im.ss <= (last + 1) * im.ss
        BY <1>1, <3>1, SMT
      <4> HIDE DEF b, seg, s, t
      <4> QED
        BY <1>1, <3>1, <4>2, <4>3
    <3>4. RunEnd(im, at, end) \in (at + 1)..seg /\ RunEnd(im, at, end) <= b * im.bs + (last + 1) * im.ss
      <4> HIDE DEF b, seg, s, t, same
      <4> QED
        BY <1>1, <2>1, <3>1, <3>2, <3>3 DEF Min2
    <3>5. ASSUME NEW v \in at..(RunEnd(im, at, end) - 1)
          PROVE  Disposition(im, v) = Disposition(im, at)
      <4>1. v \in at..(seg - 1) /\ v < b * im.bs + (last + 1) * im.ss
        <5> HIDE DEF b, seg, s, t, same
        <5> QED
          BY <1>1, <2>1, <3>1, <3>4
      <4>2. BlockIndex(im, v) = b /\ v - b * im.bs \in Nat /\ at - b * im.bs \in Nat
            /\ at - b * im.bs <= v - b * im.bs
        BY <1>1, <2>1, <2>2, <4>1
      <4>3. SectorIndex(im, v) = (v - b * im.bs) \div im.ss /\ s = (at - b * im.bs) \div im.ss
        BY <1>1, <2>1, <2>2, <4>1 DEF SectorIndex
      <4>4. SectorIndex(im, v) \in s..last
        <5>1. s <= SectorIndex(im, v) /\ SectorIndex(im, v) \in Nat
          <6>1. (at - b * im.bs) \div im.ss <= (v - b * im.bs) \div im.ss
            BY <1>1, <4>2, DivisionMonotone
          <6>2. (v - b * im.bs) \div im.ss \in Nat
            BY <1>1, <4>2, Division
          <6> HIDE DEF b, seg, s, t, same
          <6> QED
            BY <4>3, <6>1, <6>2
        <5>2. SectorIndex(im, v) <= last
          <6> SUFFICES ASSUME last + 1 <= SectorIndex(im, v) PROVE FALSE
            BY <3>1, <5>1
          <6>1. (last + 1) * im.ss <= SectorIndex(im, v) * im.ss
            BY <1>1, <3>1, <5>1, SMT
          <6>2. SectorIndex(im, v) * im.ss <= v - b * im.bs
            BY <1>1, <4>2, <4>3, Division
          <6> HIDE DEF b, seg, s, t, same
          <6> QED
            BY <1>1, <3>1, <4>1, <4>2, <5>1, <6>1, <6>2
        <5> QED
          BY <3>1, <5>1, <5>2
      <4> QED
        BY <3>2, <4>2, <4>4, SameSectorSameDisposition
    <3> QED
      BY <2>1, <3>4, <3>5
  <2> QED
    BY <2>3, <2>4
<1> QED
  BY <1>2, <1>3

\* A run cut short at v ends somewhere between its start and v.
LEMMA ShortRunEndsBeforeTheCut ==
  ASSUME NEW im, WellFormed(im), NEW at \in Offsets, NEW v \in Offsets, at <= v
  PROVE  ShortOf(im, at, v) \in at..v
<1>1. /\ im.bs \in Nat \ {0} /\ im.ss \in Nat \ {0} /\ at \in Nat /\ v \in Nat
  BY SizeAssumption DEF WellFormed, Offsets
<1>2. CASE ~(im.fmt = "VHDX" /\ im.state[BlockIndex(im, v)] = Partial)
  BY <1>1, <1>2 DEF ShortOf
<1>3. CASE im.fmt = "VHDX" /\ im.state[BlockIndex(im, v)] = Partial
  <2> DEFINE b == BlockIndex(im, v)
             o == OffsetInBlock(im, v)
             s == SectorIndex(im, v)
  <2>1. b \in Nat /\ o \in Nat /\ v = b * im.bs + o
    BY <1>1, Division DEF BlockIndex, OffsetInBlock
  <2>2. s \in Nat /\ s * im.ss <= o
    BY <1>1, <2>1, Division DEF SectorIndex
  <2>3. ShortOf(im, at, v) = Max2(at, b * im.bs + s * im.ss)
    BY <1>3 DEF ShortOf
  <2>4. b * im.bs \in Nat /\ s * im.ss \in Nat
    BY <1>1, <2>1, <2>2
  <2> HIDE DEF b, o, s
  <2> QED
    BY <1>1, <2>1, <2>2, <2>3, <2>4 DEF Max2
<1> QED
  BY <1>2, <1>3

-----------------------------------------------------------------------------
(* The chain: which image answers for a byte.                               *)

\* The attached chain ends at the first position without an attached parent.
LEMMA LastLinkedIsFirstUnlinked ==
  ASSUME NEW links \in SUBSET (0..(Last - 1))
  PROVE  /\ LastLinked(links) \in Positions
         /\ LastLinked(links) \notin links
         /\ 0..(LastLinked(links) - 1) \subseteq links
<1> DEFINE Free == {i \in Positions : i \notin links}
<1>1. Free \in SUBSET Nat /\ Last \in Free
  BY LastAssumption DEF Positions
<1>2. PICK i \in Free : \A n \in Free : i <= n
  BY <1>1, LeastExists
<1>3. i \in Positions /\ i \notin links
  OBVIOUS
<1>4. 0..(i - 1) \subseteq links
  <2> SUFFICES ASSUME NEW k \in 0..(i - 1), k \notin links PROVE FALSE
    OBVIOUS
  <2>1. k \in Free /\ ~(i <= k)
    BY <1>3, LastAssumption DEF Positions
  <2> QED
    BY <1>2, <2>1
<1> QED
  BY <1>3, <1>4 DEF LastLinked

\* What the image at i answers for a byte that every image above it passes on is
\* the content of the device, and if its file is too short the byte is missing.
LEMMA OwnByteIsContent ==
  ASSUME NEW last \in Positions, NEW i \in 0..last, NEW v \in Offsets,
         \A k \in 0..i : WellFormed(img[k]),
         \A k \in 0..(i - 1) : Disposition(img[k], v) = "parent",
         Disposition(img[i], v) # "parent"
  PROVE  /\ OwnByte(i, v) \in Bytes
         /\ InFile(i, v) => Content(img, 0, last, v) = OwnByte(i, v)
         /\ ~InFile(i, v) => Content(img, 0, last, v) = [by |-> "missing"]
<1> DEFINE im == img[i]
<1>1. i \in 0..i /\ i \in Positions /\ last \in Nat /\ ~(i > last) /\ WellFormed(im)
  BY LastAssumption DEF Positions
<1>2. /\ Supplier(im, v) # "parent"
      /\ \A k \in 0..(i - 1) : Supplier(img[k], v) = "parent"
  <2>1. \A k \in 0..(i - 1) : WellFormed(img[k])
    BY <1>1
  <2> QED
    BY <1>1, <2>1, DispositionIsSupplier
<1>3. Nearest(img, 0, last, v) = i
  BY <1>1, <1>2, NearestIsFirstSupplier
<1>4. FileOffset(im, v) \in Nat
  BY <1>1, FileOffsetIsOffset DEF Offsets
<1>5. CASE Supplier(im, v) = "zero"
  <2>1. OwnByte(i, v) = ZeroByte
    BY <1>1, <1>5, DispositionIsSupplier DEF OwnByte
  <2>2. Content(img, 0, last, v) = [by |-> "zero"]
    BY <1>1, <1>3, <1>5 DEF Content
  <2> QED
    BY <2>1, <2>2 DEF InFile, ZeroByte, Bytes
<1>6. CASE Supplier(im, v) # "zero"
  <2>1. OwnByte(i, v) = [by |-> "file", disk |-> i, off |-> FileOffset(im, v)]
    BY <1>1, <1>2, <1>6, DispositionIsSupplier DEF OwnByte
  <2>2. Content(img, 0, last, v) =
          IF FileOffset(im, v) < im.fsize
          THEN [by |-> "file", disk |-> i, off |-> FileOffset(im, v)]
          ELSE [by |-> "missing"]
    BY <1>1, <1>3, <1>6 DEF Content, FileOffset, BlockIndex, OffsetInBlock
  <2> QED
    BY <1>1, <1>4, <2>1, <2>2 DEF InFile, Bytes
<1> QED
  BY <1>5, <1>6

-----------------------------------------------------------------------------
(* The inductive invariant.                                                 *)

\* The calls in progress: each position above the top passes on all of what the
\* calls below it still have to fill, and hands out only ranges inside its own.
CallsNested ==
  \A i, j \in Positions : i < j /\ j <= top =>
    /\ i \in linked
    /\ frame[i].at <= frame[j].at /\ frame[j].end <= frame[i].end
    /\ \A v \in frame[j].at..(frame[j].end - 1) : Disposition(img[i], v) = "parent"

\* Between reads nothing of a read is left; during one its ranges lie inside the
\* request, clamped to the device.
RequestServed ==
  /\ pc = "idle" => top = 0
  /\ pc = "reading" =>
       /\ req[1] < Size
       /\ frame[0].end = Min2(req[1] + req[2], Size)
       /\ \A i \in Positions : i <= top => req[1] <= frame[i].at /\ frame[i].at <= frame[i].end

IInv ==
  /\ TypeOK
  /\ img \in Chains
  /\ CallsNested
  /\ RequestServed
  /\ DeliveredIsContent

\* Every image of a chain under consideration is well formed.
LEMMA ImagesWellFormed ==
  ASSUME img \in Chains, NEW i \in Positions
  PROVE  WellFormed(img[i])
  BY ChainsAssumption DEF Positions

\* Where a running call stands: everything above it passes its range on, its run
\* is a proper part of it with one disposition, and its position is attached.
LEMMA RunningCall ==
  ASSUME IInv, Running
  PROVE  LET at == frame[top].at
             e  == RunEnd(img[top], at, frame[top].end)
         IN  /\ LastLinked(linked) \in Positions /\ top \in 0..LastLinked(linked)
             /\ top \notin linked => top = LastLinked(linked)
             /\ at \in Offsets /\ e \in (at + 1)..frame[top].end /\ frame[top].end \in 0..Size
             /\ \A v \in at..(e - 1) : v \in Offsets /\ Disposition(img[top], v) = Disposition(img[top], at)
             /\ \A k \in 0..(top - 1), v \in at..(frame[top].end - 1) : Disposition(img[k], v) = "parent"
<1> DEFINE at == frame[top].at
           e  == RunEnd(img[top], at, frame[top].end)
           ll == LastLinked(linked)
<1>1. top \in Positions /\ at \in 0..Size /\ frame[top].end \in 0..Size /\ at < frame[top].end
  BY DEF IInv, TypeOK, Running
<1>2. at \in Offsets
  BY <1>1, SizeAssumption DEF Offsets
<1>3. /\ e \in (at + 1)..frame[top].end
      /\ \A v \in at..(e - 1) : Disposition(img[top], v) = Disposition(img[top], at)
  BY <1>1, <1>2, ImagesWellFormed, RunHasOneDisposition DEF IInv
<1>4. \A v \in at..(e - 1) : v \in Offsets
  <2> HIDE DEF at, e
  <2> QED
    BY <1>1, <1>2, <1>3, SizeAssumption DEF Offsets
<1>5. \A k \in 0..(top - 1) : /\ k \in Positions /\ k < top /\ k \in linked
                             /\ \A v \in at..(frame[top].end - 1) : Disposition(img[k], v) = "parent"
  <2>1. \A k \in 0..(top - 1) : k \in Positions /\ k < top
    BY <1>1, LastAssumption DEF Positions
  <2> QED
    BY <1>1, <2>1, LastAssumption DEF IInv, CallsNested, Positions
<1>6. ll \in Positions /\ ll \notin linked /\ 0..(ll - 1) \subseteq linked
  BY LastLinkedIsFirstUnlinked DEF IInv, TypeOK
<1>7. top \in 0..ll
  <2>1. ~(ll \in 0..(top - 1))
    BY <1>5, <1>6
  <2> HIDE DEF ll
  <2> QED
    BY <1>1, <1>6, <2>1, LastAssumption DEF Positions
<1>8. top \notin linked => top = ll
  <2>1. ~(top \in 0..(ll - 1)) \/ top \in linked
    BY <1>6
  <2> HIDE DEF ll
  <2> QED
    BY <1>1, <1>6, <1>7, <2>1, LastAssumption DEF Positions
<1> HIDE DEF ll, e, at
<1>9. /\ ll \in Positions /\ top \in 0..ll
      /\ top \notin linked => top = ll
      /\ at \in Offsets /\ e \in (at + 1)..frame[top].end /\ frame[top].end \in 0..Size
      /\ \A v \in at..(e - 1) : v \in Offsets /\ Disposition(img[top], v) = Disposition(img[top], at)
      /\ \A k \in 0..(top - 1), v \in at..(frame[top].end - 1) : Disposition(img[k], v) = "parent"
  BY <1>1, <1>2, <1>3, <1>4, <1>5, <1>6, <1>7, <1>8
<1> QED
  BY <1>9 DEF at, e, ll

\* What a run that the image at the top answers itself puts in the buffer.
LEMMA OwnRunIsContent ==
  ASSUME IInv, Running, Disposition(img[top], frame[top].at) # "parent",
         NEW v \in frame[top].at..(RunEnd(img[top], frame[top].at, frame[top].end) - 1)
  PROVE  /\ OwnByte(top, v) \in Bytes
         /\ InFile(top, v) => DeviceByte(v) = OwnByte(top, v)
         /\ ~InFile(top, v) => DeviceByte(v) = [by |-> "missing"]
<1> DEFINE e == RunEnd(img[top], frame[top].at, frame[top].end)
<1>1. /\ LastLinked(linked) \in Positions /\ top \in 0..LastLinked(linked)
      /\ v \in Offsets /\ Disposition(img[top], v) # "parent"
      /\ e \in (frame[top].at + 1)..frame[top].end
      /\ frame[top].at \in Offsets /\ frame[top].end \in 0..Size
      /\ \A k \in 0..(top - 1), w \in frame[top].at..(frame[top].end - 1) :
           Disposition(img[k], w) = "parent"
  BY RunningCall
<1>2. v \in frame[top].at..(frame[top].end - 1)
  <2> HIDE DEF e
  <2>1. v \in frame[top].at..(e - 1)
    BY DEF e
  <2> QED
    BY <1>1, <2>1, SizeAssumption DEF Offsets
<1>3. \A k \in 0..top : WellFormed(img[k])
  <2>1. \A k \in 0..top : k \in Positions
    BY <1>1, LastAssumption DEF Positions
  <2> QED
    BY <2>1, ImagesWellFormed DEF IInv
<1>4. \A k \in 0..(top - 1) : Disposition(img[k], v) = "parent"
  BY <1>1, <1>2
<1> QED
  BY <1>1, <1>3, <1>4, OwnByteIsContent DEF DeviceByte

-----------------------------------------------------------------------------
(* Every step keeps the invariant.                                          *)

LEMMA InitKeeps == Init => IInv
<1> SUFFICES ASSUME Init PROVE IInv
  OBVIOUS
<1>1. TypeOK
  BY SizeAssumption, LastAssumption
     DEF Init, TypeOK, NoFrames, NoFrame, Empty, NoAnswer, Positions, Offsets
<1>2. CallsNested
  BY LastAssumption DEF Init, CallsNested, Positions
<1> QED
  BY <1>1, <1>2 DEF Init, IInv, RequestServed, DeliveredIsContent

\* An answer leaves no trace of the read but its result.
LEMMA AnswerKeeps ==
  ASSUME IInv, pc = "reading",
         NEW filled, NEW upto \in Nat, upto <= Size, req[1] <= upto,
         NEW err \in {"nil", "EOF", "ErrParentRequired"}, Answer(filled, upto, err)
  PROVE  IInv'
<1>1. TypeOK'
  <2>1. res'.n \in 0..Size /\ res'.err = err
    BY SizeAssumption DEF Answer, IInv, TypeOK
  <2> QED
    BY <2>1, SizeAssumption, LastAssumption, SMTT(30)
       DEF Answer, IInv, TypeOK, NoFrames, NoFrame, Empty, Positions
<1>2. CallsNested'
  BY LastAssumption DEF Answer, CallsNested, Positions
<1> QED
  BY <1>1, <1>2 DEF Answer, IInv, RequestServed, DeliveredIsContent

LEMMA SetParentKeeps == ASSUME IInv, NEW i \in Positions, SetParent(i) PROVE IInv'
<1>1. TypeOK'
  BY LastAssumption DEF SetParent, IInv, TypeOK, Positions
<1>2. CallsNested'
  BY LastAssumption DEF SetParent, IInv, CallsNested, RequestServed, Positions
<1> QED
  BY <1>1, <1>2 DEF SetParent, IInv, RequestServed, DeliveredIsContent

LEMMA ReadNothingKeeps == ASSUME IInv, NEW r \in Requests, ReadNothing(r) PROVE IInv'
<1>1. res'.n \in 0..Size /\ res'.err \in {"nil", "EOF", "ErrParentRequired"}
  BY SizeAssumption DEF ReadNothing, NoAnswer
<1>2. TypeOK'
  BY <1>1 DEF ReadNothing, IInv, TypeOK
<1>3. CallsNested'
  BY DEF ReadNothing, IInv, CallsNested
<1> QED
  BY <1>2, <1>3 DEF ReadNothing, IInv, RequestServed, DeliveredIsContent

LEMMA BeginReadKeeps == ASSUME IInv, NEW r \in Requests, BeginRead(r) PROVE IInv'
<1>1. r \in Nat \X Nat /\ r[1] \in Nat /\ r[2] \in Nat /\ r[1] < Size /\ 0 \in Positions
  BY RequestsAssumption, LastAssumption DEF BeginRead, Positions
<1>2. Min2(r[1] + r[2], Size) \in 0..Size /\ r[1] <= Min2(r[1] + r[2], Size) /\ r[1] \in 0..Size
  BY <1>1, SizeAssumption DEF Min2
<1>3. /\ frame' \in [Positions -> [at : 0..Size, end : 0..Size]]
      /\ frame'[0] = [at |-> r[1], end |-> Min2(r[1] + r[2], Size)]
  BY <1>1, <1>2 DEF BeginRead, IInv, TypeOK
<1>4. TypeOK'
  BY <1>1, <1>3, SizeAssumption DEF BeginRead, IInv, TypeOK, Empty, NoAnswer
<1>5. CallsNested'
  BY LastAssumption DEF BeginRead, CallsNested, Positions
<1>6. RequestServed'
  <2>1. \A i \in Positions : i <= 0 => i = 0
    BY LastAssumption DEF Positions
  <2> QED
    BY <1>1, <1>2, <1>3, <2>1 DEF BeginRead, RequestServed
<1>7. DeliveredIsContent'
  BY <1>1, <1>3, SizeAssumption DEF BeginRead, DeliveredIsContent, Empty, Offsets
<1> QED
  BY <1>4, <1>5, <1>6, <1>7 DEF BeginRead, IInv

LEMMA ReadOwnKeeps == ASSUME IInv, ReadOwn PROVE IInv'
<1> DEFINE at == frame[top].at
           e  == RunEnd(img[top], at, frame[top].end)
           cut == {v \in at..(e - 1) : ~InFile(top, v)}
           first == CHOOSE v \in cut : \A w \in cut : v <= w
           upto == IF cut = {} THEN e ELSE ShortOf(img[top], at, first)
           filled == [v \in Offsets |-> IF at <= v /\ v < upto THEN OwnByte(top, v) ELSE buf[v]]
<1>1. /\ Running /\ pc = "reading" /\ Disposition(img[top], at) # "parent" /\ at < frame[top].end
  BY DEF ReadOwn, Running
<1>2. /\ at \in Offsets /\ at \in Nat
      /\ e \in (at + 1)..frame[top].end /\ frame[top].end \in 0..Size
      /\ \A v \in at..(e - 1) : v \in Offsets
  BY <1>1, RunningCall DEF Offsets
<1>3. /\ top \in Positions /\ WellFormed(img[top]) /\ req[1] \in Nat /\ req[1] <= at
  BY <1>1, ImagesWellFormed DEF IInv, TypeOK, RequestServed, Positions
<1>4. CASE cut = {}
  <2>1. \A v \in at..(e - 1) : OwnByte(top, v) \in Bytes /\ DeviceByte(v) = OwnByte(top, v)
    <3>1. \A v \in at..(e - 1) : InFile(top, v)
      BY <1>4
    <3> QED
      BY <1>1, <3>1, OwnRunIsContent
  <2>2. /\ frame' = [frame EXCEPT ![top].at = e]
        /\ buf' = [v \in Offsets |-> IF at <= v /\ v < e THEN OwnByte(top, v) ELSE buf[v]]
        /\ UNCHANGED <<img, linked, pc, req, top, res>>
    BY <1>4 DEF ReadOwn
  <2>a. \A v \in Offsets : at <= v /\ v < e => v \in at..(e - 1)
    <3> HIDE DEF e, at
    <3> QED
      BY <1>2 DEF Offsets
  <2> HIDE DEF e, cut, upto, filled, first
  <2>3. /\ e \in 0..Size /\ at <= e /\ e <= frame[top].end
        /\ frame \in [Positions -> [at : 0..Size, end : 0..Size]]
    BY <1>2, SizeAssumption DEF IInv, TypeOK
  <2>4. /\ frame' \in [Positions -> [at : 0..Size, end : 0..Size]]
        /\ frame'[top] = [at |-> e, end |-> frame[top].end]
        /\ \A i \in Positions : i # top => frame'[i] = frame[i]
    BY <2>2, <2>3, <1>3
  <2>5. buf' \in [Offsets -> Bytes \cup {Unset}]
    <3>1. \A v \in Offsets : buf[v] \in Bytes \cup {Unset}
      BY DEF IInv, TypeOK
    <3>2. \A v \in Offsets : (IF at <= v /\ v < e THEN OwnByte(top, v) ELSE buf[v]) \in Bytes \cup {Unset}
      BY <3>1, <2>1, <2>a
    <3> HIDE DEF at
    <3> QED
      BY <3>2, <2>2
  <2>6. TypeOK'
    BY <2>2, <2>4, <2>5 DEF IInv, TypeOK
  <2>7. CallsNested'
    <3> SUFFICES ASSUME NEW i \in Positions, NEW j \in Positions, i < j, j <= top
                 PROVE  /\ i \in linked
                        /\ frame'[i].at <= frame'[j].at /\ frame'[j].end <= frame'[i].end
                        /\ \A v \in frame'[j].at..(frame'[j].end - 1) : Disposition(img[i], v) = "parent"
      BY <2>2 DEF CallsNested
    <3>1. /\ i \in linked
          /\ frame[i].at <= frame[j].at /\ frame[j].end <= frame[i].end
          /\ \A v \in frame[j].at..(frame[j].end - 1) : Disposition(img[i], v) = "parent"
      BY DEF IInv, CallsNested
    <3>2. i # top /\ frame'[i] = frame[i]
      BY <2>4, <1>3, LastAssumption DEF Positions
    <3>3. CASE j # top
      BY <2>4, <3>1, <3>2, <3>3
    <3>4. CASE j = top
      <4>1. frame[i].at \in 0..Size /\ frame[i].at <= e
        BY <2>3, <3>1, <3>4, <1>2
      <4>2. \A v \in e..(frame[top].end - 1) : v \in at..(frame[top].end - 1)
        BY <2>3, <1>2 DEF IInv, TypeOK
      <4> QED
        BY <2>4, <3>1, <3>2, <3>4, <4>1, <4>2
    <3> QED
      BY <3>3, <3>4
  <2>8. RequestServed'
    <3>1. \A i \in Positions : i <= top => req[1] <= frame'[i].at /\ frame'[i].at <= frame'[i].end
      <4> SUFFICES ASSUME NEW i \in Positions, i <= top
                   PROVE  req[1] <= frame'[i].at /\ frame'[i].at <= frame'[i].end
        OBVIOUS
      <4>1. CASE i = top
        BY <4>1, <2>3, <2>4, <1>2, <1>3
      <4>2. CASE i # top
        BY <4>2, <2>4, <1>1 DEF IInv, RequestServed
      <4> QED
        BY <4>1, <4>2
    <3>2. frame'[0].end = frame[0].end
      BY <2>4, LastAssumption DEF Positions
    <3> QED
      BY <3>1, <3>2, <2>2, <1>1 DEF IInv, RequestServed
  <2>9. DeliveredIsContent'
    <3> SUFFICES ASSUME NEW v \in Offsets
                 PROVE  IF req[1] <= v /\ v < e THEN buf'[v] = DeviceByte(v) ELSE buf'[v] = Unset
      BY <2>2, <2>4 DEF DeliveredIsContent, DeviceByte
    <3>1. IF req[1] <= v /\ v < at THEN buf[v] = DeviceByte(v) ELSE buf[v] = Unset
      BY <1>1 DEF IInv, DeliveredIsContent
    <3>2. v \in Nat
      BY DEF Offsets
    <3>3. CASE at <= v /\ v < e
      BY <3>2, <3>3, <2>1, <2>2, <2>3, <2>a, <1>2, <1>3
    <3>4. CASE ~(at <= v /\ v < e)
      BY <3>1, <3>2, <3>4, <2>2, <2>3, <1>2, <1>3
    <3> QED
      BY <3>3, <3>4
  <2> QED
    BY <2>2, <2>6, <2>7, <2>8, <2>9 DEF IInv
<1>5. CASE cut # {}
  <2>1. first \in cut
    <3>1. cut \in SUBSET Nat
      BY <1>2 DEF Offsets
    <3> HIDE DEF cut
    <3> QED
      BY <1>5, <3>1, LeastExists
  <2>2. first \in at..(e - 1) /\ first \in Offsets /\ at <= first
    BY <2>1, <1>2 DEF Offsets
  <2>3. upto \in at..first
    <3>1. ShortOf(img[top], at, first) \in at..first
      <4> HIDE DEF first, at
      <4> QED
        BY <1>2, <1>3, <2>2, ShortRunEndsBeforeTheCut
    <3> HIDE DEF first, cut, at
    <3> QED
      BY <1>5, <3>1
  <2>4. Answer(filled, upto, "EOF")
    BY <1>5 DEF ReadOwn
  <2> HIDE DEF e, cut, upto, filled, first
  <2>5. upto \in Nat /\ upto <= Size /\ req[1] <= upto
    <3> HIDE DEF at
    <3> QED
      BY <1>2, <1>3, <2>2, <2>3, SizeAssumption DEF Offsets
  <2> QED
    BY <1>1, <2>4, <2>5, AnswerKeeps
<1> QED
  BY <1>4, <1>5

\* What every step that only moves between calls has to show of the buffer.
LEMMA SameBufferKeeps ==
  ASSUME IInv, pc = "reading", UNCHANGED <<img, linked, pc, req, buf, res>>,
         frame'[top'].at = frame[top].at
  PROVE  DeliveredIsContent'
<1>1. \A v \in Offsets : DeviceByte(v)' = DeviceByte(v)
  BY DEF DeviceByte
<1> QED
  BY <1>1 DEF IInv, DeliveredIsContent

LEMMA ReadParentKeeps == ASSUME IInv, ReadParent PROVE IInv'
<1> DEFINE at == frame[top].at
           e  == RunEnd(img[top], at, frame[top].end)
<1>1. /\ Running /\ pc = "reading" /\ top \in linked /\ Disposition(img[top], at) = "parent"
      /\ top' = top + 1
      /\ frame' = [frame EXCEPT ![top + 1] = [at |-> at, end |-> e]]
      /\ UNCHANGED <<img, linked, pc, req, buf, res>>
  BY DEF ReadParent, Running
<1>2. /\ at \in Offsets /\ at \in Nat
      /\ e \in (at + 1)..frame[top].end /\ frame[top].end \in 0..Size
      /\ \A v \in at..(e - 1) : Disposition(img[top], v) = "parent"
      /\ \A k \in 0..(top - 1), v \in at..(frame[top].end - 1) : Disposition(img[k], v) = "parent"
  BY <1>1, RunningCall DEF Offsets
<1>3. /\ top \in Positions /\ top + 1 \in Positions /\ req[1] \in Nat /\ req[1] <= at
      /\ frame \in [Positions -> [at : 0..Size, end : 0..Size]]
  BY <1>1, LastAssumption, SMTT(30) DEF IInv, TypeOK, RequestServed, Positions
<1> HIDE DEF e
<1>4. /\ e \in 0..Size /\ at \in 0..Size /\ at <= e /\ e <= frame[top].end
  <2> HIDE DEF at
  <2> QED
    BY <1>2, SizeAssumption DEF Offsets
<1>5. /\ frame' \in [Positions -> [at : 0..Size, end : 0..Size]]
      /\ frame'[top + 1] = [at |-> at, end |-> e]
      /\ \A i \in Positions : i # top + 1 => frame'[i] = frame[i]
  <2> HIDE DEF at
  <2> QED
    BY <1>1, <1>3, <1>4
<1>6. TypeOK'
  BY <1>1, <1>3, <1>5 DEF IInv, TypeOK
<1>7. CallsNested'
  <2> SUFFICES ASSUME NEW i \in Positions, NEW j \in Positions, i < j, j <= top + 1
               PROVE  /\ i \in linked
                      /\ frame'[i].at <= frame'[j].at /\ frame'[j].end <= frame'[i].end
                      /\ \A v \in frame'[j].at..(frame'[j].end - 1) : Disposition(img[i], v) = "parent"
    BY <1>1 DEF CallsNested
  <2>1. CASE j # top + 1
    <3>1. i # top + 1 /\ j <= top
      BY <2>1, <1>3, LastAssumption DEF Positions
    <3> QED
      BY <2>1, <3>1, <1>5 DEF IInv, CallsNested
  <2>2. CASE j = top + 1 /\ i = top
    <3>1. i # top + 1
      BY <2>2, <1>3, LastAssumption DEF Positions
    <3> QED
      BY <2>2, <3>1, <1>1, <1>2, <1>4, <1>5
  <2>3. CASE j = top + 1 /\ i < top
    <3>1. i # top + 1 /\ i \in 0..(top - 1)
      BY <2>3, <1>3, LastAssumption DEF Positions
    <3>2. /\ i \in linked /\ frame[i].at <= at /\ frame[top].end <= frame[i].end
      BY <2>3, <1>3 DEF IInv, CallsNested
    <3>3. e <= frame[i].end
      BY <3>2, <1>3, <1>4, SizeAssumption
    <3>4. \A v \in at..(e - 1) : v \in at..(frame[top].end - 1)
      <4> HIDE DEF at
      <4> QED
        BY <1>2, <1>4
    <3>5. frame'[i] = frame[i] /\ frame'[j] = [at |-> at, end |-> e]
      BY <2>3, <3>1, <1>5
    <3> QED
      BY <3>1, <3>2, <3>3, <3>4, <3>5, <1>2
  <2> QED
    BY <2>1, <2>2, <2>3, <1>3, LastAssumption DEF Positions
<1>8. RequestServed'
  <2>1. \A i \in Positions : i <= top + 1 => req[1] <= frame'[i].at /\ frame'[i].at <= frame'[i].end
    <3> SUFFICES ASSUME NEW i \in Positions, i <= top + 1
                 PROVE  req[1] <= frame'[i].at /\ frame'[i].at <= frame'[i].end
      OBVIOUS
    <3>1. CASE i = top + 1
      BY <3>1, <1>3, <1>4, <1>5
    <3>2. CASE i # top + 1
      <4>1. i <= top
        BY <3>2, <1>3, LastAssumption DEF Positions
      <4> QED
        BY <3>2, <4>1, <1>1, <1>5 DEF IInv, RequestServed
    <3> QED
      BY <3>1, <3>2
  <2>2. frame'[0].end = frame[0].end
    BY <1>3, <1>5, LastAssumption, SMTT(30) DEF Positions
  <2> QED
    BY <2>1, <2>2, <1>1 DEF IInv, RequestServed
<1>9. DeliveredIsContent'
  BY <1>1, <1>5, SameBufferKeeps
<1> QED
  BY <1>1, <1>6, <1>7, <1>8, <1>9 DEF IInv

LEMMA ParentMissingKeeps == ASSUME IInv, ParentMissing PROVE IInv'
<1>1. pc = "reading" /\ Answer(buf, frame[top].at, "ErrParentRequired")
  BY DEF ParentMissing, Running
<1>2. frame[top].at \in Nat /\ frame[top].at <= Size /\ req[1] <= frame[top].at
  BY <1>1, SizeAssumption, LastAssumption DEF IInv, TypeOK, RequestServed, Positions
<1> QED
  BY <1>1, <1>2, AnswerKeeps

LEMMA ReturnKeeps == ASSUME IInv, Return PROVE IInv'
<1> DEFINE end == frame[top].end
<1>1. /\ pc = "reading" /\ frame[top].at = end /\ top > 0 /\ top' = top - 1
      /\ frame' = [frame EXCEPT ![top - 1].at = end, ![top] = NoFrame]
      /\ UNCHANGED <<img, linked, pc, req, buf, res>>
  BY DEF Return
<1>2. /\ top \in Positions /\ top - 1 \in Positions /\ top # top - 1 /\ top \in Nat
      /\ frame \in [Positions -> [at : 0..Size, end : 0..Size]]
      /\ end \in 0..Size /\ frame[top - 1].at <= end /\ end <= frame[top - 1].end
  <2>1. /\ top \in Positions /\ top - 1 \in Positions /\ top # top - 1 /\ top \in Nat
        /\ top - 1 < top
    BY <1>1, LastAssumption DEF IInv, TypeOK, Positions
  <2>2. frame \in [Positions -> [at : 0..Size, end : 0..Size]] /\ end \in 0..Size
    BY <2>1 DEF IInv, TypeOK
  <2>3. frame[top - 1].at <= frame[top].at /\ end <= frame[top - 1].end
    BY <2>1 DEF IInv, CallsNested
  <2> QED
    BY <1>1, <2>1, <2>2, <2>3
<1>3. /\ frame' \in [Positions -> [at : 0..Size, end : 0..Size]]
      /\ frame'[top - 1] = [at |-> end, end |-> frame[top - 1].end]
      /\ \A i \in Positions : i # top /\ i # top - 1 => frame'[i] = frame[i]
  <2> HIDE DEF end
  <2>1. NoFrame \in [at : 0..Size, end : 0..Size]
    BY SizeAssumption DEF NoFrame
  <2> QED
    BY <1>1, <1>2, <2>1
<1>4. TypeOK'
  BY <1>1, <1>2, <1>3 DEF IInv, TypeOK
<1>5. CallsNested'
  <2> SUFFICES ASSUME NEW i \in Positions, NEW j \in Positions, i < j, j <= top - 1
               PROVE  /\ i \in linked
                      /\ frame'[i].at <= frame'[j].at /\ frame'[j].end <= frame'[i].end
                      /\ \A v \in frame'[j].at..(frame'[j].end - 1) : Disposition(img[i], v) = "parent"
    BY <1>1 DEF CallsNested
  <2>1. i # top /\ i # top - 1 /\ j # top /\ j <= top /\ frame'[i] = frame[i]
    BY <1>2, <1>3, LastAssumption, SMTT(30) DEF Positions
  <2>2. /\ i \in linked
        /\ frame[i].at <= frame[j].at /\ frame[j].end <= frame[i].end
        /\ \A v \in frame[j].at..(frame[j].end - 1) : Disposition(img[i], v) = "parent"
    BY <2>1 DEF IInv, CallsNested
  <2>3. CASE j # top - 1
    BY <2>1, <2>2, <2>3, <1>3
  <2>4. CASE j = top - 1
    <3>1. frame[i].at <= end
      BY <2>2, <2>4, <1>2, SizeAssumption
    <3>2. \A v \in end..(frame[j].end - 1) : v \in frame[j].at..(frame[j].end - 1)
      <4>1. frame[j].at \in Nat /\ frame[j].end \in Nat /\ end \in Nat /\ frame[j].at <= end
        BY <2>4, <1>2, SizeAssumption
      <4> HIDE DEF end
      <4> QED
        BY <4>1
    <3> QED
      BY <2>1, <2>2, <2>4, <3>1, <3>2, <1>3
  <2> QED
    BY <2>3, <2>4
<1>6. RequestServed'
  <2>1. \A i \in Positions : i <= top - 1 => req[1] <= frame'[i].at /\ frame'[i].at <= frame'[i].end
    <3> SUFFICES ASSUME NEW i \in Positions, i <= top - 1
                 PROVE  req[1] <= frame'[i].at /\ frame'[i].at <= frame'[i].end
      OBVIOUS
    <3>1. i # top /\ i <= top
      BY <1>2, LastAssumption DEF Positions
    <3>2. CASE i = top - 1
      BY <3>2, <1>1, <1>2, <1>3 DEF IInv, RequestServed
    <3>3. CASE i # top - 1
      BY <3>1, <3>3, <1>1, <1>3 DEF IInv, RequestServed
    <3> QED
      BY <3>2, <3>3
  <2>2. frame'[0].end = frame[0].end
    <3>1. 0 \in Positions /\ 0 # top
      BY <1>1, <1>2, LastAssumption DEF Positions
    <3>2. 0 = top - 1 => frame'[0].end = frame[0].end
      BY <1>3
    <3> QED
      BY <3>1, <3>2, <1>3
  <2> QED
    BY <2>1, <2>2, <1>1 DEF IInv, RequestServed
<1>7. DeliveredIsContent'
  BY <1>1, <1>3, SameBufferKeeps
<1> QED
  BY <1>1, <1>4, <1>5, <1>6, <1>7 DEF IInv

LEMMA FinishKeeps == ASSUME IInv, Finish PROVE IInv'
<1> DEFINE err == IF req[2] > Size - req[1] THEN "EOF" ELSE "nil"
<1>1. pc = "reading" /\ top = 0 /\ Answer(buf, frame[0].end, err)
  BY DEF Finish
<1>2. frame[0].end \in Nat /\ frame[0].end <= Size /\ req[1] <= frame[0].end
  BY <1>1, SizeAssumption, LastAssumption DEF IInv, TypeOK, RequestServed, Positions
<1>3. err \in {"nil", "EOF", "ErrParentRequired"}
  OBVIOUS
<1> HIDE DEF err
<1> QED
  BY <1>1, <1>2, <1>3, AnswerKeeps

LEMMA NextKeeps == IInv /\ [Next]_vars => IInv'
<1> SUFFICES ASSUME IInv, [Next]_vars PROVE IInv'
  OBVIOUS
<1>1. ASSUME NEW i \in Positions, SetParent(i) PROVE IInv'
  BY <1>1, SetParentKeeps
<1>2. ASSUME NEW r \in Requests, ReadNothing(r) PROVE IInv'
  BY <1>2, ReadNothingKeeps
<1>3. ASSUME NEW r \in Requests, BeginRead(r) PROVE IInv'
  BY <1>3, BeginReadKeeps
<1>4. CASE ReadOwn
  BY <1>4, ReadOwnKeeps
<1>5. CASE ReadParent
  BY <1>5, ReadParentKeeps
<1>6. CASE ParentMissing
  BY <1>6, ParentMissingKeeps
<1>7. CASE Return
  BY <1>7, ReturnKeeps
<1>8. CASE Finish
  BY <1>8, FinishKeeps
<1>9. CASE UNCHANGED vars
  BY <1>9 DEF vars, IInv, TypeOK, CallsNested, RequestServed, DeliveredIsContent, DeviceByte
<1> QED
  BY <1>1, <1>2, <1>3, <1>4, <1>5, <1>6, <1>7, <1>8, <1>9 DEF Next, ReadStep

LEMMA Invariant == Spec => []IInv
  BY InitKeeps, NextKeeps, PTL DEF Spec

\* Every reachable state is well typed: no call reaches past the chain or the
\* device, and what is in the caller's buffer is always bytes.
THEOREM TypeCorrect == Spec => []TypeOK
<1>1. IInv => TypeOK
  BY DEF IInv
<1> QED
  BY <1>1, Invariant, PTL

\* Nested calls are handed ranges inside their caller's, over attached links only.
THEOREM CallsAlwaysNested == Spec => []NestedCalls
<1>1. IInv => NestedCalls
  <2> SUFFICES ASSUME IInv, pc = "reading"
               PROVE  /\ frame[0].end = Min2(req[1] + req[2], Size)
                      /\ \A i \in 0..top : req[1] <= frame[i].at /\ frame[i].at <= frame[i].end
                      /\ \A i \in 0..(top - 1) : /\ i \in linked
                                                /\ frame[i].at <= frame[i + 1].at
                                                /\ frame[i + 1].end <= frame[i].end
    BY DEF NestedCalls
  <2>1. \A i \in 0..top : i \in Positions /\ i <= top
    BY LastAssumption DEF IInv, TypeOK, Positions
  <2>2. \A i \in 0..(top - 1) : i \in Positions /\ i + 1 \in Positions /\ i < i + 1 /\ i + 1 <= top
    BY LastAssumption DEF IInv, TypeOK, Positions
  <2> QED
    BY <2>1, <2>2 DEF IInv, RequestServed, CallsNested
<1> QED
  BY <1>1, Invariant, PTL

\* What a read in progress has delivered is the content of the device, whatever
\* the chain, the layouts, the sector bitmaps and the request.
THEOREM ReadsDeliverContent == Spec => []DeliveredIsContent
<1>1. IInv => DeliveredIsContent
  BY DEF IInv
<1> QED
  BY <1>1, Invariant, PTL

-----------------------------------------------------------------------------
(* How a read ends.                                                         *)

Known(v) == DeviceByte(v).by \notin {"unresolved", "missing"}

\* Everything up to where the running call stands has been delivered.
LEMMA DeliveredSoFar ==
  ASSUME IInv, pc = "reading", NEW v \in req[1]..(frame[top].at - 1)
  PROVE  v \in Offsets /\ buf[v] = DeviceByte(v) /\ Known(v)
<1>1. frame[top].at \in 0..Size /\ req[1] \in Nat
  BY DEF IInv, TypeOK
<1>2. v \in Offsets /\ req[1] <= v /\ v < frame[top].at
  BY <1>1, SizeAssumption DEF Offsets
<1>3. buf[v] = DeviceByte(v) /\ buf[v] \in Bytes \cup {Unset}
  BY <1>2 DEF IInv, DeliveredIsContent, TypeOK
<1> QED
  BY <1>2, <1>3 DEF Known, Bytes, Unset

\* The running call fills a part of the request.
LEMMA RangeInsideRequest ==
  ASSUME IInv, pc = "reading"
  PROVE  /\ req[1] \in Nat /\ req[2] \in Nat /\ req[1] < Size
         /\ frame[top].at \in Nat /\ frame[top].end \in Nat /\ frame[0].end \in 0..Size
         /\ req[1] <= frame[top].at /\ frame[top].at <= frame[top].end
         /\ frame[top].end <= frame[0].end
<1>1. top \in Positions /\ 0 \in Positions /\ (top = 0 \/ 0 < top)
  BY LastAssumption DEF IInv, TypeOK, Positions
<1>2. /\ req[1] \in Nat /\ req[2] \in Nat
      /\ frame[top].at \in 0..Size /\ frame[top].end \in 0..Size /\ frame[0].end \in 0..Size
  BY <1>1 DEF IInv, TypeOK
<1>3. req[1] < Size /\ req[1] <= frame[top].at /\ frame[top].at <= frame[top].end
  BY <1>1, LastAssumption DEF IInv, RequestServed, Positions
<1>4. frame[top].end <= frame[0].end
  <2>1. CASE top = 0
    BY <2>1, <1>2, SizeAssumption
  <2>2. CASE 0 < top
    <3>1. top <= top
      BY <1>1, LastAssumption DEF Positions
    <3> QED
      BY <2>2, <3>1, <1>1 DEF IInv, CallsNested
  <2> QED
    BY <1>1, <2>1, <2>2
<1> QED
  BY <1>2, <1>3, <1>4, SizeAssumption

\* What an answer that holds the content of the device up to some offset returns.
LEMMA AnswerDelivers ==
  ASSUME IInv, pc = "reading", NEW filled, NEW upto \in req[1]..frame[0].end, NEW err,
         Answer(filled, upto, err),
         \A v \in req[1]..(upto - 1) : filled[v] = DeviceByte(v)
  PROVE  /\ res'.n \in Nat /\ req[1] + res'.n = upto /\ res'.err = err
         /\ res'.data = [k \in 0..(res'.n - 1) |-> DeviceByte(req[1] + k)]
         /\ pc' = "idle" /\ UNCHANGED <<img, linked>>
<1>1. req[1] \in Nat /\ frame[0].end \in Nat /\ upto \in Nat /\ req[1] <= upto
  BY RangeInsideRequest, SizeAssumption
<1>2. /\ res'.n = upto - req[1] /\ res'.err = err
      /\ res'.data = [k \in 0..(upto - req[1] - 1) |-> filled[req[1] + k]]
      /\ pc' = "idle" /\ UNCHANGED <<img, linked>>
  BY DEF Answer
<1>3. \A k \in 0..(upto - req[1] - 1) : req[1] + k \in req[1]..(upto - 1)
  BY <1>1
<1>4. \A k \in 0..(upto - req[1] - 1) : filled[req[1] + k] = DeviceByte(req[1] + k)
  BY <1>3
<1>5. res'.data = [k \in 0..(upto - req[1] - 1) |-> DeviceByte(req[1] + k)]
  BY <1>2, <1>4
<1> QED
  BY <1>1, <1>2, <1>5

\* A read whose file is cut short stops at or before the first missing byte and
\* has met no byte that nobody supplies.
LEMMA CutReadStopsEarly ==
  ASSUME IInv, ReadOwn, pc' = "idle"
  PROVE  LET stop == req[1] + res'.n IN
         /\ res'.n \in Nat /\ stop <= frame[0].end /\ res'.err = "EOF"
         /\ res'.data = [k \in 0..(res'.n - 1) |-> DeviceByte(req[1] + k)]
         /\ UNCHANGED <<img, linked>>
         /\ \E g \in stop..(frame[0].end - 1) :
              DeviceByte(g).by = "missing" /\ \A v \in req[1]..(g - 1) : Known(v)
<1> DEFINE at == frame[top].at
           e  == RunEnd(img[top], at, frame[top].end)
           cut == {v \in at..(e - 1) : ~InFile(top, v)}
           first == CHOOSE v \in cut : \A w \in cut : v <= w
           upto == IF cut = {} THEN e ELSE ShortOf(img[top], at, first)
           filled == [v \in Offsets |-> IF at <= v /\ v < upto THEN OwnByte(top, v) ELSE buf[v]]
<1>1. /\ Running /\ pc = "reading" /\ Disposition(img[top], at) # "parent"
  BY DEF ReadOwn, Running
<1>2. cut # {} /\ Answer(filled, upto, "EOF")
  BY <1>1 DEF ReadOwn
<1>3. /\ at \in Offsets /\ e \in (at + 1)..frame[top].end
      /\ \A v \in at..(e - 1) : v \in Offsets
      /\ top \in Positions /\ WellFormed(img[top])
  BY <1>1, RunningCall, ImagesWellFormed DEF IInv, TypeOK
<1>4. first \in cut /\ \A w \in cut : first <= w
  <2>1. cut \in SUBSET Nat
    BY <1>3 DEF Offsets
  <2> HIDE DEF cut
  <2> QED
    BY <1>2, <2>1, LeastExists
<1>5. first \in at..(e - 1) /\ first \in Offsets /\ ~InFile(top, first) /\ at <= first
  BY <1>3, <1>4 DEF Offsets
<1>6. upto \in at..first
  <2>1. ShortOf(img[top], at, first) \in at..first
    <3> HIDE DEF first, at
    <3> QED
      BY <1>3, <1>5, ShortRunEndsBeforeTheCut
  <2> HIDE DEF first, cut, at
  <2> QED
    BY <1>2, <2>1
<1>7. \A v \in at..(first - 1) : v \in at..(e - 1) /\ InFile(top, v)
  <2> SUFFICES ASSUME NEW v \in at..(first - 1) PROVE v \in at..(e - 1) /\ InFile(top, v)
    OBVIOUS
  <2>1. v \in at..(e - 1) /\ ~(first <= v)
    <3> HIDE DEF at, first, e
    <3> QED
      BY <1>3, <1>5 DEF Offsets
  <2> QED
    BY <1>4, <2>1
<1>8. /\ DeviceByte(first).by = "missing"
      /\ \A v \in at..(first - 1) : DeviceByte(v) = OwnByte(top, v) /\ Known(v)
  <2>1. DeviceByte(first) = [by |-> "missing"]
    BY <1>1, <1>5, OwnRunIsContent
  <2>2. \A v \in at..(first - 1) : DeviceByte(v) = OwnByte(top, v) /\ OwnByte(top, v) \in Bytes
    BY <1>1, <1>7, OwnRunIsContent
  <2>3. \A v \in at..(first - 1) : Known(v)
    BY <2>2 DEF Known, Bytes
  <2> QED
    BY <2>1, <2>2, <2>3
<1> HIDE DEF e, cut, first
<1>9. /\ req[1] \in Nat /\ at \in Nat /\ first \in Nat /\ req[1] <= at /\ frame[0].end \in Nat
      /\ frame[top].end <= frame[0].end /\ e \in Nat /\ frame[top].end \in Nat
  <2> HIDE DEF at
  <2>1. /\ req[1] \in Nat /\ req[1] <= at /\ frame[0].end \in Nat
        /\ frame[top].end <= frame[0].end /\ frame[top].end \in Nat
    BY <1>1, RangeInsideRequest, SizeAssumption DEF at
  <2> QED
    BY <1>3, <1>5, <2>1 DEF Offsets
<1> HIDE DEF upto
<1>10. \A v \in req[1]..(upto - 1) : filled[v] = DeviceByte(v)
  <2> SUFFICES ASSUME NEW v \in req[1]..(upto - 1) PROVE filled[v] = DeviceByte(v)
    OBVIOUS
  <2>1. CASE v < at
    <3>1. v \in req[1]..(at - 1) /\ ~(at <= v)
      <4> HIDE DEF at
      <4> QED
        BY <2>1, <1>6, <1>9
    <3>2. v \in Offsets /\ buf[v] = DeviceByte(v)
      BY <3>1, <1>1, DeliveredSoFar
    <3> QED
      BY <3>1, <3>2
  <2>2. CASE ~(v < at)
    <3>1. v \in at..(first - 1) /\ at <= v /\ v < upto
      <4> HIDE DEF at
      <4> QED
        BY <2>2, <1>6, <1>9
    <3>2. v \in Offsets
      BY <3>1, <1>3, <1>7
    <3> QED
      BY <3>1, <3>2, <1>8
  <2> QED
    BY <2>1, <2>2
<1>11. \A v \in req[1]..(first - 1) : Known(v)
  <2> SUFFICES ASSUME NEW v \in req[1]..(first - 1) PROVE Known(v)
    OBVIOUS
  <2>1. v \in req[1]..(at - 1) \/ v \in at..(first - 1)
    <3> HIDE DEF at
    <3> QED
      BY <1>9
  <2> QED
    BY <2>1, <1>1, <1>8, DeliveredSoFar
<1> HIDE DEF filled, at
<1>12. upto \in req[1]..frame[0].end /\ first \in upto..(frame[0].end - 1)
  BY <1>3, <1>5, <1>6, <1>9
<1>13. /\ res'.n \in Nat /\ req[1] + res'.n = upto /\ res'.err = "EOF"
       /\ res'.data = [k \in 0..(res'.n - 1) |-> DeviceByte(req[1] + k)]
       /\ UNCHANGED <<img, linked>>
  BY <1>1, <1>2, <1>10, <1>12, AnswerDelivers
<1>14. upto <= frame[0].end
  BY <1>9, <1>12
<1> QED
  BY <1>8, <1>11, <1>12, <1>13, <1>14

\* A read that needs a parent that is not attached stops exactly at a byte no
\* attached image supplies.
LEMMA MissingParentStopsAtTheByte ==
  ASSUME IInv, ParentMissing
  PROVE  LET stop == req[1] + res'.n IN
         /\ res'.n \in Nat /\ stop < frame[0].end /\ res'.err = "ErrParentRequired"
         /\ res'.data = [k \in 0..(res'.n - 1) |-> DeviceByte(req[1] + k)]
         /\ UNCHANGED <<img, linked>>
         /\ DeviceByte(stop).by = "unresolved" /\ \A v \in req[1]..(stop - 1) : Known(v)
<1> DEFINE at == frame[top].at
<1>1. /\ Running /\ pc = "reading" /\ Disposition(img[top], at) = "parent"
      /\ top \notin linked /\ at < frame[top].end /\ Answer(buf, at, "ErrParentRequired")
  BY DEF ParentMissing, Running
<1>2. /\ LastLinked(linked) = top /\ top \in Positions /\ at \in Offsets
      /\ \A k \in 0..(top - 1), v \in at..(frame[top].end - 1) : Disposition(img[k], v) = "parent"
  BY <1>1, RunningCall
<1>3. /\ req[1] \in Nat /\ at \in Nat /\ frame[0].end \in Nat /\ frame[top].end \in Nat
      /\ req[1] <= at /\ frame[top].end <= frame[0].end
  BY <1>1, RangeInsideRequest, SizeAssumption
<1>4. \A k \in 0..top : Supplier(img[k], at) = "parent"
  <2> SUFFICES ASSUME NEW k \in 0..top PROVE Supplier(img[k], at) = "parent"
    OBVIOUS
  <2>1. k \in Positions /\ (k = top \/ k \in 0..(top - 1))
    BY <1>2, LastAssumption DEF Positions
  <2>2. at \in at..(frame[top].end - 1)
    <3> HIDE DEF at
    <3> QED
      BY <1>1, <1>3
  <2>3. Disposition(img[k], at) = "parent"
    BY <1>1, <1>2, <2>1, <2>2
  <2> QED
    BY <1>2, <2>1, <2>3, ImagesWellFormed, DispositionIsSupplier DEF IInv
<1>5. DeviceByte(at).by = "unresolved"
  BY <1>2, <1>4, UnresolvedWhenAllPassOn, LastAssumption DEF DeviceByte, Positions
<1>6. \A v \in req[1]..(at - 1) : buf[v] = DeviceByte(v) /\ Known(v)
  BY <1>1, DeliveredSoFar
<1> HIDE DEF at
<1>7. at \in req[1]..frame[0].end /\ at < frame[0].end
  BY <1>1, <1>3
<1>8. /\ res'.n \in Nat /\ req[1] + res'.n = at /\ res'.err = "ErrParentRequired"
      /\ res'.data = [k \in 0..(res'.n - 1) |-> DeviceByte(req[1] + k)]
      /\ UNCHANGED <<img, linked>>
  BY <1>1, <1>6, <1>7, AnswerDelivers
<1> QED
  BY <1>5, <1>6, <1>7, <1>8

\* A read that runs to its end delivers the whole clamped range.
LEMMA FinishedReadIsWhole ==
  ASSUME IInv, Finish
  PROVE  /\ res'.n \in Nat /\ req[1] + res'.n = frame[0].end
         /\ res'.err = IF req[2] > Size - req[1] THEN "EOF" ELSE "nil"
         /\ res'.data = [k \in 0..(res'.n - 1) |-> DeviceByte(req[1] + k)]
         /\ UNCHANGED <<img, linked>>
         /\ \A v \in req[1]..(frame[0].end - 1) : Known(v)
<1> DEFINE err == IF req[2] > Size - req[1] THEN "EOF" ELSE "nil"
<1>1. /\ pc = "reading" /\ top = 0 /\ frame[0].at = frame[0].end
      /\ Answer(buf, frame[0].end, err)
  BY DEF Finish
<1>2. frame[0].end \in req[1]..frame[0].end
  BY <1>1, RangeInsideRequest, SizeAssumption
<1>3. \A v \in req[1]..(frame[0].end - 1) : buf[v] = DeviceByte(v) /\ Known(v)
  BY <1>1, DeliveredSoFar
<1> HIDE DEF err
<1>4. /\ res'.n \in Nat /\ req[1] + res'.n = frame[0].end /\ res'.err = err
      /\ res'.data = [k \in 0..(res'.n - 1) |-> DeviceByte(req[1] + k)]
      /\ UNCHANGED <<img, linked>>
  BY <1>1, <1>2, <1>3, AnswerDelivers
<1> QED
  BY <1>3, <1>4 DEF err

\* A read ends in one of these three ways.
LEMMA ReadEndsInThreeWays ==
  ASSUME IInv, Next, pc = "reading", pc' = "idle"
  PROVE  ReadOwn \/ ParentMissing \/ Finish
<1>1. \A i \in Positions : ~SetParent(i)
  BY DEF SetParent
<1>2. \A r \in Requests : ~ReadNothing(r) /\ ~BeginRead(r)
  BY DEF ReadNothing, BeginRead
<1>3. ~ReadParent /\ ~Return
  BY DEF ReadParent, Return
<1> QED
  BY <1>1, <1>2, <1>3 DEF Next, ReadStep

\* A read never makes up a byte: it stops with ErrParentRequired exactly at one
\* nobody supplies, delivers everything when it reports no error, and never
\* delivers a byte nobody supplies.
THEOREM ReadsFailClosed == Spec => FailsClosed
<1> DEFINE Closed ==
      pc = "reading" /\ pc' = "idle" =>
       LET stop == req[1] + res'.n
           resolved == \A v \in req[1]..(stop - 1) : DeviceByte(v).by # "unresolved"
       IN  /\ resolved
           /\ res'.err = "nil" => stop = frame[0].end
           /\ res'.err = "ErrParentRequired" =>
                stop < frame[0].end /\ DeviceByte(stop).by = "unresolved"
<1>1. ASSUME IInv, [Next]_vars PROVE [Closed]_vars
  <2> SUFFICES ASSUME Next, pc = "reading", pc' = "idle"
               PROVE  LET stop == req[1] + res'.n
                          resolved == \A v \in req[1]..(stop - 1) : DeviceByte(v).by # "unresolved"
                      IN  /\ resolved
                          /\ res'.err = "nil" => stop = frame[0].end
                          /\ res'.err = "ErrParentRequired" =>
                               stop < frame[0].end /\ DeviceByte(stop).by = "unresolved"
    BY <1>1
  <2>1. CASE ReadOwn
    <3>1. PICK g \in (req[1] + res'.n)..(frame[0].end - 1) :
            \A v \in req[1]..(g - 1) : Known(v)
      BY <1>1, <2>1, CutReadStopsEarly
    <3>2. /\ res'.n \in Nat /\ res'.err = "EOF" /\ req[1] \in Nat /\ frame[0].end \in Nat
      BY <1>1, <2>1, CutReadStopsEarly, RangeInsideRequest, SizeAssumption
    <3>3. \A v \in req[1]..(req[1] + res'.n - 1) : v \in req[1]..(g - 1)
      BY <3>1, <3>2
    <3> QED
      BY <3>1, <3>2, <3>3 DEF Known
  <2>2. CASE ParentMissing
    BY <1>1, <2>2, MissingParentStopsAtTheByte DEF Known
  <2>3. CASE Finish
    BY <1>1, <2>3, FinishedReadIsWhole DEF Known
  <2> QED
    BY <1>1, <2>1, <2>2, <2>3, ReadEndsInThreeWays
<1> QED
  BY <1>1, Invariant, PTL DEF Spec, FailsClosed

-----------------------------------------------------------------------------
(* The chain implements the device.                                         *)

LEMMA RequestIsNoEmptySequence ==
  ASSUME NEW r \in Nat \X Nat
  PROVE  r # <<>>
  OBVIOUS

\* A position above the attached chain's end is only reached by attaching more.
LEMMA AttachingExtends ==
  ASSUME NEW links \in SUBSET (0..(Last - 1)), NEW more \in SUBSET (0..(Last - 1)), links \subseteq more
  PROVE  LastLinked(links) <= LastLinked(more)
<1>1. /\ LastLinked(links) \in Positions /\ LastLinked(more) \in Positions
      /\ LastLinked(more) \notin more /\ 0..(LastLinked(links) - 1) \subseteq links
  BY LastLinkedIsFirstUnlinked
<1>2. LastLinked(more) \notin 0..(LastLinked(links) - 1)
  BY <1>1
<1> QED
  BY <1>1, <1>2, LastAssumption DEF Positions

\* Attaching a parent between reads resolves bytes and alters none.
LEMMA SetParentAttaches ==
  ASSUME IInv, NEW i \in Positions, SetParent(i)
  PROVE  Served!Attach
<1>1. /\ pc = "idle" /\ pc' = "idle" /\ linked' = linked \cup {i} /\ i < Last
      /\ img' = img /\ res' = res
  BY DEF SetParent
<1>2. linked \in SUBSET (0..(Last - 1)) /\ linked' \in SUBSET (0..(Last - 1)) /\ linked \subseteq linked'
  BY <1>1, LastAssumption DEF IInv, TypeOK, Positions
<1> DEFINE last == LastLinked(linked)
           more == LastLinked(linked')
<1>3. last \in Nat /\ more \in Nat /\ last <= more
  BY <1>2, LastLinkedIsFirstUnlinked, AttachingExtends, LastAssumption DEF Positions
<1>4. /\ DeviceContent = [v \in Offsets |-> Content(img, 0, last, v)]
      /\ DeviceContent' = [v \in Offsets |-> Content(img, 0, more, v)]
  BY <1>1 DEF DeviceContent
<1> HIDE DEF last, more
<1>5. \A v \in Offsets : DeviceContent[v].by # "unresolved" => DeviceContent'[v] = DeviceContent[v]
  BY <1>3, <1>4, KnownBytesStay
<1> QED
  BY <1>1, <1>5 DEF Served!Attach, Offsets

\* A call that has nothing to read is answered at once.
LEMMA ReadNothingAnswers ==
  ASSUME IInv, NEW r \in Requests, ReadNothing(r)
  PROVE  Served!CallAndReply
<1>1. /\ pc = "idle" /\ pc' = "idle" /\ UNCHANGED <<img, linked>>
      /\ r[1] \in Nat /\ r[2] \in Nat
      /\ res'.n = 0 /\ res'.data = [k \in {} |-> 0]
      /\ res'.err = IF r[1] >= Size THEN "EOF" ELSE "nil"
      /\ r[1] >= Size \/ (r[1] < Size /\ r[2] = 0)
  BY RequestsAssumption, SizeAssumption DEF ReadNothing, NoAnswer
<1>2. DeviceContent' = DeviceContent
  BY <1>1 DEF DeviceContent
<1>3. Served!Wanted(r) = 0
  BY <1>1, SizeAssumption DEF Served!Wanted, Served!Smaller
<1>4. Served!Gaps(r) = {}
  <2>1. r[1]..(r[1] + 0 - 1) = {}
    BY <1>1
  <2> QED
    BY <1>3, <2>1 DEF Served!Gaps
<1>5. res'.err = IF r[1] >= Size \/ r[2] > Size - r[1] THEN "EOF" ELSE "nil"
  BY <1>1, SizeAssumption
<1>6. res'.data = [k \in 0..(res'.n - 1) |-> DeviceContent[r[1] + k]]
  <2>1. 0..(res'.n - 1) = {}
    BY <1>1
  <2> QED
    BY <1>1, <2>1
<1>7. Served!Answers(r, res')
  BY <1>1, <1>3, <1>4, <1>5, <1>6 DEF Served!Answers
<1> QED
  BY <1>1, <1>2, <1>3, <1>7 DEF Served!CallAndReply

\* The read that ends answers as the device would have at once.
LEMMA ReadEndReplies ==
  ASSUME IInv, Next, pc = "reading", pc' = "idle"
  PROVE  Served!Reply
<1> DEFINE stop == req[1] + res'.n
<1>1. /\ req[1] \in Nat /\ req[2] \in Nat /\ req[1] < Size /\ frame[0].end \in Nat
      /\ frame[0].end <= Size /\ req[1] <= frame[0].end
      /\ frame[0].end = Min2(req[1] + req[2], Size) /\ req \in Nat \X Nat
  BY RangeInsideRequest, SizeAssumption DEF IInv, RequestServed, TypeOK
<1>2. req[1] + Served!Wanted(req) = frame[0].end /\ Served!Wanted(req) \in Nat
  BY <1>1, SizeAssumption DEF Served!Wanted, Served!Smaller, Min2
<1>3. Served!Gaps(req) = {v \in req[1]..(frame[0].end - 1) : Served!Unknown(DeviceContent[v])}
  <2>1. req[1] + Served!Wanted(req) - 1 = frame[0].end - 1
    BY <1>1, <1>2
  <2> QED
    BY <2>1, Zenon DEF Served!Gaps
<1>4. \A v \in req[1]..(frame[0].end - 1) :
        DeviceContent[v] = DeviceByte(v) /\ (Served!Unknown(DeviceContent[v]) <=> ~Known(v))
  <2> SUFFICES ASSUME NEW v \in req[1]..(frame[0].end - 1)
               PROVE  DeviceContent[v] = DeviceByte(v) /\ (Served!Unknown(DeviceContent[v]) <=> ~Known(v))
    OBVIOUS
  <2>1. v \in Offsets
    BY <1>1, SizeAssumption DEF Offsets
  <2>2. DeviceContent[v] = DeviceByte(v)
    BY <2>1 DEF DeviceContent, DeviceByte
  <2> QED
    BY <2>2 DEF Served!Unknown, Known
<1>5. /\ res'.n \in Nat /\ stop <= frame[0].end /\ UNCHANGED <<img, linked>>
      /\ res'.data = [k \in 0..(res'.n - 1) |-> DeviceByte(req[1] + k)]
      /\ \/ /\ stop = frame[0].end
            /\ res'.err = IF req[2] > Size - req[1] THEN "EOF" ELSE "nil"
            /\ \A v \in req[1]..(frame[0].end - 1) : Known(v)
         \/ \E g \in stop..(frame[0].end - 1) :
              /\ DeviceByte(g).by = "missing" /\ res'.err = "EOF"
              /\ \A v \in req[1]..(g - 1) : Known(v)
         \/ \E g \in stop..(frame[0].end - 1) :
              /\ DeviceByte(g).by = "unresolved" /\ res'.err = "ErrParentRequired"
              /\ \A v \in req[1]..(g - 1) : Known(v)
  <2>1. CASE ReadOwn
    BY <2>1, CutReadStopsEarly
  <2>2. CASE ParentMissing
    <3>1. /\ res'.n \in Nat /\ stop < frame[0].end /\ res'.err = "ErrParentRequired"
          /\ res'.data = [k \in 0..(res'.n - 1) |-> DeviceByte(req[1] + k)]
          /\ UNCHANGED <<img, linked>>
          /\ DeviceByte(stop).by = "unresolved" /\ \A v \in req[1]..(stop - 1) : Known(v)
      BY <2>2, MissingParentStopsAtTheByte
    <3>2. stop <= frame[0].end /\ stop \in stop..(frame[0].end - 1)
      BY <3>1, <1>1
    <3> QED
      BY <3>1, <3>2
  <2>3. CASE Finish
    <3>1. /\ res'.n \in Nat /\ stop = frame[0].end
          /\ res'.err = IF req[2] > Size - req[1] THEN "EOF" ELSE "nil"
          /\ res'.data = [k \in 0..(res'.n - 1) |-> DeviceByte(req[1] + k)]
          /\ UNCHANGED <<img, linked>>
          /\ \A v \in req[1]..(frame[0].end - 1) : Known(v)
      BY <2>3, FinishedReadIsWhole
    <3>2. stop <= frame[0].end
      BY <3>1, <1>1
    <3> QED
      BY <3>1, <3>2
  <2> QED
    BY <2>1, <2>2, <2>3, ReadEndsInThreeWays
<1>6. \A k \in 0..(res'.n - 1) : DeviceByte(req[1] + k) = DeviceContent[req[1] + k]
  <2>1. \A k \in 0..(res'.n - 1) : req[1] + k \in req[1]..(frame[0].end - 1)
    BY <1>1, <1>5, SMTT(30)
  <2> QED
    BY <1>4, <2>1
<1>7. res'.data = [k \in 0..(res'.n - 1) |-> DeviceContent[req[1] + k]]
  BY <1>5, <1>6
<1>8. \A g \in stop..(frame[0].end - 1) :
        ~Known(g) /\ (\A v \in req[1]..(g - 1) : Known(v)) =>
          /\ g \in Served!Gaps(req) /\ \A h \in Served!Gaps(req) : g <= h
          /\ res'.n \in 0..(g - req[1])
  <2> SUFFICES ASSUME NEW g \in stop..(frame[0].end - 1), ~Known(g), \A v \in req[1]..(g - 1) : Known(v)
               PROVE  /\ g \in Served!Gaps(req) /\ \A h \in Served!Gaps(req) : g <= h
                      /\ res'.n \in 0..(g - req[1])
    OBVIOUS
  <2>1. g \in req[1]..(frame[0].end - 1) /\ res'.n \in 0..(g - req[1])
    BY <1>1, <1>5
  <2>2. ASSUME NEW h \in Served!Gaps(req), ~(g <= h) PROVE FALSE
    <3>1. h \in req[1]..(frame[0].end - 1) /\ ~Known(h)
      BY <1>3, <1>4, <2>2
    <3>2. h \in req[1]..(g - 1)
      BY <1>1, <2>1, <2>2, <3>1
    <3> QED
      BY <3>1, <3>2
  <2> QED
    BY <1>3, <1>4, <2>1, <2>2
<1>9. Served!Answers(req, res')
  <2>1. CASE /\ stop = frame[0].end
             /\ res'.err = IF req[2] > Size - req[1] THEN "EOF" ELSE "nil"
             /\ \A v \in req[1]..(frame[0].end - 1) : Known(v)
    <3>1. Served!Gaps(req) = {}
      BY <1>3, <1>4, <2>1
    <3>2. res'.n = Served!Wanted(req)
      BY <1>1, <1>2, <1>5, <2>1
    <3>3. res'.err = IF req[1] >= Size \/ req[2] > Size - req[1] THEN "EOF" ELSE "nil"
      BY <1>1, <2>1, SizeAssumption
    <3> QED
      BY <1>7, <3>1, <3>2, <3>3 DEF Served!Answers
  <2>2. ASSUME NEW g \in stop..(frame[0].end - 1), \A v \in req[1]..(g - 1) : Known(v),
               \/ DeviceByte(g).by = "missing" /\ res'.err = "EOF"
               \/ DeviceByte(g).by = "unresolved" /\ res'.err = "ErrParentRequired"
        PROVE  Served!Answers(req, res')
    <3>1. /\ g \in Served!Gaps(req) /\ \A h \in Served!Gaps(req) : g <= h
          /\ res'.n \in 0..(g - req[1])
      BY <1>8, <2>2 DEF Known
    <3>2. res'.err = Served!ErrorFor(DeviceContent[g])
      <4>1. DeviceContent[g] = DeviceByte(g)
        BY <1>3, <1>4, <3>1
      <4> QED
        BY <4>1, <2>2 DEF Served!ErrorFor
    <3> QED
      BY <1>7, <3>1, <3>2 DEF Served!Answers
  <2> QED
    BY <1>5, <2>1, <2>2
<1>10. DeviceContent' = DeviceContent
  BY <1>5 DEF DeviceContent
<1> QED
  BY <1>1, <1>9, <1>10, RequestIsNoEmptySequence DEF Served!Reply

\* A read, with all its segments and nested calls, is one atomic answer of a flat
\* device: the chain implements Device for every chain, size and request.
THEOREM ReadsImplementDevice == Spec => ImplementsDevice
<1>1. Init => Served!Init
  BY DEF Init, Served!Init, Served!NoAnswer, NoAnswer
<1>2. ASSUME IInv, [Next]_vars PROVE [Served!Next]_(Served!vars)
  <2>1. ASSUME UNCHANGED <<img, linked, res>>, pc' = pc, req' = req
        PROVE  UNCHANGED Served!vars
    BY <2>1 DEF Served!vars, DeviceContent
  <2>2. ASSUME NEW i \in Positions, SetParent(i) PROVE Served!Next
    BY <1>2, <2>2, SetParentAttaches DEF Served!Next
  <2>3. ASSUME NEW r \in Requests, ReadNothing(r) PROVE Served!Next
    BY <1>2, <2>3, ReadNothingAnswers DEF Served!Next
  <2>4. ASSUME NEW r \in Requests, BeginRead(r) PROVE Served!Next
    <3>1. /\ pc = "idle" /\ pc' = "reading" /\ req' = r /\ res' = NoAnswer /\ UNCHANGED <<img, linked>>
      BY <2>4 DEF BeginRead
    <3>2. DeviceContent' = DeviceContent
      BY <3>1 DEF DeviceContent
    <3> QED
      BY <3>1, <3>2 DEF Served!Next, Served!Call, Served!NoAnswer, NoAnswer
  <2>5. CASE Next /\ pc = "reading" /\ pc' = "idle"
    BY <1>2, <2>5, ReadEndReplies DEF Served!Next
  <2>6. CASE ReadStep /\ ~(pc = "reading" /\ pc' = "idle")
    <3>1. pc = "reading" /\ pc' # "idle"
      BY <2>6 DEF ReadStep, ReadOwn, ReadParent, ParentMissing, Return, Finish, Running
    <3>2. UNCHANGED <<img, linked, res>> /\ pc' = pc /\ req' = req
      BY <2>6, <3>1 DEF ReadStep, ReadOwn, ReadParent, ParentMissing, Return, Finish, Answer
    <3> QED
      BY <2>1, <3>2
  <2>7. CASE UNCHANGED vars
    BY <2>1, <2>7 DEF vars
  <2> QED
    BY <1>2, <2>2, <2>3, <2>4, <2>5, <2>6, <2>7 DEF Next
<1> QED
  BY <1>1, <1>2, Invariant, PTL DEF Spec, ImplementsDevice, Served!Spec
=============================================================================
