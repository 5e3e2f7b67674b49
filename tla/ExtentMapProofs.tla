-------------------------- MODULE ExtentMapProofs --------------------------
(***************************************************************************)
(* Proofs about the extent map, the change report and the stream, for      *)
(* every chain, every table and bitmap, and every range, chunk and buffer. *)
(*                                                                         *)
(* Nothing here changes an image, so the invariant is short: an answer is  *)
(* what the operation asked for gives of the chain as it is attached now   *)
(* (Answered).  The rest is about what the operations compute.  An extent  *)
(* is Honest when all its bytes are what it says; rawExtents gives Honest  *)
(* extents that tile the range, mergeExtents keeps both and leaves no two  *)
(* neighbours that could still be merged, and there is only one such       *)
(* sequence for a range.                                                   *)
(***************************************************************************)
EXTENDS ExtentMap, IndexLemmas, SequenceTheorems

-----------------------------------------------------------------------------
(* One image.                                                               *)

\* Where a block's bytes live, one case at a time.
LEMMA ClassifyCases ==
  ASSUME NEW im, NEW b
  PROVE  LET st == im.state[b] IN
         Classify(im, b) =
           IF im.fmt = "VHD" THEN (IF st \in {6, 7} THEN "perSector" ELSE "parent")
           ELSE IF st = 6 THEN "child"
           ELSE IF st = 7 THEN "perSector"
           ELSE IF st = 0 THEN "parent" ELSE "zero"
<1>1. CASE im.fmt = "VHD"
  BY <1>1 DEF Classify, IsAllocated, Full, Partial
<1>2. CASE im.fmt # "VHD" /\ im.state[b] = 6
  <2>1. im.state[b] # 7 /\ im.state[b] # 0
    BY <1>2
  <2>2. Classify(im, b) = "child"
    BY <1>2, <2>1, Zenon DEF Classify, Full, Partial, None
  <2> QED
    BY <1>2, <2>2
<1>3. CASE im.fmt # "VHD" /\ im.state[b] = 7
  <2>1. im.state[b] # 6 /\ im.state[b] # 0
    BY <1>3
  <2>2. Classify(im, b) = "perSector"
    BY <1>3, <2>1, Zenon DEF Classify, Full, Partial, None
  <2> QED
    BY <1>3, <2>1, <2>2
<1>4. CASE im.fmt # "VHD" /\ im.state[b] = 0
  <2>1. im.state[b] # 6 /\ im.state[b] # 7
    BY <1>4
  <2>2. Classify(im, b) = "parent"
    BY <1>4, <2>1, Zenon DEF Classify, Full, Partial, None
  <2> QED
    BY <1>4, <2>1, <2>2
<1>5. CASE im.fmt # "VHD" /\ im.state[b] # 6 /\ im.state[b] # 7 /\ im.state[b] # 0
  <2>1. Classify(im, b) = "zero"
    BY <1>5, Zenon DEF Classify, Full, Partial, None
  <2> QED
    BY <1>5, <2>1
<1> QED
  BY <1>1, <1>2, <1>3, <1>4, <1>5

\* Who answers for a byte, by the kind of the image and the state of its block.
LEMMA SupplierByBlock ==
  ASSUME NEW im, WellFormed(im), NEW v \in 0..(Size - 1)
  PROVE  LET c == Classify(im, BlockIndex(im, v))
             bit == Present(im, BlockIndex(im, v), SectorIndex(im, v))
         IN  /\ im.kind \in {"fixed", "dynamic", "diff"}
             /\ im.kind = "fixed" => Supplier(im, v) = "file"
             /\ im.kind = "dynamic" => Supplier(im, v) = IF HasPayload(im, v) THEN "file" ELSE "zero"
             /\ im.kind = "diff" =>
                  /\ c \in {"child", "parent", "zero", "perSector"}
                  /\ c = "child"  => Supplier(im, v) = "file" /\ HasPayload(im, v)
                  /\ c = "parent" => Supplier(im, v) = "parent"
                  /\ c = "zero"   => Supplier(im, v) = "zero" /\ ~HasPayload(im, v)
                  /\ c = "perSector" /\ bit  => Supplier(im, v) = "file" /\ HasPayload(im, v)
                  /\ c = "perSector" /\ ~bit => Supplier(im, v) = "parent"
<1> DEFINE b == v \div im.bs
           st == im.state[b]
           pos == BitPos(im, b, SectorIndex(im, v))
           bits == im.bitmap[BitmapIndex(im, b)]
           bit == pos \in bits
<1>1. /\ im.fmt = "VHD" \/ im.fmt = "VHDX"
      /\ im.kind = "fixed" \/ im.kind = "dynamic" \/ im.kind = "diff"
      /\ im.fmt = "VHD" => st \in {0, 6}
      /\ st \in {0, 1, 2, 3, 6, 7}
  BY DEF WellFormed, BlockStates, None, Undefined, Zero, Unmapped, Full, Partial
<1>2. Supplier(im, v) =
        IF \/ im.kind = "fixed"
           \/ im.fmt = "VHD"  /\ st # 0 /\ (im.kind = "diff" => bit)
           \/ im.fmt = "VHDX" /\ (st = 6 \/ (st = 7 /\ bit))
        THEN "file"
        ELSE IF im.kind = "diff" /\ ~(im.fmt = "VHDX" /\ st \notin {0, 6, 7}) THEN "parent"
        ELSE "zero"
  BY <1>1 DEF Supplier, BitPos, BitmapIndex, SectorIndex, OffsetInBlock, None, Full, Partial
<1>3. HasPayload(im, v) <=> (st \in {6, 7} /\ (im.fmt = "VHDX" /\ st = 7 => bit))
  BY DEF HasPayload, IsAllocated, BlockIndex, Full, Partial, Present
<1>4. Classify(im, BlockIndex(im, v)) =
        IF im.fmt = "VHD" THEN (IF st \in {6, 7} THEN "perSector" ELSE "parent")
        ELSE IF st = 6 THEN "child"
        ELSE IF st = 7 THEN "perSector"
        ELSE IF st = 0 THEN "parent" ELSE "zero"
  BY ClassifyCases DEF BlockIndex
<1>5. Present(im, BlockIndex(im, v), SectorIndex(im, v)) <=> bit
  BY DEF Present, BlockIndex
<1> HIDE DEF b, st, pos, bits
<1> QED
  BY <1>1, <1>2, <1>3, <1>4, <1>5

\* In one block, sectors the bitmap treats alike are held by the file alike.
LEMMA SameSectorSamePayload ==
  ASSUME NEW im, NEW v, NEW w,
         BlockIndex(im, v) = BlockIndex(im, w),
         im.fmt = "VHDX" /\ im.state[BlockIndex(im, v)] = Partial =>
           (Present(im, BlockIndex(im, v), SectorIndex(im, v)) <=>
              Present(im, BlockIndex(im, w), SectorIndex(im, w)))
  PROVE  HasPayload(im, v) <=> HasPayload(im, w)
  BY DEF HasPayload

\* A byte of an image's file lies at an offset of it.
LEMMA FileOffsetIsOffset ==
  ASSUME NEW im, WellFormed(im), NEW v \in 0..(Size - 1)
  PROVE  FileOffset(im, v) \in Nat
<1>1. im.bs \in Nat \ {0} /\ v \in Nat /\ im.at[BlockIndex(im, v)] \in Nat
  BY SizeAssumption DEF WellFormed, BlockIndex
<1>2. OffsetInBlock(im, v) \in Nat
  BY <1>1, Division DEF OffsetInBlock
<1> QED
  BY <1>1, <1>2 DEF FileOffset

-----------------------------------------------------------------------------
(* The chain: which image answers for a byte.                               *)

\* An image that does not pass a byte on, with only images above it that do, is
\* the nearest, however much of the chain below it is attached.
LEMMA NearestIsFirstSupplier ==
  ASSUME NEW chain, NEW last \in Nat, NEW v, NEW j \in 0..last,
         Supplier(chain[j], v) # "parent",
         \A k \in 0..(j - 1) : Supplier(chain[k], v) = "parent"
  PROVE  Nearest(chain, 0, last, v) = j
<1> DEFINE P(i) == /\ Supplier(chain[i], v) # "parent"
                   /\ \A k \in 0..(i - 1) : Supplier(chain[k], v) = "parent"
<1>1. P(j)
  OBVIOUS
<1>2. \A i \in 0..last : P(i) => i = j
  <2> SUFFICES ASSUME NEW i \in 0..last, P(i), i # j PROVE FALSE
    OBVIOUS
  <2>1. i \in 0..(j - 1) \/ j \in 0..(i - 1)
    OBVIOUS
  <2> QED
    BY <2>1
<1>3. (CHOOSE i \in 0..last : P(i)) = j
  <2> HIDE DEF P
  <2> QED
    BY <1>1, <1>2
<1> QED
  BY <1>3 DEF Nearest

-----------------------------------------------------------------------------
(* One run of one image: how far it reaches, and that every byte of it is   *)
(* supplied alike and lies where the run says.                              *)

-----------------------------------------------------------------------------
(* What an image says of a byte is who supplies it.                         *)

LEMMA KindAtOfDiff ==
  ASSUME NEW im, NEW v, im.kind = "diff"
  PROVE  LET c == Classify(im, BlockIndex(im, v))
             bit == Present(im, BlockIndex(im, v), SectorIndex(im, v))
         IN  /\ c = "zero"   => KindAt(im, v) = "zeroed-by-child"
             /\ c = "parent" => KindAt(im, v) = "parent"
             /\ c = "child" /\ HasPayload(im, v) => KindAt(im, v) = "mapped"
             /\ c = "perSector" /\ ~bit => KindAt(im, v) = "parent"
             /\ c = "perSector" /\ bit /\ HasPayload(im, v) => KindAt(im, v) = "mapped"
<1>0. im.kind # "fixed" /\ im.kind # "dynamic"
  OBVIOUS
<1> DEFINE c == Classify(im, BlockIndex(im, v))
           bit == Present(im, BlockIndex(im, v), SectorIndex(im, v))
<1>1. c = "zero"   => KindAt(im, v) = "zeroed-by-child"
  <2> SUFFICES ASSUME c = "zero" PROVE KindAt(im, v) = "zeroed-by-child"
    OBVIOUS
  <2>1. c # "parent" /\ c # "child"
    OBVIOUS
  <2> QED
    BY <1>0, <2>1, Zenon DEF KindAt
<1>2. c = "parent" => KindAt(im, v) = "parent"
  <2> SUFFICES ASSUME c = "parent" PROVE KindAt(im, v) = "parent"
    OBVIOUS
  <2>1. c # "zero" /\ c # "child"
    OBVIOUS
  <2> QED
    BY <1>0, <2>1, Zenon DEF KindAt
<1>3. c = "child" /\ HasPayload(im, v) => KindAt(im, v) = "mapped"
  <2> SUFFICES ASSUME c = "child", HasPayload(im, v) PROVE KindAt(im, v) = "mapped"
    OBVIOUS
  <2>1. c # "zero" /\ c # "parent"
    OBVIOUS
  <2> QED
    BY <1>0, <2>1, Zenon DEF KindAt
<1>4. c = "perSector" => KindAt(im, v) = IF ~bit THEN "parent" ELSE IF HasPayload(im, v) THEN "mapped" ELSE "zeroed-by-child"
  <2> SUFFICES ASSUME c = "perSector" PROVE KindAt(im, v) = IF ~bit THEN "parent" ELSE IF HasPayload(im, v) THEN "mapped" ELSE "zeroed-by-child"
    OBVIOUS
  <2>1. c # "zero" /\ c # "parent" /\ c # "child"
    OBVIOUS
  <2> QED
    BY <1>0, <2>1, Zenon DEF KindAt
<1> QED
  BY <1>1, <1>2, <1>3, <1>4

\* The kind of a byte, by its supplier.
LEMMA KindBySupplier ==
  ASSUME NEW im, WellFormed(im), NEW v \in Offsets
  PROVE  /\ Supplier(im, v) = "file"   => KindAt(im, v) = "mapped"
         /\ Supplier(im, v) = "parent" => KindAt(im, v) = "parent"
         /\ Supplier(im, v) = "zero"   =>
              IF im.kind = "diff" THEN KindAt(im, v) = "zeroed-by-child" ELSE KindAt(im, v) = "zero"
         /\ Supplier(im, v) \in {"file", "parent", "zero"}
<1>0. v \in 0..(Size - 1)
  BY DEF Offsets
<1> DEFINE c == Classify(im, BlockIndex(im, v))
           bit == Present(im, BlockIndex(im, v), SectorIndex(im, v))
           pay == HasPayload(im, v)
           sup == Supplier(im, v)
<1>1. /\ im.kind \in {"fixed", "dynamic", "diff"}
      /\ im.kind = "fixed" => sup = "file"
      /\ im.kind = "dynamic" => sup = IF pay THEN "file" ELSE "zero"
      /\ im.kind = "diff" =>
           /\ c \in {"child", "parent", "zero", "perSector"}
           /\ c = "child"  => sup = "file" /\ pay
           /\ c = "parent" => sup = "parent"
           /\ c = "zero"   => sup = "zero" /\ ~pay
           /\ c = "perSector" /\ bit  => sup = "file" /\ pay
           /\ c = "perSector" /\ ~bit => sup = "parent"
  BY <1>0, SupplierByBlock
<1>2. CASE im.kind = "fixed"
  <2>1. KindAt(im, v) = "mapped"
    BY <1>2 DEF KindAt
  <2> QED
    BY <1>1, <1>2, <2>1
<1>3. CASE im.kind = "dynamic"
  <2>1. KindAt(im, v) = IF pay THEN "mapped" ELSE "zero"
    BY <1>3 DEF KindAt
  <2> QED
    BY <1>1, <1>3, <2>1
<1>4. CASE im.kind = "diff"
  <2>1. /\ c = "zero"   => KindAt(im, v) = "zeroed-by-child"
        /\ c = "parent" => KindAt(im, v) = "parent"
        /\ c = "child" /\ pay => KindAt(im, v) = "mapped"
        /\ c = "perSector" /\ ~bit => KindAt(im, v) = "parent"
        /\ c = "perSector" /\ bit /\ pay => KindAt(im, v) = "mapped"
    BY <1>4, KindAtOfDiff
  <2> HIDE DEF c, bit, pay, sup
  <2>2. CASE c = "child"
    BY <1>1, <1>4, <2>1, <2>2 DEF sup
  <2>3. CASE c = "parent"
    BY <1>1, <1>4, <2>1, <2>3 DEF sup
  <2>4. CASE c = "zero"
    BY <1>1, <1>4, <2>1, <2>4 DEF sup
  <2>5. CASE c = "perSector"
    BY <1>1, <1>4, <2>1, <2>5 DEF sup
  <2> QED
    BY <1>1, <1>4, <2>2, <2>3, <2>4, <2>5
<1> QED
  BY <1>1, <1>2, <1>3, <1>4

-----------------------------------------------------------------------------
(* Bytes of one block, and of one sector.                                   *)

LEMMA AfterInBlock ==
  ASSUME NEW im, WellFormed(im), NEW at \in Offsets, NEW v \in Offsets,
         at <= v, v < BlockEnd(im, at)
  PROVE  /\ BlockIndex(im, v) = BlockIndex(im, at)
         /\ OffsetInBlock(im, v) = OffsetInBlock(im, at) + (v - at)
<1> DEFINE b == at \div im.bs
<1>1. im.bs \in Nat \ {0} /\ at \in Nat /\ v \in Nat
  BY SizeAssumption DEF WellFormed, Offsets
<1>2. b \in Nat /\ b * im.bs <= at /\ (at % im.bs) = at - b * im.bs
  <2>1. b \in Nat /\ b * im.bs <= at /\ at < (b + 1) * im.bs
    BY <1>1, Division
  <2> HIDE DEF b
  <2> QED
    BY <1>1, <2>1, DivisionUnique
<1>3. v < (b + 1) * im.bs
  BY DEF BlockEnd, BlockIndex
<1>a. b * im.bs \in Nat
  <2> HIDE DEF b
  <2> QED
    BY <1>1, <1>2
<1>b. b * im.bs <= v
  <2> HIDE DEF b
  <2> QED
    BY <1>1, <1>2, <1>a
<1>4. v \div im.bs = b /\ (v % im.bs) = v - b * im.bs
  <2> HIDE DEF b
  <2> QED
    BY <1>1, <1>2, <1>3, <1>b, DivisionUnique
<1>5. v - b * im.bs = (at - b * im.bs) + (v - at)
  <2> DEFINE p == b * im.bs
  <2>1. p \in Nat
    BY <1>a
  <2> HIDE DEF p, b
  <2>2. v - p = (at - p) + (v - at)
    BY <1>1, <2>1
  <2> QED
    BY <2>2 DEF p
<1> QED
  BY <1>2, <1>4, <1>5 DEF BlockIndex, OffsetInBlock

LEMMA AtBeforeBlockEnd ==
  ASSUME NEW im, WellFormed(im), NEW at \in Offsets
  PROVE  BlockEnd(im, at) \in Nat /\ at < BlockEnd(im, at)
<1>1. im.bs \in Nat \ {0} /\ at \in Nat
  BY SizeAssumption DEF WellFormed, Offsets
<1>2. at \div im.bs \in Nat /\ at < ((at \div im.bs) + 1) * im.bs
  BY <1>1, Division
<1> QED
  BY <1>1, <1>2 DEF BlockEnd, BlockIndex

LEMMA AfterInSector ==
  ASSUME NEW im, WellFormed(im), NEW at \in Offsets, NEW v \in Offsets,
         at <= v, v < BlockEnd(im, at), v < SectorEnd(im, at)
  PROVE  SectorIndex(im, v) = SectorIndex(im, at)
<1> DEFINE b == BlockIndex(im, at)
           o == OffsetInBlock(im, at)
           q == o \div im.ss
           p == b * im.bs
           r == (q + 1) * im.ss
<1>1. im.bs \in Nat \ {0} /\ im.ss \in Nat \ {0} /\ at \in Nat /\ v \in Nat
  BY SizeAssumption DEF WellFormed, Offsets
<1>2. b \in Nat /\ o \in Nat /\ at = p + o
  BY <1>1, Division DEF BlockIndex, OffsetInBlock
<1>3. p \in Nat
  BY <1>1, <1>2
<1>4. OffsetInBlock(im, v) = o + (v - at)
  BY AfterInBlock
<1>5. v < p + r
  BY DEF SectorEnd, SectorIndex
<1>6. q \in Nat /\ q * im.ss <= o /\ q * im.ss \in Nat
  BY <1>1, <1>2, Division, SMTT(30)
<1>7. r \in Nat
  BY <1>1, <1>6
<1>8. o + (v - at) < r /\ o <= o + (v - at) /\ o + (v - at) \in Nat
  <2> HIDE DEF o, p, r, b
  <2> QED
    BY <1>1, <1>2, <1>3, <1>5, <1>7
<1>9. q * im.ss <= o + (v - at)
  <2> DEFINE z == q * im.ss
  <2>1. z <= o /\ z \in Nat
    BY <1>6
  <2> HIDE DEF o, q, z
  <2>2. z <= o + (v - at)
    BY <2>1, <1>8, <1>2
  <2> QED
    BY <2>2 DEF z
<1>10. (o + (v - at)) \div im.ss = q
  <2> HIDE DEF o, q
  <2>1. o + (v - at) < (q + 1) * im.ss
    BY <1>8 DEF r
  <2> QED
    BY <1>1, <1>6, <1>8, <1>9, <2>1, DivisionUnique
<1> QED
  BY <1>4, <1>10 DEF SectorIndex

LEMMA AtBeforeSectorEnd ==
  ASSUME NEW im, WellFormed(im), NEW at \in Offsets
  PROVE  SectorEnd(im, at) \in Nat /\ at < SectorEnd(im, at)
<1> DEFINE b == BlockIndex(im, at)
           o == OffsetInBlock(im, at)
           p == b * im.bs
           r == ((o \div im.ss) + 1) * im.ss
<1>1. im.bs \in Nat \ {0} /\ im.ss \in Nat \ {0} /\ at \in Nat
  BY SizeAssumption DEF WellFormed, Offsets
<1>2. b \in Nat /\ o \in Nat /\ at = p + o
  BY <1>1, Division DEF BlockIndex, OffsetInBlock
<1>3. p \in Nat
  BY <1>1, <1>2
<1>4. o < r /\ r \in Nat
  <2>1. o \div im.ss \in Nat /\ o < ((o \div im.ss) + 1) * im.ss
    BY <1>1, <1>2, Division
  <2> QED
    BY <1>1, <2>1
<1>5. SectorEnd(im, at) = p + r
  BY DEF SectorEnd, SectorIndex
<1> HIDE DEF p, r, o, b
<1> QED
  BY <1>2, <1>3, <1>4, <1>5

-----------------------------------------------------------------------------
(* The run.                                                                 *)

\* All of a span is one block, and lies in the file as it lies on the device.
LEMMA SpanIsOneBlock ==
  ASSUME NEW im, WellFormed(im), NEW at \in Offsets, NEW end \in (at + 1)..Size
  PROVE  /\ SpanEnd(im, at, end) \in (at + 1)..end
         /\ \A v \in at..(SpanEnd(im, at, end) - 1) :
              /\ v \in Offsets
              /\ im.kind # "fixed" => v < BlockEnd(im, at)
              /\ FileOffset(im, v) = FileOffset(im, at) + (v - at)
<1> DEFINE span == SpanEnd(im, at, end)
<1>1. at \in Nat /\ end \in Nat /\ Size \in Nat /\ at < end /\ end <= Size
  BY SizeAssumption DEF Offsets
<1>2. BlockEnd(im, at) \in Nat /\ at < BlockEnd(im, at)
  BY AtBeforeBlockEnd
<1>3. span \in (at + 1)..end /\ (im.kind # "fixed" => span <= BlockEnd(im, at))
  BY <1>1, <1>2 DEF SpanEnd, Least
<1>4. ASSUME NEW v \in at..(span - 1)
      PROVE  /\ v \in Offsets
             /\ im.kind # "fixed" => v < BlockEnd(im, at)
             /\ FileOffset(im, v) = FileOffset(im, at) + (v - at)
  <2>1. v \in Nat /\ at <= v /\ v < span
    <3> HIDE DEF span
    <3> QED
      BY <1>1, <1>3
  <2>2. v \in Offsets /\ (im.kind # "fixed" => v < BlockEnd(im, at))
    <3> HIDE DEF span
    <3> QED
      BY <1>1, <1>2, <1>3, <2>1 DEF Offsets
  <2>3. CASE im.kind = "fixed"
    BY <1>1, <2>1, <2>2, <2>3 DEF FileOffset
  <2>4. CASE im.kind # "fixed"
    <3>1. BlockIndex(im, v) = BlockIndex(im, at) /\ OffsetInBlock(im, v) = OffsetInBlock(im, at) + (v - at)
      BY <2>1, <2>2, <2>4, AfterInBlock
    <3>2. im.at[BlockIndex(im, at)] \in Nat /\ OffsetInBlock(im, at) \in Nat
      <4>1. im.bs \in Nat \ {0} /\ at \in 0..(Size - 1)
        BY DEF WellFormed, Offsets
      <4>2. OffsetInBlock(im, at) \in Nat
        BY <1>1, <4>1, Division DEF OffsetInBlock
      <4> QED
        BY <4>1, <4>2 DEF WellFormed, BlockIndex
    <3> DEFINE a == im.at[BlockIndex(im, at)]
               o == OffsetInBlock(im, at)
    <3>3. FileOffset(im, v) = a + (o + (v - at)) /\ FileOffset(im, at) = a + o
      BY <2>4, <3>1 DEF FileOffset
    <3> HIDE DEF a, o
    <3> QED
      BY <1>1, <2>1, <2>2, <3>2, <3>3 DEF a, o
  <2> QED
    BY <2>2, <2>3, <2>4
<1> QED
  BY <1>3, <1>4

\* Where no bitmap decides, a block is supplied alike.
LEMMA BlockSuppliedAlike ==
  ASSUME NEW im, WellFormed(im), NEW at \in Offsets, NEW v \in Offsets,
         BlockIndex(im, v) = BlockIndex(im, at),
         im.kind = "diff" => Classify(im, BlockIndex(im, at)) # "perSector",
         im.kind = "dynamic" => ~(im.fmt = "VHDX" /\ im.state[BlockIndex(im, at)] = Partial)
  PROVE  Supplier(im, v) = Supplier(im, at)
<1> DEFINE c == Classify(im, BlockIndex(im, at))
<1>1. v \in 0..(Size - 1) /\ at \in 0..(Size - 1)
  BY DEF Offsets
<1>2. im.kind \in {"fixed", "dynamic", "diff"}
  BY <1>1, SupplierByBlock
<1>3. CASE im.kind = "fixed"
  BY <1>1, <1>3, SupplierByBlock
<1>4. CASE im.kind = "dynamic"
  <2>1. HasPayload(im, v) <=> HasPayload(im, at)
    BY <1>4 DEF HasPayload
  <2>2. /\ Supplier(im, v) = IF HasPayload(im, v) THEN "file" ELSE "zero"
        /\ Supplier(im, at) = IF HasPayload(im, at) THEN "file" ELSE "zero"
    BY <1>1, <1>4, SupplierByBlock
  <2> QED
    BY <2>1, <2>2
<1>5. CASE im.kind = "diff"
  <2>1. c \in {"child", "parent", "zero"}
    BY <1>1, <1>5, SupplierByBlock
  <2>2. /\ c = "child" => Supplier(im, v) = "file" /\ Supplier(im, at) = "file"
        /\ c = "parent" => Supplier(im, v) = "parent" /\ Supplier(im, at) = "parent"
        /\ c = "zero" => Supplier(im, v) = "zero" /\ Supplier(im, at) = "zero"
    BY <1>1, <1>5, SupplierByBlock
  <2> QED
    BY <2>1, <2>2
<1> QED
  BY <1>2, <1>3, <1>4, <1>5

\* Where a bitmap decides, the sectors it treats alike are supplied alike.
LEMMA SectorsSuppliedAlike ==
  ASSUME NEW im, WellFormed(im), im.kind # "fixed", NEW at \in Offsets, NEW v \in Offsets,
         BlockIndex(im, v) = BlockIndex(im, at),
         Present(im, BlockIndex(im, at), SectorIndex(im, v)) <=> Present(im, BlockIndex(im, at), SectorIndex(im, at))
  PROVE  Supplier(im, v) = Supplier(im, at)
<1> DEFINE c == Classify(im, BlockIndex(im, at))
<1>1. v \in 0..(Size - 1) /\ at \in 0..(Size - 1)
  BY DEF Offsets
<1>2. im.kind \in {"dynamic", "diff"}
  BY <1>1, SupplierByBlock
<1>3. CASE im.kind = "dynamic"
  <2>1. HasPayload(im, v) <=> HasPayload(im, at)
    BY SameSectorSamePayload
  <2>2. /\ Supplier(im, v) = IF HasPayload(im, v) THEN "file" ELSE "zero"
        /\ Supplier(im, at) = IF HasPayload(im, at) THEN "file" ELSE "zero"
    BY <1>1, <1>3, SupplierByBlock
  <2> QED
    BY <2>1, <2>2
<1>4. CASE im.kind = "diff" /\ c # "perSector"
  BY <1>4, BlockSuppliedAlike
<1>5. CASE im.kind = "diff" /\ c = "perSector"
  <2> DEFINE bit == Present(im, BlockIndex(im, at), SectorIndex(im, at))
  <2>1. /\ bit  => Supplier(im, v) = "file" /\ Supplier(im, at) = "file"
        /\ ~bit => Supplier(im, v) = "parent" /\ Supplier(im, at) = "parent"
    BY <1>1, <1>5, SupplierByBlock
  <2> QED
    BY <2>1
<1> QED
  BY <1>2, <1>3, <1>4, <1>5

\* Every byte of a run is supplied alike, and lies where the run says.
LEMMA RunIsUniform ==
  ASSUME NEW im, WellFormed(im), NEW at \in Offsets, NEW end \in (at + 1)..Size
  PROVE  /\ RunOf(im, at, end) \in (at + 1)..end
         /\ \A v \in at..(RunOf(im, at, end) - 1) :
              /\ v \in Offsets
              /\ Supplier(im, v) = Supplier(im, at)
              /\ FileOffset(im, v) = FileOffset(im, at) + (v - at)
<1> DEFINE span == SpanEnd(im, at, end)
           b    == BlockIndex(im, at)
           alike(v) == \A w \in at..v :
                         Present(im, b, SectorIndex(im, w)) = Present(im, b, SectorIndex(im, at))
           same == {v \in at..(span - 1) : alike(v)}
           run  == RunOf(im, at, end)
<1>1. at \in Nat /\ end \in Nat /\ Size \in Nat /\ at < end /\ end <= Size
  BY SizeAssumption DEF Offsets
<1>2. /\ span \in (at + 1)..end
      /\ \A v \in at..(span - 1) :
           /\ v \in Offsets
           /\ im.kind # "fixed" => v < BlockEnd(im, at)
           /\ FileOffset(im, v) = FileOffset(im, at) + (v - at)
  BY SpanIsOneBlock
<1>3. \A v \in at..(span - 1) : im.kind # "fixed" => BlockIndex(im, v) = b
  <2> HIDE DEF span
  <2> SUFFICES ASSUME NEW v \in at..(span - 1), im.kind # "fixed" PROVE BlockIndex(im, v) = b
    OBVIOUS
  <2>1. v \in Offsets /\ at <= v /\ v < BlockEnd(im, at)
    BY <1>1, <1>2
  <2> QED
    BY <2>1, AfterInBlock
<1>4. CASE im.kind = "diff" /\ Classify(im, b) = "perSector"
  <2> DEFINE Ends(e) == e - 1 \in same /\ e \notin same
  <2>1. run = CHOOSE e \in (at + 1)..span : Ends(e)
    BY <1>4 DEF RunOf
  <2>2. \E e \in (at + 1)..span : Ends(e)
    <3>1. at \in same
      <4>1. at \in at..(span - 1)
        <5> HIDE DEF span
        <5> QED
          BY <1>1, <1>2
      <4>2. \A w \in at..at : w = at
        BY <1>1
      <4> QED
        BY <4>1, <4>2
    <3>2. same \in SUBSET (0..Size) /\ same # {} /\ same \subseteq at..(span - 1)
      <4>1. at..(span - 1) \subseteq 0..Size
        <5> HIDE DEF span
        <5> QED
          BY <1>1, <1>2
      <4> QED
        BY <3>1, <4>1
    <3>3. PICK g \in same : \A n \in same : n <= g
      <4> HIDE DEF same
      <4> QED
        BY <1>1, <3>2, GreatestExists
    <3>4. g \in at..(span - 1)
      OBVIOUS
    <3>5. g + 1 \in (at + 1)..span /\ (g + 1) - 1 = g /\ g + 1 \notin same
      <4> HIDE DEF span, same
      <4>1. g \in Int /\ ~(g + 1 <= g)
        BY <1>1, <3>4
      <4> QED
        BY <1>1, <1>2, <3>3, <3>4, <4>1
    <3> HIDE DEF same, span
    <3> QED
      BY <3>5
  <2>3. run \in (at + 1)..span /\ Ends(run)
    <3> HIDE DEF Ends, span, run
    <3> QED
      BY <2>1, <2>2
  <2>4. ASSUME NEW v \in at..(run - 1)
        PROVE  v \in at..(span - 1) /\ Supplier(im, v) = Supplier(im, at)
    <3>1. alike(run - 1) /\ run - 1 \in at..(span - 1)
      BY <2>3
    <3>2. Present(im, b, SectorIndex(im, v)) = Present(im, b, SectorIndex(im, at))
      BY <3>1
    <3>3. v \in at..(span - 1)
      <4> HIDE DEF span, run, same
      <4> QED
        BY <1>1, <1>2, <2>3
    <3>4. v \in Offsets /\ BlockIndex(im, v) = b
      <4> HIDE DEF span, b
      <4> QED
        BY <1>2, <1>3, <1>4, <3>3
    <3> QED
      BY <1>4, <3>2, <3>3, <3>4, SectorsSuppliedAlike
  <2>5. run \in (at + 1)..end
    <3> HIDE DEF span, run, same, Ends
    <3> QED
      BY <1>1, <1>2, <2>3
  <2> QED
    BY <1>2, <2>4, <2>5
<1>5. CASE im.kind = "dynamic" /\ im.fmt = "VHDX" /\ im.state[b] = Partial
  <2> DEFINE stop == SectorEnd(im, at)
  <2>1. run = Least(span, stop)
    BY <1>5 DEF RunOf
  <2>2. stop \in Nat /\ at < stop
    BY AtBeforeSectorEnd
  <2>3. run \in (at + 1)..span /\ run <= stop
    <3> HIDE DEF span, stop, run
    <3> QED
      BY <1>1, <1>2, <2>1, <2>2 DEF Least
  <2>4. ASSUME NEW v \in at..(run - 1)
        PROVE  v \in at..(span - 1) /\ Supplier(im, v) = Supplier(im, at)
    <3>1. v \in at..(span - 1) /\ v < stop /\ at <= v
      <4> HIDE DEF span, stop, run
      <4> QED
        BY <1>1, <1>2, <2>2, <2>3
    <3>2. v \in Offsets /\ BlockIndex(im, v) = b /\ v < BlockEnd(im, at)
      <4> HIDE DEF span, b
      <4> QED
        BY <1>2, <1>3, <1>5, <3>1
    <3>3. SectorIndex(im, v) = SectorIndex(im, at)
      BY <3>1, <3>2, AfterInSector
    <3> QED
      BY <1>5, <3>1, <3>2, <3>3, SectorsSuppliedAlike
  <2>5. run \in (at + 1)..end
    <3> HIDE DEF span, run
    <3> QED
      BY <1>1, <1>2, <2>3
  <2> QED
    BY <1>2, <2>4, <2>5
<1>6. CASE ~(im.kind = "diff" /\ Classify(im, b) = "perSector")
           /\ ~(im.kind = "dynamic" /\ im.fmt = "VHDX" /\ im.state[b] = Partial)
  <2>1. run = span
    BY <1>6 DEF RunOf
  <2>2. ASSUME NEW v \in at..(span - 1)
        PROVE  Supplier(im, v) = Supplier(im, at)
    <3>1. v \in Offsets
      BY <1>2
    <3>2. CASE im.kind = "fixed"
      <4>1. v \in 0..(Size - 1) /\ at \in 0..(Size - 1)
        BY <3>1 DEF Offsets
      <4> QED
        BY <3>2, <4>1, SupplierByBlock
    <3>3. CASE im.kind # "fixed"
      <4>1. BlockIndex(im, v) = b
        BY <1>3, <3>3
      <4> QED
        BY <1>6, <3>1, <4>1, BlockSuppliedAlike
    <3> QED
      BY <3>2, <3>3
  <2> QED
    BY <1>2, <2>1, <2>2
<1> QED
  BY <1>4, <1>5, <1>6

AnyExtent == [off : Nat, len : Nat \ {0}, kind : Kinds, file : Nat, idx : 0..(Last + 1)]

Ready == img \in Chains /\ linked \in SUBSET (0..(Last - 1))

-----------------------------------------------------------------------------
(* The device under the attached chain.                                     *)

LEMMA ImagesWellFormed ==
  ASSUME Ready
  PROVE  \A i \in Positions : WellFormed(img[i])
  BY ChainsAssumption DEF Ready, Positions

\* There is a last attached position, and no other with no parent above it.
LEMMA LastLinkedIs ==
  ASSUME Ready
  PROVE  /\ LastLinked \in Positions /\ LastLinked \in Nat
         /\ LastLinked \notin linked /\ 0..(LastLinked - 1) \subseteq linked
         /\ \A i \in 0..LastLinked : i \notin linked => i = LastLinked
<1> DEFINE S == Positions \ linked
           Is(i) == i \notin linked /\ 0..(i - 1) \subseteq linked
<1>1. S \in SUBSET Nat /\ Last \in S
  BY LastAssumption DEF Ready, Positions
<1>2. PICK i \in S : \A n \in S : i <= n
  <2> HIDE DEF S
  <2> QED
    BY <1>1, LeastExists
<1>3. i \in Positions /\ Is(i)
  <2>1. i \in Positions /\ i \notin linked /\ i \in 0..Last
    BY DEF Positions
  <2>2. ASSUME NEW n \in 0..(i - 1), n \notin linked PROVE FALSE
    <3>1. n \in S /\ ~(i <= n)
      BY <2>1, <2>2, LastAssumption DEF Positions
    <3> QED
      BY <1>2, <3>1
  <2> QED
    BY <2>1, <2>2
<1>4. LastLinked \in Positions /\ Is(LastLinked)
  <2>1. LastLinked = CHOOSE j \in Positions : Is(j)
    BY DEF LastLinked
  <2> HIDE DEF Is
  <2> QED
    BY <1>3, <2>1
<1>5. LastLinked \in Nat
  BY <1>4, LastAssumption DEF Positions
<1>6. \A j \in 0..LastLinked : j \notin linked => j = LastLinked
  <2> SUFFICES ASSUME NEW j \in 0..LastLinked, j # LastLinked PROVE j \in linked
    OBVIOUS
  <2>1. j \in 0..(LastLinked - 1)
    BY <1>5
  <2> QED
    BY <1>4, <2>1
<1> QED
  BY <1>4, <1>5, <1>6

\* The image that answers for a byte, or one past the attached chain.
LEMMA OwnerCases ==
  ASSUME Ready, NEW v \in Offsets
  PROVE  /\ Owner(v) \in 0..(LastLinked + 1)
         /\ Owner(v) \in 0..LastLinked => Supplier(img[Owner(v)], v) \in {"file", "zero"}
<1> DEFINE S == {j \in 0..LastLinked : Supplier(img[j], v) # "parent"}
<1>1. LastLinked \in Nat /\ LastLinked \in Positions
  BY LastLinkedIs
<1>2. CASE S = {}
  <2>1. Owner(v) = LastLinked + 1
    BY <1>2 DEF Owner, Nearest
  <2> QED
    BY <1>1, <2>1
<1>3. CASE S # {}
  <2>1. S \in SUBSET Nat
    BY <1>1
  <2>2. PICK j \in S : \A n \in S : j <= n
    <3> HIDE DEF S
    <3> QED
      BY <1>3, <2>1, LeastExists
  <2>3. j \in 0..LastLinked /\ Supplier(img[j], v) # "parent"
    OBVIOUS
  <2>4. ASSUME NEW k \in 0..(j - 1), Supplier(img[k], v) # "parent" PROVE FALSE
    <3>1. k \in S /\ ~(j <= k)
      BY <1>1, <2>3, <2>4
    <3> QED
      BY <2>2, <3>1
  <2>5. Owner(v) = j
    BY <1>1, <2>3, <2>4, NearestIsFirstSupplier DEF Owner
  <2>6. Supplier(img[j], v) \in {"file", "parent", "zero"}
    <3>1. j \in Positions
      BY <1>1, <2>3, LastAssumption DEF Positions
    <3> QED
      BY <3>1, ImagesWellFormed, KindBySupplier
  <2> QED
    BY <1>1, <2>3, <2>5, <2>6
<1> QED
  BY <1>2, <1>3

\* The kind of a byte of the device.
KindOf(v) == IF Owner(v) \in 0..LastLinked THEN KindAt(img[Owner(v)], v) ELSE "unresolved"

\* What the kind of a byte says of what a read returns for it.
LEMMA KindTellsRead ==
  ASSUME Ready, NEW v \in Offsets
  PROVE  /\ KindOf(v) \in Kinds
         /\ KindOf(v) = "unresolved" => Owner(v) = LastLinked + 1 /\ DeviceByte(v) = [by |-> "unresolved"]
         /\ KindOf(v) = "mapped" => DeviceByte(v) = FromFile(Owner(v), FileOffset(img[Owner(v)], v))
         /\ KindOf(v) \in {"zero", "zeroed-by-child"} => DeviceByte(v) = [by |-> "zero"]
         /\ KindOf(v) # "unresolved" => Owner(v) \in 0..LastLinked
         /\ Owner(v) \in 0..LastLinked =>
              /\ KindOf(v) # "unresolved"
              /\ KindOf(v) = "zeroed-by-child" <=> DeviceByte(v) = [by |-> "zero"] /\ img[Owner(v)].kind = "diff"
<1> DEFINE j == Owner(v)
<1>1. LastLinked \in Nat /\ LastLinked \in Positions /\ j \in 0..(LastLinked + 1)
  BY LastLinkedIs, OwnerCases
<1>2. DeviceByte(v) =
        IF j > LastLinked THEN [by |-> "unresolved"]
        ELSE IF Supplier(img[j], v) = "zero" THEN [by |-> "zero"]
        ELSE FromFile(j, FileOffset(img[j], v))
  BY DEF DeviceByte, Content, Owner, FromFile, FileOffset, BlockIndex, OffsetInBlock
<1>3. CASE j = LastLinked + 1
  <2>1. j > LastLinked /\ ~(j \in 0..LastLinked)
    BY <1>1, <1>3
  <2>2. DeviceByte(v) = [by |-> "unresolved"] /\ KindOf(v) = "unresolved"
    BY <1>2, <2>1 DEF KindOf
  <2> QED
    BY <1>3, <2>1, <2>2 DEF Kinds
<1>4. CASE j # LastLinked + 1
  <2>1. j \in 0..LastLinked /\ ~(j > LastLinked) /\ j \in Positions
    BY <1>1, <1>4, LastAssumption DEF Positions
  <2>2. Supplier(img[j], v) \in {"file", "zero"}
    BY <2>1, OwnerCases
  <2>3. /\ Supplier(img[j], v) = "file" => KindOf(v) = "mapped"
        /\ Supplier(img[j], v) = "zero" =>
              IF img[j].kind = "diff" THEN KindOf(v) = "zeroed-by-child" ELSE KindOf(v) = "zero"
    BY <2>1, ImagesWellFormed, KindBySupplier DEF KindOf
  <2>4. DeviceByte(v) = IF Supplier(img[j], v) = "zero" THEN [by |-> "zero"]
                        ELSE FromFile(j, FileOffset(img[j], v))
    BY <1>2, <2>1
  <2>5. FromFile(j, FileOffset(img[j], v)) # [by |-> "zero"]
    BY DEF FromFile
  <2> HIDE DEF j
  <2>6. CASE Supplier(img[j], v) = "file"
    BY <2>1, <2>3, <2>4, <2>5, <2>6 DEF Kinds, j
  <2>7. CASE Supplier(img[j], v) = "zero" /\ img[j].kind = "diff"
    BY <2>1, <2>3, <2>4, <2>7 DEF Kinds, j
  <2>8. CASE Supplier(img[j], v) = "zero" /\ img[j].kind # "diff"
    BY <2>1, <2>3, <2>4, <2>8 DEF Kinds, j
  <2> QED
    BY <2>2, <2>6, <2>7, <2>8
<1> QED
  BY <1>3, <1>4

-----------------------------------------------------------------------------
(* Extents that say the truth, and sequences of them.                       *)

\* Every byte of e is of its kind; data lies where it says, and what is not
\* data and may be attributed is attributed to the owner of its first byte.
Honest(e) ==
  /\ e \in AnyExtent /\ EndOf(e) <= Size
  /\ \A v \in Covers(e) : KindOf(v) = e.kind
  /\ e.kind = "mapped" => \A v \in Covers(e) : Owner(v) = e.idx /\ FileOffset(img[e.idx], v) = e.file + (v - e.off)
  /\ e.kind # "mapped" => e.file = 0
  /\ e.kind \in {"zeroed-by-child", "unresolved"} => e.idx = Owner(e.off)

AllHonest(s) == \A k \in 1..Len(s) : Honest(s[k])

\* The extents of s follow one another without a gap from a to b.
Tiles(s, a, b) ==
  /\ s \in Seq(AnyExtent)
  /\ \A k \in 1..Len(s) : a <= s[k].off /\ EndOf(s[k]) <= b
  /\ \A k \in 1..(Len(s) - 1) : EndOf(s[k]) = s[k + 1].off
  /\ IF Len(s) = 0 THEN a = b ELSE s[1].off = a /\ EndOf(s[Len(s)]) = b

LEMMA ExtentFields ==
  ASSUME NEW e \in AnyExtent
  PROVE  /\ e.off \in Nat /\ e.len \in Nat \ {0} /\ e.kind \in Kinds /\ e.file \in Nat
         /\ e.idx \in 0..(Last + 1)
         /\ EndOf(e) \in Nat /\ EndOf(e) = e.off + e.len /\ e.off < EndOf(e)
  BY DEF AnyExtent, EndOf

LEMMA CoversItsFirst ==
  ASSUME NEW e \in AnyExtent
  PROVE  e.off \in Covers(e)
<1>1. e.off \in Nat /\ EndOf(e) \in Nat /\ e.off < EndOf(e)
  BY ExtentFields
<1> QED
  BY <1>1 DEF Covers

\* The elements of a concatenation are those of its parts.
LEMMA ConcatElements ==
  ASSUME NEW S, NEW s \in Seq(S), NEW t \in Seq(S)
  PROVE  /\ s \o t \in Seq(S) /\ Len(s \o t) = Len(s) + Len(t)
         /\ Len(s) \in Nat /\ Len(t) \in Nat
         /\ \A k \in 1..Len(s) : (s \o t)[k] = s[k]
         /\ \A k \in 1..Len(t) : (s \o t)[Len(s) + k] = t[k]
         /\ \A k \in 1..Len(s \o t) : k \in 1..Len(s) \/ (k - Len(s) \in 1..Len(t) /\ (s \o t)[k] = t[k - Len(s)])
<1>1. /\ s \o t \in Seq(S) /\ Len(s \o t) = Len(s) + Len(t)
      /\ \A i \in 1..(Len(s) + Len(t)) : (s \o t)[i] = IF i <= Len(s) THEN s[i] ELSE t[i - Len(s)]
  BY ConcatProperties
<1>2. Len(s) \in Nat /\ Len(t) \in Nat
  BY LenProperties
<1> DEFINE n == Len(s)
           m == Len(t)
           c == s \o t
<1>3. \A i \in 1..(n + m) : c[i] = IF i <= n THEN s[i] ELSE t[i - n]
  BY <1>1
<1> HIDE DEF n, m, c
<1>4. n \in Nat /\ m \in Nat
  BY <1>2 DEF n, m
<1>5. \A k \in 1..n : c[k] = s[k]
  BY <1>3, <1>4
<1>6. ASSUME NEW k \in 1..m PROVE c[n + k] = t[k]
  <2>1. n + k \in 1..(n + m) /\ ~(n + k <= n) /\ (n + k) - n = k
    BY <1>4
  <2> QED
    BY <1>3, <2>1
<1>7. ASSUME NEW k \in 1..(n + m), k \notin 1..n PROVE k - n \in 1..m /\ c[k] = t[k - n]
  <2>1. ~(k <= n) /\ k - n \in 1..m
    BY <1>4, <1>7
  <2> QED
    BY <1>3, <2>1
<1> QED
  BY <1>1, <1>4, <1>5, <1>6, <1>7 DEF n, m, c

\* Two tilings end to end make one.
LEMMA JoinTiles ==
  ASSUME NEW a \in Nat, NEW b \in Nat, NEW c \in Nat, a <= b, b <= c,
         NEW s, NEW t, Tiles(s, a, b), Tiles(t, b, c)
  PROVE  Tiles(s \o t, a, c)
<1> DEFINE u == s \o t
           n == Len(s)
           m == Len(t)
<1>1. /\ u \in Seq(AnyExtent) /\ Len(u) = n + m /\ n \in Nat /\ m \in Nat
      /\ \A k \in 1..n : u[k] = s[k]
      /\ \A k \in 1..m : u[n + k] = t[k]
      /\ \A k \in 1..(n + m) : k \in 1..n \/ (k - n \in 1..m /\ u[k] = t[k - n])
  BY ConcatElements DEF Tiles
<1>2. /\ \A k \in 1..n : s[k] \in AnyExtent /\ a <= s[k].off /\ EndOf(s[k]) <= b
      /\ \A k \in 1..(n - 1) : EndOf(s[k]) = s[k + 1].off
      /\ n = 0 => a = b
      /\ n # 0 => s[1].off = a /\ EndOf(s[n]) = b
  BY ElementOfSeq DEF Tiles
<1>3. /\ \A k \in 1..m : t[k] \in AnyExtent /\ b <= t[k].off /\ EndOf(t[k]) <= c
      /\ \A k \in 1..(m - 1) : EndOf(t[k]) = t[k + 1].off
      /\ m = 0 => b = c
      /\ m # 0 => t[1].off = b /\ EndOf(t[m]) = c
  BY ElementOfSeq DEF Tiles
<1> HIDE DEF u, n, m
<1>4. \A k \in 1..(n + m) : a <= u[k].off /\ EndOf(u[k]) <= c
  <2> SUFFICES ASSUME NEW k \in 1..(n + m) PROVE a <= u[k].off /\ EndOf(u[k]) <= c
    OBVIOUS
  <2>1. CASE k \in 1..n
    <3>1. s[k].off \in Nat /\ EndOf(s[k]) \in Nat
      BY <1>2, <2>1, ExtentFields
    <3> QED
      BY <1>1, <1>2, <2>1, <3>1
  <2>2. CASE k - n \in 1..m /\ u[k] = t[k - n]
    <3>1. t[k - n].off \in Nat /\ EndOf(t[k - n]) \in Nat
      BY <1>3, <2>2, ExtentFields
    <3> QED
      BY <1>3, <2>2, <3>1
  <2> QED
    BY <1>1, <2>1, <2>2
<1>5. \A k \in 1..(n + m - 1) : EndOf(u[k]) = u[k + 1].off
  <2> SUFFICES ASSUME NEW k \in 1..(n + m - 1) PROVE EndOf(u[k]) = u[k + 1].off
    OBVIOUS
  <2>1. CASE k \in 1..(n - 1)
    <3>1. k \in 1..n /\ k + 1 \in 1..n
      BY <1>1, <2>1
    <3> QED
      BY <1>1, <1>2, <2>1, <3>1
  <2>2. CASE k = n
    <3>1. n \in 1..n /\ n # 0 /\ m # 0 /\ 1 \in 1..m
      BY <1>1, <2>2
    <3>2. u[n + 1] = t[1] /\ u[n] = s[n]
      BY <1>1, <3>1
    <3> QED
      BY <1>2, <1>3, <2>2, <3>1, <3>2
  <2>3. CASE k \notin 1..n
    <3>1. PICK j \in 1..m : j = k - n
      BY <1>1, <2>3
    <3>2. j \in 1..(m - 1) /\ j + 1 \in 1..m /\ n + j = k /\ n + (j + 1) = k + 1
      BY <1>1, <2>3, <3>1
    <3>3. u[n + j] = t[j] /\ u[n + (j + 1)] = t[j + 1]
      BY <1>1, <3>2
    <3> QED
      BY <1>3, <3>2, <3>3
  <2> QED
    BY <1>1, <2>1, <2>2, <2>3
<1>6. IF n + m = 0 THEN a = c ELSE u[1].off = a /\ EndOf(u[n + m]) = c
  <2>1. CASE n = 0 /\ m = 0
    BY <1>2, <1>3, <2>1
  <2>2. CASE n = 0 /\ m # 0
    <3>1. 1 \in 1..m /\ m \in 1..m /\ n + 1 = 1 /\ n + m = m
      BY <1>1, <2>2
    <3>2. u[1] = t[1] /\ u[n + m] = t[m]
      BY <1>1, <3>1
    <3> QED
      BY <1>1, <1>2, <1>3, <2>2, <3>1, <3>2
  <2>3. CASE n # 0 /\ m = 0
    <3>1. 1 \in 1..n /\ n \in 1..n /\ n + m = n /\ n + m # 0
      BY <1>1, <2>3
    <3>2. u[1] = s[1] /\ u[n + m] = s[n]
      BY <1>1, <3>1
    <3> QED
      BY <1>2, <1>3, <2>3, <3>1, <3>2
  <2>4. CASE n # 0 /\ m # 0
    <3>1. 1 \in 1..n /\ m \in 1..m /\ n + m # 0
      BY <1>1, <2>4
    <3>2. u[1] = s[1] /\ u[n + m] = t[m]
      BY <1>1, <3>1
    <3> QED
      BY <1>2, <1>3, <2>4, <3>1, <3>2
  <2> QED
    BY <2>1, <2>2, <2>3, <2>4
<1> QED
  BY <1>1, <1>4, <1>5, <1>6 DEF Tiles, u, n, m

LEMMA JoinHonest ==
  ASSUME NEW s \in Seq(AnyExtent), NEW t \in Seq(AnyExtent), AllHonest(s), AllHonest(t)
  PROVE  AllHonest(s \o t)
<1> SUFFICES ASSUME NEW k \in 1..Len(s \o t) PROVE Honest((s \o t)[k])
  BY DEF AllHonest
<1>1. CASE k \in 1..Len(s)
  BY <1>1, ConcatElements DEF AllHonest
<1>2. CASE k - Len(s) \in 1..Len(t) /\ (s \o t)[k] = t[k - Len(s)]
  BY <1>2 DEF AllHonest
<1> QED
  BY <1>1, <1>2, ConcatElements

-----------------------------------------------------------------------------
(* The unmerged map.                                                        *)

Cells == Positions \X (0..Size) \X (0..Size)

\* One unfolding of raw, with f for what it says of the shorter ranges.
RawStep(f, d) ==
  LET i == d[1]  from == d[2]  to == d[3]
      e == RunOf(img[i], from, to)
      k == KindAt(img[i], from)
      here == IF k # "parent"
                THEN <<Extent(from, e, k, IF k = "mapped" THEN FileOffset(img[i], from) ELSE 0, i)>>
              ELSE IF i \in linked THEN f[<<i + 1, from, e>>]
              ELSE <<Extent(from, e, "unresolved", 0, i + 1)>>
  IN  IF from >= to THEN <<>> ELSE here \o f[<<i, e, to>>]

\* The run at the front of a range, and the two ranges the map of it is made of.
LEMMA FrontOfRange ==
  ASSUME Ready, NEW i \in Positions, NEW from \in 0..Size, NEW to \in 0..Size, from < to
  PROVE  LET e == RunOf(img[i], from, to) IN
         /\ from \in Offsets /\ e \in 0..Size /\ from < e /\ e <= to
         /\ KindAt(img[i], from) \in {"mapped", "zero", "zeroed-by-child", "parent"}
         /\ FileOffset(img[i], from) \in Nat
         /\ Extent(from, e, "unresolved", 0, i + 1) \in AnyExtent
         /\ KindAt(img[i], from) # "parent" =>
              Extent(from, e, KindAt(img[i], from),
                     IF KindAt(img[i], from) = "mapped" THEN FileOffset(img[i], from) ELSE 0, i) \in AnyExtent
         /\ i \in linked => i + 1 \in Positions
<1> DEFINE e == RunOf(img[i], from, to)
           k == KindAt(img[i], from)
<1>1. from \in Nat /\ to \in Nat /\ Size \in Nat
  BY SizeAssumption
<1>2. from \in Offsets /\ from \in 0..(Size - 1) /\ to \in (from + 1)..Size
  BY <1>1 DEF Offsets
<1>3. WellFormed(img[i])
  BY ImagesWellFormed
<1>4. e \in (from + 1)..to
  BY <1>2, <1>3, RunIsUniform
<1>5. e \in 0..Size /\ from < e /\ e <= to /\ e \in Nat
  <2> HIDE DEF e
  <2> QED
    BY <1>1, <1>4
<1>6. k \in {"mapped", "zero", "zeroed-by-child", "parent"}
  BY <1>2, <1>3, KindBySupplier
<1>7. FileOffset(img[i], from) \in Nat
  BY <1>2, <1>3, FileOffsetIsOffset
<1>8. e - from \in Nat \ {0} /\ i \in 0..(Last + 1) /\ i + 1 \in 0..(Last + 1)
  <2> HIDE DEF e
  <2> QED
    BY <1>1, <1>5, LastAssumption DEF Positions
<1>9. i \in linked => i + 1 \in Positions
  BY LastAssumption DEF Ready, Positions
<1> HIDE DEF e, k
<1>10. Extent(from, e, "unresolved", 0, i + 1) \in AnyExtent
  BY <1>1, <1>8 DEF Extent, AnyExtent, Kinds
<1>11. k # "parent" => Extent(from, e, k, IF k = "mapped" THEN FileOffset(img[i], from) ELSE 0, i) \in AnyExtent
  BY <1>1, <1>6, <1>7, <1>8 DEF Extent, AnyExtent, Kinds
<1> QED
  BY <1>2, <1>5, <1>6, <1>7, <1>9, <1>10, <1>11 DEF e, k

\* raw is the function its definition describes.
LEMMA RawUnfolds ==
  ASSUME Ready
  PROVE  /\ raw \in [Cells -> Seq(AnyExtent)]
         /\ \A d \in Cells : raw[d] = RawStep(raw, d)
<1> DEFINE V == Seq(AnyExtent)
           size(d) == IF d[2] >= d[3] THEN 0 ELSE (Last - d[1]) + (d[3] - d[2])
           m == [d \in Cells |-> size(d)]
           G == [f \in [Cells -> V] |-> [d \in Cells |-> RawStep(f, d)]]
<1>0. Size \in Nat /\ Last \in Nat
  BY SizeAssumption, LastAssumption
<1>1. m \in [Cells -> 0..(Last + Size)]
  <2> SUFFICES ASSUME NEW d \in Cells PROVE size(d) \in 0..(Last + Size)
    OBVIOUS
  <2>1. d[1] \in 0..Last /\ d[2] \in 0..Size /\ d[3] \in 0..Size
    BY DEF Cells, Positions
  <2> QED
    BY <1>0, <2>1
<1>2. ASSUME NEW d \in Cells, ~(d[2] >= d[3])
      PROVE  LET e == RunOf(img[d[1]], d[2], d[3])
                 x == <<d[1], e, d[3]>>
                 y == <<d[1] + 1, d[2], e>>
             IN  /\ x \in Cells /\ size(x) < size(d)
                 /\ d[1] \in linked => y \in Cells /\ size(y) < size(d)
  <2> DEFINE e == RunOf(img[d[1]], d[2], d[3])
  <2>1. d[1] \in Positions /\ d[1] \in 0..Last /\ d[2] \in 0..Size /\ d[3] \in 0..Size
    BY DEF Cells, Positions
  <2>2. d[2] < d[3]
    BY <1>0, <1>2, <2>1
  <2>3. e \in 0..Size /\ d[2] < e /\ e <= d[3] /\ (d[1] \in linked => d[1] + 1 \in Positions)
    BY <2>1, <2>2, FrontOfRange
  <2> HIDE DEF e
  <2>4. <<d[1], e, d[3]>> \in Cells /\ size(<<d[1], e, d[3]>>) < size(d)
    BY <1>0, <2>1, <2>2, <2>3 DEF Cells
  <2>5. d[1] \in linked => <<d[1] + 1, d[2], e>> \in Cells /\ size(<<d[1] + 1, d[2], e>>) < size(d)
    BY <1>0, <2>1, <2>2, <2>3 DEF Cells, Positions
  <2> QED
    BY <2>4, <2>5 DEF e
<1>3. ASSUME NEW f \in [Cells -> V], NEW d \in Cells PROVE RawStep(f, d) \in V
  <2> DEFINE i == d[1]  from == d[2]  to == d[3]
             e == RunOf(img[i], from, to)
             k == KindAt(img[i], from)
             own == Extent(from, e, k, IF k = "mapped" THEN FileOffset(img[i], from) ELSE 0, i)
             gap == Extent(from, e, "unresolved", 0, i + 1)
             here == IF k # "parent" THEN <<own>>
                     ELSE IF i \in linked THEN f[<<i + 1, from, e>>]
                     ELSE <<gap>>
  <2>1. RawStep(f, d) = IF from >= to THEN <<>> ELSE here \o f[<<i, e, to>>]
    BY DEF RawStep
  <2>2. CASE from >= to
    BY <2>1, <2>2
  <2>3. CASE ~(from >= to)
    <3>1. i \in Positions /\ from \in 0..Size /\ to \in 0..Size /\ from < to
      BY <1>0, <2>3 DEF Cells
    <3>2. gap \in AnyExtent /\ (k # "parent" => own \in AnyExtent)
      BY <3>1, FrontOfRange
    <3>3. f[<<i, e, to>>] \in V /\ (i \in linked => f[<<i + 1, from, e>>] \in V)
      BY <1>2, <2>3
    <3> HIDE DEF own, gap, e, k, i, from, to
    <3>4. <<gap>> \in V /\ (k # "parent" => <<own>> \in V)
      BY <3>2
    <3>5. here \in V
      BY <3>3, <3>4
    <3> HIDE DEF here, V
    <3>6. here \o f[<<i, e, to>>] \in V
      BY <3>3, <3>5, ConcatProperties DEF V
    <3> QED
      BY <2>1, <2>3, <3>6
  <2> QED
    BY <2>2, <2>3
<1>4. G \in [[Cells -> V] -> [Cells -> V]]
  BY <1>3
<1>5. ASSUME NEW f, NEW g, NEW d \in Cells, \A x \in Cells : size(x) < size(d) => f[x] = g[x]
      PROVE  RawStep(f, d) = RawStep(g, d)
  <2>1. CASE d[2] >= d[3]
    BY <2>1 DEF RawStep
  <2>2. CASE ~(d[2] >= d[3])
    <3> DEFINE e == RunOf(img[d[1]], d[2], d[3])
               x == <<d[1], e, d[3]>>
               y == <<d[1] + 1, d[2], e>>
    <3>1. f[x] = g[x] /\ (d[1] \in linked => f[y] = g[y])
      <4>1. /\ x \in Cells /\ size(x) < size(d)
            /\ d[1] \in linked => y \in Cells /\ size(y) < size(d)
        BY <1>2, <2>2
      <4> HIDE DEF size, x, y
      <4> QED
        BY <1>5, <4>1
    <3> QED
      BY <3>1, Zenon DEF RawStep
  <2> QED
    BY <2>1, <2>2
<1>a. ASSUME NEW f \in [Cells -> V], NEW g \in [Cells -> V], NEW d \in Cells,
             \A x \in Cells : m[x] < m[d] => f[x] = g[x]
      PROVE  G[f][d] = G[g][d]
  <2>1. \A x \in Cells : size(x) < size(d) => f[x] = g[x]
    BY <1>a
  <2>2. RawStep(f, d) = RawStep(g, d)
    <3> HIDE DEF size
    <3> QED
      BY <1>5, <2>1
  <2> QED
    BY <2>2
<1>6. <<>> \in V /\ Last + Size \in Nat
  BY <1>0
<1>b. \A d \in Cells : m[d] = size(d)
  OBVIOUS
<1> HIDE DEF m, G, V, size
<1>7. PICK f \in [Cells -> V] : f = G[f]
  <2> DEFINE B == Last + Size
  <2>1. B \in Nat /\ m \in [Cells -> 0..B]
    BY <1>1, <1>6
  <2> HIDE DEF B
  <2>2. Recursion(Cells, V, <<>>, B, m, G)
    BY <1>4, <1>6, <1>a, <2>1 DEF Recursion
  <2> QED
    BY <2>2, RecursionExists
<1>8. f = [d \in Cells |-> RawStep(f, d)]
  BY <1>7 DEF G
<1> DEFINE Is(g) == g = [d \in Cells |-> RawStep(g, d)]
<1>9. raw = CHOOSE g : Is(g)
  BY DEF raw, RawStep, Cells
<1>10. Is(raw)
  <2> HIDE DEF Is
  <2>1. Is(f)
    BY <1>8 DEF Is
  <2> QED
    BY <1>9, <2>1
<1> DEFINE S == {d \in Cells : raw[d] = f[d]}
<1>11. ASSUME NEW d \in Cells, \A x \in Cells : m[x] < m[d] => x \in S PROVE d \in S
  <2>1. \A x \in Cells : size(x) < size(d) => raw[x] = f[x]
    BY <1>b, <1>11
  <2>2. RawStep(raw, d) = RawStep(f, d)
    BY <1>5, <2>1
  <2>3. raw[d] = RawStep(raw, d) /\ f[d] = RawStep(f, d)
    BY <1>8, <1>10
  <2> QED
    BY <2>2, <2>3
<1>12. S = Cells
  <2>1. m \in [Cells -> Nat] /\ S \in SUBSET Cells
    BY <1>1, <1>6
  <2> HIDE DEF S
  <2> QED
    BY <1>11, <2>1, MeasureInduction
<1>13. raw = f
  BY <1>8, <1>10, <1>12
<1> QED
  BY <1>10, <1>13 DEF V

LEMMA OneExtentTiles ==
  ASSUME NEW e, Honest(e)
  PROVE  Tiles(<<e>>, e.off, EndOf(e)) /\ AllHonest(<<e>>)
<1>1. e \in AnyExtent
  BY DEF Honest
<1>2. e.off \in Nat /\ EndOf(e) \in Nat
  BY <1>1, ExtentFields
<1>3. <<e>> \in Seq(AnyExtent) /\ Len(<<e>>) = 1 /\ <<e>>[1] = e
  BY <1>1
<1>4. \A k \in 1..1 : k = 1
  OBVIOUS
<1>5. \A k \in 1..(1 - 1) : FALSE
  OBVIOUS
<1> DEFINE s == <<e>>
<1> HIDE DEF s
<1>6. s \in Seq(AnyExtent) /\ Len(s) = 1 /\ s[1] = e
  BY <1>3 DEF s
<1>7. Tiles(s, e.off, EndOf(e))
  BY <1>2, <1>4, <1>5, <1>6 DEF Tiles
<1>8. AllHonest(s)
  BY <1>4, <1>6 DEF AllHonest
<1> QED
  BY <1>7, <1>8 DEF s

\* What a disk says of the run it supplies is true.
LEMMA OwnRunIsHonest ==
  ASSUME Ready, NEW i \in 0..LastLinked, NEW from \in 0..Size, NEW to \in 0..Size, from < to,
         \A v \in from..(to - 1) : \A j \in 0..(i - 1) : Supplier(img[j], v) = "parent",
         KindAt(img[i], from) # "parent"
  PROVE  LET e == RunOf(img[i], from, to)
             k == KindAt(img[i], from)
         IN  Honest(Extent(from, e, k, IF k = "mapped" THEN FileOffset(img[i], from) ELSE 0, i))
<1> DEFINE e == RunOf(img[i], from, to)
           k == KindAt(img[i], from)
           file == IF k = "mapped" THEN FileOffset(img[i], from) ELSE 0
           x == Extent(from, e, k, file, i)
<1>1. from \in Nat /\ to \in Nat /\ Size \in Nat /\ LastLinked \in Nat
  BY SizeAssumption, LastLinkedIs
<1>2. i \in Positions /\ i \in Nat
  BY <1>1, LastLinkedIs, LastAssumption DEF Positions
<1>3. /\ from \in Offsets /\ e \in 0..Size /\ from < e /\ e <= to
      /\ k \in {"mapped", "zero", "zeroed-by-child", "parent"}
      /\ FileOffset(img[i], from) \in Nat /\ x \in AnyExtent
  BY <1>2, FrontOfRange
<1>4. WellFormed(img[i]) /\ to \in (from + 1)..Size
  BY <1>1, <1>2, ImagesWellFormed
<1>5. \A v \in from..(e - 1) :
        /\ v \in Offsets /\ Supplier(img[i], v) = Supplier(img[i], from)
        /\ FileOffset(img[i], v) = FileOffset(img[i], from) + (v - from)
  BY <1>3, <1>4, RunIsUniform
<1>6. x.off = from /\ x.kind = k /\ x.file = file /\ x.idx = i /\ EndOf(x) = e /\ Covers(x) = from..(e - 1)
  <2>1. x.off = from /\ x.len = e - from /\ x.kind = k /\ x.file = file /\ x.idx = i
    BY DEF Extent
  <2>2. EndOf(x) = e
    <3> HIDE DEF e, x
    <3> QED
      BY <1>1, <1>3, <2>1 DEF EndOf
  <2> QED
    BY <2>1, <2>2 DEF Covers
<1>7. ASSUME NEW v \in from..(e - 1)
      PROVE  Owner(v) = i /\ KindOf(v) = k
  <2>1. v \in from..(to - 1)
    <3> HIDE DEF e
    <3> QED
      BY <1>1, <1>3
  <2>2. Supplier(img[i], v) = Supplier(img[i], from) /\ v \in Offsets
    BY <1>5
  <2>3. KindAt(img[i], v) = k /\ Supplier(img[i], v) # "parent"
    <3>1. /\ Supplier(img[i], from) = "file" => k = "mapped"
          /\ Supplier(img[i], from) = "parent" => k = "parent"
          /\ Supplier(img[i], from) = "zero" => IF img[i].kind = "diff" THEN k = "zeroed-by-child" ELSE k = "zero"
          /\ Supplier(img[i], from) \in {"file", "parent", "zero"}
      BY <1>3, <1>4, KindBySupplier
    <3>2. /\ Supplier(img[i], v) = "file" => KindAt(img[i], v) = "mapped"
          /\ Supplier(img[i], v) = "zero" =>
               IF img[i].kind = "diff" THEN KindAt(img[i], v) = "zeroed-by-child" ELSE KindAt(img[i], v) = "zero"
      BY <1>4, <2>2, KindBySupplier
    <3> HIDE DEF k
    <3>3. k # "parent"
      BY DEF k
    <3> QED
      BY <2>2, <3>1, <3>2, <3>3
  <2>4. Owner(v) = i
    BY <1>1, <2>1, <2>3, NearestIsFirstSupplier DEF Owner
  <2> QED
    BY <2>3, <2>4 DEF KindOf
<1>8. from \in from..(e - 1)
  <2> HIDE DEF e
  <2> QED
    BY <1>1, <1>3
<1> HIDE DEF x, e, k
<1>9. x.kind = "mapped" => \A v \in Covers(x) : Owner(v) = x.idx /\ FileOffset(img[x.idx], v) = x.file + (v - x.off)
  BY <1>5, <1>6, <1>7
<1>10. x.kind # "mapped" => x.file = 0
  BY <1>6
<1>11. x.kind \in {"zeroed-by-child", "unresolved"} => x.idx = Owner(x.off)
  BY <1>6, <1>7, <1>8
<1>12. EndOf(x) <= Size /\ \A v \in Covers(x) : KindOf(v) = x.kind
  BY <1>1, <1>3, <1>6, <1>7
<1>13. Honest(x)
  BY <1>3, <1>9, <1>10, <1>11, <1>12 DEF Honest
<1> QED
  BY <1>13 DEF x, e, k

\* What the last attached disk says of the run its missing parent should supply
\* is true.
LEMMA GapIsHonest ==
  ASSUME Ready, NEW from \in 0..Size, NEW to \in 0..Size, from < to,
         \A v \in from..(to - 1) : \A j \in 0..(LastLinked - 1) : Supplier(img[j], v) = "parent",
         KindAt(img[LastLinked], from) = "parent"
  PROVE  Honest(Extent(from, RunOf(img[LastLinked], from, to), "unresolved", 0, LastLinked + 1))
<1> DEFINE i == LastLinked
           e == RunOf(img[i], from, to)
           x == Extent(from, e, "unresolved", 0, i + 1)
<1>1. from \in Nat /\ to \in Nat /\ Size \in Nat /\ i \in Nat /\ i \in Positions
  BY SizeAssumption, LastLinkedIs
<1>2. from \in Offsets /\ e \in 0..Size /\ from < e /\ e <= to /\ x \in AnyExtent
  BY <1>1, FrontOfRange
<1>3. WellFormed(img[i]) /\ to \in (from + 1)..Size
  BY <1>1, ImagesWellFormed
<1>4. \A v \in from..(e - 1) : v \in Offsets /\ Supplier(img[i], v) = Supplier(img[i], from)
  BY <1>2, <1>3, RunIsUniform
<1>5. Supplier(img[i], from) = "parent"
  <2>1. /\ Supplier(img[i], from) = "file" => KindAt(img[i], from) = "mapped"
        /\ Supplier(img[i], from) = "zero" => IF img[i].kind = "diff" THEN KindAt(img[i], from) = "zeroed-by-child" ELSE KindAt(img[i], from) = "zero"
        /\ Supplier(img[i], from) \in {"file", "parent", "zero"}
    BY <1>2, <1>3, KindBySupplier
  <2> QED
    BY <2>1
<1>6. x.off = from /\ x.kind = "unresolved" /\ x.file = 0 /\ x.idx = i + 1 /\ EndOf(x) = e /\ Covers(x) = from..(e - 1)
  <2>1. x.off = from /\ x.len = e - from /\ x.kind = "unresolved" /\ x.file = 0 /\ x.idx = i + 1
    BY DEF Extent
  <2>2. EndOf(x) = e
    <3> HIDE DEF e, x
    <3> QED
      BY <1>1, <1>2, <2>1 DEF EndOf
  <2> QED
    BY <2>1, <2>2 DEF Covers
<1>7. ASSUME NEW v \in from..(e - 1)
      PROVE  Owner(v) = i + 1 /\ KindOf(v) = "unresolved"
  <2>1. v \in from..(to - 1)
    <3> HIDE DEF e
    <3> QED
      BY <1>1, <1>2
  <2>2. Supplier(img[i], v) = "parent"
    BY <1>4, <1>5
  <2>3. \A j \in 0..i : Supplier(img[j], v) = "parent"
    <3> SUFFICES ASSUME NEW j \in 0..i PROVE Supplier(img[j], v) = "parent"
      OBVIOUS
    <3>1. j = i \/ j \in 0..(i - 1)
      BY <1>1
    <3> QED
      BY <2>1, <2>2, <3>1
  <2>4. Owner(v) = i + 1
    BY <2>3 DEF Owner, Nearest
  <2>5. ~(i + 1 \in 0..i)
    BY <1>1
  <2> QED
    BY <2>4, <2>5 DEF KindOf
<1>8. from \in from..(e - 1)
  <2> HIDE DEF e
  <2> QED
    BY <1>1, <1>2
<1> HIDE DEF x, e, i
<1>9. EndOf(x) <= Size /\ (\A v \in Covers(x) : KindOf(v) = x.kind) /\ x.idx = Owner(x.off)
  BY <1>1, <1>2, <1>6, <1>7, <1>8
<1>10. Honest(x)
  BY <1>2, <1>6, <1>9 DEF Honest
<1> QED
  BY <1>10 DEF x, e, i

\* rawExtents tiles any range whose bytes the disks nearer the leaf all pass on,
\* with extents that are true of the device.
LEMMA RawTilesHonestly ==
  ASSUME Ready, NEW d \in Cells, d[1] \in 0..LastLinked, d[2] <= d[3],
         \A v \in d[2]..(d[3] - 1) : \A j \in 0..(d[1] - 1) : Supplier(img[j], v) = "parent"
  PROVE  Tiles(raw[d], d[2], d[3]) /\ AllHonest(raw[d])
<1> DEFINE PassedOn(c) == /\ c[1] \in 0..LastLinked /\ c[2] <= c[3]
                          /\ \A v \in c[2]..(c[3] - 1) : \A j \in 0..(c[1] - 1) : Supplier(img[j], v) = "parent"
           Good(c) == Tiles(raw[c], c[2], c[3]) /\ AllHonest(raw[c])
           S == {c \in Cells : PassedOn(c) => Good(c)}
           size(c) == IF c[2] >= c[3] THEN 0 ELSE (Last - c[1]) + (c[3] - c[2])
           m == [c \in Cells |-> size(c)]
<1>0. Size \in Nat /\ Last \in Nat /\ LastLinked \in Nat /\ LastLinked \in Positions
  BY SizeAssumption, LastAssumption, LastLinkedIs
<1>1. \A c \in Cells : c[1] \in 0..Last /\ c[1] \in Positions /\ c[2] \in 0..Size /\ c[3] \in 0..Size
  BY DEF Cells, Positions
<1>2. m \in [Cells -> Nat]
  <2> SUFFICES ASSUME NEW c \in Cells PROVE size(c) \in Nat
    OBVIOUS
  <2> QED
    BY <1>0, <1>1
<1>3. \A c \in Cells : m[c] = size(c)
  OBVIOUS
<1>4. ASSUME NEW c \in Cells, \A x \in Cells : m[x] < m[c] => x \in S PROVE c \in S
  <2> SUFFICES ASSUME PassedOn(c) PROVE Good(c)
    OBVIOUS
  <2> DEFINE i == c[1]  from == c[2]  to == c[3]
             e == RunOf(img[i], from, to)
             k == KindAt(img[i], from)
             own == Extent(from, e, k, IF k = "mapped" THEN FileOffset(img[i], from) ELSE 0, i)
             gap == Extent(from, e, "unresolved", 0, i + 1)
             here == IF k # "parent" THEN <<own>>
                     ELSE IF i \in linked THEN raw[<<i + 1, from, e>>]
                     ELSE <<gap>>
  <2>1. raw[c] = IF from >= to THEN <<>> ELSE here \o raw[<<i, e, to>>]
    BY RawUnfolds DEF RawStep
  <2>2. /\ i \in 0..Last /\ i \in Positions /\ from \in 0..Size /\ to \in 0..Size
        /\ i \in 0..LastLinked /\ from <= to
        /\ \A v \in from..(to - 1) : \A j \in 0..(i - 1) : Supplier(img[j], v) = "parent"
    BY <1>1
  <2>3. CASE from = to
    <3>1. raw[c] = <<>>
      BY <2>1, <2>2, <2>3
    <3>2. <<>> \in Seq(AnyExtent) /\ Len(<<>>) = 0 /\ \A n \in 1..0 : FALSE
      OBVIOUS
    <3>3. \A n \in 1..(0 - 1) : FALSE
      OBVIOUS
    <3> QED
      BY <2>3, <3>1, <3>2, <3>3 DEF Tiles, AllHonest
  <2>4. CASE from # to
    <3>1. from < to /\ ~(from >= to)
      BY <1>0, <2>2, <2>4
    <3>2. e \in 0..Size /\ from < e /\ e <= to /\ (i \in linked => i + 1 \in Positions)
      BY <2>2, <3>1, FrontOfRange
    <3>3. Tiles(raw[<<i, e, to>>], e, to) /\ AllHonest(raw[<<i, e, to>>])
      <4> DEFINE x == <<i, e, to>>
      <4> HIDE DEF e
      <4>1. x \in Cells /\ size(x) < size(c)
        BY <1>0, <2>2, <3>1, <3>2 DEF Cells
      <4>2. \A v \in e..(to - 1) : v \in from..(to - 1)
        BY <1>0, <2>2, <3>2
      <4>3. PassedOn(x)
        BY <2>2, <3>2, <4>2
      <4> HIDE DEF m, size
      <4>4. x \in S
        BY <1>3, <1>4, <4>1
      <4>5. Good(x)
        BY <4>3, <4>4
      <4> QED
        BY <4>5
    <3>4. Tiles(here, from, e) /\ AllHonest(here)
      <4>1. CASE k # "parent"
        <5>1. Honest(own)
          BY <2>2, <3>1, <4>1, OwnRunIsHonest
        <5>2. own.off = from /\ EndOf(own) = e
          <6>1. own.off = from /\ own.len = e - from
            BY DEF Extent
          <6> HIDE DEF own, e
          <6> QED
            BY <1>0, <2>2, <3>2, <6>1 DEF EndOf
        <5>3. here = <<own>>
          BY <4>1
        <5> HIDE DEF own, here, e
        <5> QED
          BY <5>1, <5>2, <5>3, OneExtentTiles
      <4>2. CASE k = "parent" /\ i \in linked
        <5> DEFINE x == <<i + 1, from, e>>
        <5>1. here = raw[x]
          BY <4>2
        <5>2. i # LastLinked /\ i + 1 \in 0..LastLinked
          BY <1>0, <2>2, <4>2, LastLinkedIs
        <5>3. x \in Cells /\ size(x) < size(c)
          <6> HIDE DEF e
          <6> QED
            BY <1>0, <2>2, <3>1, <3>2, <4>2 DEF Cells, Positions
        <5>4. ASSUME NEW v \in from..(e - 1), NEW j \in 0..((i + 1) - 1) PROVE Supplier(img[j], v) = "parent"
          <6>1. v \in from..(to - 1)
            <7> HIDE DEF e
            <7> QED
              BY <1>0, <2>2, <3>2
          <6>2. j = i \/ j \in 0..(i - 1)
            BY <2>2
          <6>3. Supplier(img[i], v) = "parent"
            <7>1. WellFormed(img[i]) /\ from \in Offsets /\ to \in (from + 1)..Size
              BY <1>0, <2>2, <3>1, ImagesWellFormed DEF Offsets
            <7>2. Supplier(img[i], v) = Supplier(img[i], from)
              BY <7>1, RunIsUniform
            <7>3. /\ Supplier(img[i], from) = "file" => k = "mapped"
                  /\ Supplier(img[i], from) = "zero" => IF img[i].kind = "diff" THEN k = "zeroed-by-child" ELSE k = "zero"
                  /\ Supplier(img[i], from) \in {"file", "parent", "zero"}
              BY <7>1, KindBySupplier
            <7> HIDE DEF k
            <7> QED
              BY <4>2, <7>2, <7>3
          <6> QED
            BY <2>2, <6>1, <6>2, <6>3
        <5>5. PassedOn(x)
          <6> HIDE DEF e
          <6>1. x[1] = i + 1 /\ x[2] = from /\ x[3] = e
            OBVIOUS
          <6>2. from <= e
            BY <1>0, <2>2, <3>2
          <6> HIDE DEF x
          <6> QED
            BY <5>2, <5>4, <6>1, <6>2
        <5> HIDE DEF m, size
        <5>6. x \in S
          BY <1>3, <1>4, <5>3
        <5>7. Good(x)
          BY <5>5, <5>6
        <5> QED
          BY <5>1, <5>7
      <4>3. CASE k = "parent" /\ i \notin linked
        <5>1. i = LastLinked
          BY <2>2, <4>3, LastLinkedIs
        <5>2. Honest(gap)
          BY <2>2, <3>1, <4>3, <5>1, GapIsHonest
        <5>3. gap.off = from /\ EndOf(gap) = e
          <6>1. gap.off = from /\ gap.len = e - from
            BY DEF Extent
          <6> HIDE DEF gap, e
          <6> QED
            BY <1>0, <2>2, <3>2, <6>1 DEF EndOf
        <5>4. here = <<gap>>
          BY <4>3
        <5> HIDE DEF gap, here, e
        <5> QED
          BY <5>2, <5>3, <5>4, OneExtentTiles
      <4> QED
        BY <4>1, <4>2, <4>3
    <3>5. raw[c] = here \o raw[<<i, e, to>>]
      BY <2>1, <3>1
    <3>6. from \in Nat /\ e \in Nat /\ to \in Nat /\ from <= e
      <4> HIDE DEF e
      <4> QED
        BY <1>0, <2>2, <3>2
    <3> DEFINE rest == raw[<<i, e, to>>]
    <3> HIDE DEF here, rest, e
    <3>7. Tiles(here \o rest, from, to)
      BY <3>2, <3>3, <3>4, <3>6, JoinTiles DEF rest
    <3>8. AllHonest(here \o rest)
      BY <3>3, <3>4, JoinHonest DEF rest, Tiles
    <3> QED
      BY <3>5, <3>7, <3>8 DEF rest
  <2> QED
    BY <2>3, <2>4
<1>5. S = Cells
  <2> HIDE DEF S, m
  <2>1. S \in SUBSET Cells
    BY DEF S
  <2> QED
    BY <1>2, <1>4, <2>1, MeasureInduction
<1>6. PassedOn(d) /\ d \in S
  BY <1>5
<1>7. Good(d)
  BY <1>6
<1> QED
  BY <1>7

-----------------------------------------------------------------------------
(* Merging.                                                                 *)

\* An honest extent as merging leaves it: zeroes belong to no disk.
Normal(e) == Honest(e) /\ (e.kind = "zero" => e.idx = 0)

LEMMA NormalizeKeepsBytes ==
  ASSUME NEW e \in AnyExtent
  PROVE  LET n == Normalize(e) IN
         /\ n \in AnyExtent
         /\ n.off = e.off /\ n.len = e.len /\ n.kind = e.kind
         /\ EndOf(n) = EndOf(e) /\ Covers(n) = Covers(e)
         /\ e.kind = "mapped" => n.file = e.file
         /\ e.kind # "mapped" /\ e.file = 0 => n.file = 0
         /\ e.kind # "zero" => n.idx = e.idx
         /\ e.kind = "zero" => n.idx = 0
<1> DEFINE n == Normalize(e)
<1>1. /\ n \in AnyExtent
      /\ n.off = e.off /\ n.len = e.len /\ n.kind = e.kind
      /\ e.kind = "mapped" => n.file = e.file
      /\ e.kind # "mapped" /\ e.file = 0 => n.file = 0
      /\ e.kind # "zero" => n.idx = e.idx
      /\ e.kind = "zero" => n.idx = 0
  <2>1. /\ e \in [off : Nat, len : Nat \ {0}, kind : Kinds, file : Nat, idx : 0..(Last + 1)]
        /\ 0 \in 0..(Last + 1)
    BY LastAssumption DEF AnyExtent
  <2>2. CASE e.kind = "zero"
    <3>1. n = [e EXCEPT !.file = 0, !.idx = 0]
      BY <2>2 DEF Normalize
    <3> HIDE DEF n
    <3> QED
      BY <2>1, <2>2, <3>1 DEF AnyExtent
  <2>3. CASE e.kind = "unresolved"
    <3>1. n = [e EXCEPT !.file = 0]
      BY <2>3 DEF Normalize
    <3> HIDE DEF n
    <3> QED
      BY <2>1, <2>3, <3>1 DEF AnyExtent
  <2>4. CASE e.kind # "zero" /\ e.kind # "unresolved"
    <3>1. n = e
      BY <2>4 DEF Normalize
    <3> HIDE DEF n
    <3> QED
      BY <2>4, <3>1
  <2> QED
    BY <2>2, <2>3, <2>4
<1>2. EndOf(n) = EndOf(e) /\ Covers(n) = Covers(e)
  <2> HIDE DEF n
  <2> QED
    BY <1>1 DEF EndOf, Covers
<1> QED
  BY <1>1, <1>2

LEMMA NormalizeKeepsHonest ==
  ASSUME NEW e, Honest(e)
  PROVE  Normal(Normalize(e))
<1> DEFINE n == Normalize(e)
<1>1. e \in AnyExtent
  BY DEF Honest
<1>2. /\ n \in AnyExtent
      /\ n.off = e.off /\ n.len = e.len /\ n.kind = e.kind
      /\ EndOf(n) = EndOf(e) /\ Covers(n) = Covers(e)
      /\ e.kind = "mapped" => n.file = e.file
      /\ e.kind # "mapped" /\ e.file = 0 => n.file = 0
      /\ e.kind # "zero" => n.idx = e.idx
      /\ e.kind = "zero" => n.idx = 0
  BY <1>1, NormalizeKeepsBytes
<1> HIDE DEF n
<1>3. Normal(n)
  BY <1>2 DEF Normal, Honest
<1> QED
  BY <1>3 DEF n

\* Two extents merged into one.
Joined(a, b) == [a EXCEPT !.len = @ + b.len]

LEMMA JoinedIsExtent ==
  ASSUME NEW a \in AnyExtent, NEW b \in AnyExtent
  PROVE  Joined(a, b) \in AnyExtent
  BY DEF Joined, AnyExtent

LEMMA JoinedIsNormal ==
  ASSUME NEW a, NEW b, Normal(a), Normal(b), CanMerge(a, b)
  PROVE  LET y == Joined(a, b) IN
         /\ Normal(y) /\ y.off = a.off /\ EndOf(y) = EndOf(b)
         /\ y.kind = a.kind /\ y.kind = b.kind /\ y.file = a.file /\ y.idx = a.idx
         /\ Covers(y) = Covers(a) \cup Covers(b)
<1> DEFINE y == Joined(a, b)
<1>1. a \in AnyExtent /\ b \in AnyExtent
  BY DEF Normal, Honest
<1>2. /\ a.off \in Nat /\ a.len \in Nat \ {0} /\ a.file \in Nat
      /\ b.off \in Nat /\ b.len \in Nat \ {0} /\ b.file \in Nat
      /\ EndOf(a) = a.off + a.len /\ EndOf(b) = b.off + b.len
  BY <1>1, ExtentFields
<1>3. /\ EndOf(a) = b.off /\ a.kind = b.kind
      /\ a.kind = "mapped" => a.idx = b.idx /\ a.file + a.len = b.file
  BY DEF CanMerge
<1>4. /\ y \in AnyExtent /\ y.off = a.off /\ y.len = a.len + b.len
      /\ y.kind = a.kind /\ y.file = a.file /\ y.idx = a.idx
  BY <1>1 DEF Joined, AnyExtent
<1> HIDE DEF y
<1>5. EndOf(y) = EndOf(b)
  BY <1>2, <1>3, <1>4 DEF EndOf
<1>6. Covers(y) = Covers(a) \cup Covers(b)
  BY <1>2, <1>3, <1>4, <1>5 DEF Covers
<1>7. /\ EndOf(b) <= Size
      /\ \A v \in Covers(a) : KindOf(v) = a.kind
      /\ \A v \in Covers(b) : KindOf(v) = b.kind
      /\ a.kind = "mapped" => \A v \in Covers(a) : Owner(v) = a.idx /\ FileOffset(img[a.idx], v) = a.file + (v - a.off)
      /\ b.kind = "mapped" => \A v \in Covers(b) : Owner(v) = b.idx /\ FileOffset(img[b.idx], v) = b.file + (v - b.off)
      /\ a.kind # "mapped" => a.file = 0
      /\ a.kind \in {"zeroed-by-child", "unresolved"} => a.idx = Owner(a.off)
      /\ a.kind = "zero" => a.idx = 0
  BY DEF Normal, Honest
<1>8. y.kind = "mapped" => \A v \in Covers(y) : Owner(v) = y.idx /\ FileOffset(img[y.idx], v) = y.file + (v - y.off)
  <2> SUFFICES ASSUME y.kind = "mapped", NEW v \in Covers(y)
               PROVE  Owner(v) = y.idx /\ FileOffset(img[y.idx], v) = y.file + (v - y.off)
    OBVIOUS
  <2>1. CASE v \in Covers(a)
    BY <1>4, <1>7, <2>1
  <2>2. CASE v \in Covers(b)
    <3>1. Owner(v) = b.idx /\ FileOffset(img[b.idx], v) = b.file + (v - b.off) /\ a.idx = b.idx
      BY <1>3, <1>4, <1>7, <2>2
    <3>2. v \in Int
      BY <1>2, <2>2 DEF Covers, EndOf
    <3>3. b.file + (v - b.off) = a.file + (v - a.off)
      BY <1>2, <1>3, <1>4, <3>2
    <3> QED
      BY <1>4, <3>1, <3>3
  <2> QED
    BY <1>6, <2>1, <2>2
<1>9. Normal(y)
  BY <1>3, <1>4, <1>5, <1>6, <1>7, <1>8 DEF Normal, Honest
<1> QED
  BY <1>3, <1>4, <1>5, <1>6, <1>9 DEF y

\* One step of mergeExtents: the next extent joins the last one made so far, or
\* follows it.
MergeStep(done, e) ==
  LET n == Normalize(e)
  IN  IF done # <<>> /\ CanMerge(done[Len(done)], n)
        THEN [done EXCEPT ![Len(done)].len = @ + n.len]
        ELSE Append(done, n)

LEMMA MergeStepCases ==
  ASSUME NEW done \in Seq(AnyExtent), NEW e \in AnyExtent
  PROVE  LET n == Normalize(e)
             l == Len(done)
             r == MergeStep(done, e)
         IN  /\ r \in Seq(AnyExtent) /\ l \in Nat
             /\ IF l # 0 /\ CanMerge(done[l], n)
                  THEN /\ Len(r) = l /\ r[l] = Joined(done[l], n)
                       /\ \A k \in 1..(l - 1) : r[k] = done[k]
                  ELSE /\ Len(r) = l + 1 /\ r[l + 1] = n
                       /\ \A k \in 1..l : r[k] = done[k]
<1> DEFINE n == Normalize(e)
           l == Len(done)
           r == MergeStep(done, e)
<1>1. n \in AnyExtent /\ l \in Nat /\ (done # <<>> <=> l # 0)
  BY NormalizeKeepsBytes, EmptySeq, LenProperties
<1>2. CASE l # 0 /\ CanMerge(done[l], n)
  <2>1. l \in 1..Len(done) /\ done[l] \in AnyExtent
    BY <1>1, <1>2, ElementOfSeq
  <2>2. Joined(done[l], n) \in AnyExtent
    BY <1>1, <2>1, JoinedIsExtent
  <2>3. r = [done EXCEPT ![l] = Joined(done[l], n)]
    BY <1>1, <1>2 DEF MergeStep, Joined
  <2> DEFINE j == Joined(done[l], n)
  <2> HIDE DEF n, j, r
  <2>4. /\ r \in Seq(AnyExtent) /\ Len(r) = l
        /\ \A k \in 1..l : r[k] = IF k = l THEN j ELSE done[k]
    BY <2>1, <2>2, <2>3, ExceptSeq DEF j
  <2>5. r[l] = j /\ \A k \in 1..(l - 1) : r[k] = done[k]
    BY <1>1, <2>1, <2>4
  <2> QED
    BY <1>1, <1>2, <2>4, <2>5 DEF n, j, r
<1>3. CASE ~(l # 0 /\ CanMerge(done[l], n))
  <2>1. r = Append(done, n)
    BY <1>1, <1>3 DEF MergeStep
  <2> HIDE DEF n, r
  <2>2. /\ r \in Seq(AnyExtent) /\ Len(r) = l + 1
        /\ \A k \in 1..l : r[k] = done[k]
        /\ r[l + 1] = n
    BY <1>1, <2>1, AppendProperties
  <2> QED
    BY <1>1, <1>3, <2>2 DEF n, r
<1> QED
  BY <1>2, <1>3

\* Merge is its last step's value.
LEMMA MergeUnfolds ==
  ASSUME NEW es \in Seq(AnyExtent)
  PROVE  \E fold : /\ Merge(es) = fold[Len(es)] /\ fold[0] = <<>>
                   /\ \A k \in 1..Len(es) : fold[k] = MergeStep(fold[k - 1], es[k])
<1> DEFINE V == Seq(AnyExtent)
           N == Len(es)
           F == [k \in 1..N |-> [x \in V |-> MergeStep(x, es[k])]]
           Is(f) == f = [k \in 0..N |-> IF k = 0 THEN <<>> ELSE MergeStep(f[k - 1], es[k])]
<1>1. N \in Nat /\ <<>> \in V
  BY LenProperties
<1>2. F \in [1..N -> [V -> V]]
  <2> SUFFICES ASSUME NEW k \in 1..N, NEW x \in V PROVE MergeStep(x, es[k]) \in V
    OBVIOUS
  <2>1. es[k] \in AnyExtent
    BY ElementOfSeq
  <2> QED
    BY <2>1, MergeStepCases
<1>3. PICK f \in [0..N -> V] : f = [k \in 0..N |-> IF k = 0 THEN <<>> ELSE F[k][f[k - 1]]]
  <2> HIDE DEF F, V, N
  <2>1. Iteration(N, V, <<>>, F)
    BY <1>1, <1>2 DEF Iteration
  <2> QED
    BY <2>1, IterationExists
<1>4. Is(f)
  <2> SUFFICES ASSUME NEW k \in 0..N, k # 0 PROVE F[k][f[k - 1]] = MergeStep(f[k - 1], es[k])
    BY <1>3
  <2>1. k \in 1..N /\ k - 1 \in 0..N
    BY <1>1
  <2>2. f[k - 1] \in V
    BY <1>3, <2>1
  <2> QED
    BY <2>1, <2>2
<1> DEFINE fold == CHOOSE f1 : Is(f1)
<1>5. Is(fold)
  <2> HIDE DEF Is
  <2> QED
    BY <1>4
<1>6. Merge(es) = fold[Len(es)]
  BY DEF Merge, MergeStep
<1> HIDE DEF fold
<1>7. fold[0] = <<>> /\ \A k \in 1..Len(es) : fold[k] = MergeStep(fold[k - 1], es[k])
  BY <1>1, <1>5
<1> QED
  BY <1>6, <1>7

\* Whether one of the first n extents of s says that the byte at v is of kind K.
HasByte(s, n, K, v) == \E j \in 1..n : s[j].kind = K /\ v \in Covers(s[j])

Ordered(s) == \A k \in 1..(Len(s) - 1) : EndOf(s[k]) <= s[k + 1].off
Gapless(s) == \A k \in 1..(Len(s) - 1) : EndOf(s[k]) = s[k + 1].off

\* What m is to the first k extents of s, which lie between a and b, once they
\* are merged: true, in order, without neighbours that could still merge, and
\* with the same bytes of every kind.
MergeOf(m, s, k, a, b) ==
  /\ m \in Seq(AnyExtent)
  /\ IF k = 0 THEN Len(m) = 0
     ELSE Len(m) # 0 /\ m[1].off = s[1].off /\ EndOf(m[Len(m)]) = EndOf(s[k])
  /\ \A j \in 1..Len(m) : Normal(m[j]) /\ a <= m[j].off /\ EndOf(m[j]) <= b
  /\ \A j \in 1..(Len(m) - 1) : EndOf(m[j]) <= m[j + 1].off /\ ~CanMerge(m[j], m[j + 1])
  /\ Gapless(s) => Gapless(m)
  /\ \A K, v : HasByte(m, Len(m), K, v) <=> HasByte(s, k, K, v)

\* One more extent that joins the last one made so far.
LEMMA MergeStepJoins ==
  ASSUME NEW s \in Seq(AnyExtent), AllHonest(s), Ordered(s), NEW a \in Nat, NEW b \in Nat,
         \A j \in 1..Len(s) : a <= s[j].off /\ EndOf(s[j]) <= b,
         NEW k \in 1..Len(s), NEW m, MergeOf(m, s, k - 1, a, b),
         Len(m) # 0, CanMerge(m[Len(m)], Normalize(s[k]))
  PROVE  MergeOf(MergeStep(m, s[k]), s, k, a, b)
<1> DEFINE n == Normalize(s[k])
           l == Len(m)
           r == MergeStep(m, s[k])
           y == Joined(m[l], n)
<1>1. Len(s) \in Nat /\ k \in Nat /\ s[k] \in AnyExtent /\ Honest(s[k])
  BY LenProperties, ElementOfSeq DEF AllHonest
<1>2. /\ r \in Seq(AnyExtent) /\ l \in Nat /\ Len(r) = l /\ r[l] = y
      /\ \A j \in 1..(l - 1) : r[j] = m[j]
  BY <1>1, MergeStepCases DEF MergeOf
<1>3. k - 1 # 0
  BY DEF MergeOf
<1>4. /\ m[1].off = s[1].off /\ EndOf(m[l]) = EndOf(s[k - 1])
      /\ \A j \in 1..l : Normal(m[j]) /\ a <= m[j].off /\ EndOf(m[j]) <= b
      /\ \A j \in 1..(l - 1) : EndOf(m[j]) <= m[j + 1].off /\ ~CanMerge(m[j], m[j + 1])
      /\ Gapless(s) => \A j \in 1..(l - 1) : EndOf(m[j]) = m[j + 1].off
      /\ \A K, v : HasByte(m, l, K, v) <=> HasByte(s, k - 1, K, v)
  BY <1>3 DEF MergeOf, Gapless
<1>5. Normal(n) /\ EndOf(n) = EndOf(s[k]) /\ Covers(n) = Covers(s[k]) /\ n.kind = s[k].kind
  BY <1>1, NormalizeKeepsBytes, NormalizeKeepsHonest
<1>6. l \in 1..l /\ Normal(m[l])
  BY <1>2, <1>4
<1>7. /\ Normal(y) /\ y.off = m[l].off /\ EndOf(y) = EndOf(n)
      /\ y.kind = m[l].kind /\ y.kind = n.kind /\ y.file = m[l].file /\ y.idx = m[l].idx
      /\ Covers(y) = Covers(m[l]) \cup Covers(n)
  BY <1>5, <1>6, JoinedIsNormal
<1> HIDE DEF n, l, r, y
<1>8. \A j \in 1..l : Normal(r[j]) /\ a <= r[j].off /\ EndOf(r[j]) <= b
  <2> SUFFICES ASSUME NEW j \in 1..l PROVE Normal(r[j]) /\ a <= r[j].off /\ EndOf(r[j]) <= b
    OBVIOUS
  <2>1. CASE j = l
    BY <1>2, <1>4, <1>5, <1>6, <1>7, <2>1
  <2>2. CASE j \in 1..(l - 1)
    BY <1>2, <1>4, <2>2
  <2> QED
    BY <1>2, <2>1, <2>2
<1>9. \A j \in 1..(l - 1) :
        /\ EndOf(r[j]) = EndOf(m[j]) /\ r[j + 1].off = m[j + 1].off
        /\ CanMerge(r[j], r[j + 1]) <=> CanMerge(m[j], m[j + 1])
  <2> SUFFICES ASSUME NEW j \in 1..(l - 1)
               PROVE  /\ EndOf(r[j]) = EndOf(m[j]) /\ r[j + 1].off = m[j + 1].off
                      /\ CanMerge(r[j], r[j + 1]) <=> CanMerge(m[j], m[j + 1])
    OBVIOUS
  <2>1. r[j] = m[j]
    BY <1>2
  <2>2. /\ r[j + 1].off = m[j + 1].off /\ r[j + 1].kind = m[j + 1].kind
        /\ r[j + 1].file = m[j + 1].file /\ r[j + 1].idx = m[j + 1].idx
    <3>1. CASE j + 1 = l
      BY <1>2, <1>7, <3>1
    <3>2. CASE j + 1 # l
      <4>1. j + 1 \in 1..(l - 1)
        BY <1>2, <3>2
      <4> QED
        BY <1>2, <4>1
    <3> QED
      BY <3>1, <3>2
  <2> QED
    BY <2>1, <2>2 DEF CanMerge
<1>10. \A K, v : HasByte(r, l, K, v) <=> HasByte(s, k, K, v)
  <2> SUFFICES ASSUME NEW K, NEW v PROVE HasByte(r, l, K, v) <=> HasByte(s, k, K, v)
    OBVIOUS
  <2>1. HasByte(r, l, K, v) <=> HasByte(m, l, K, v) \/ (n.kind = K /\ v \in Covers(n))
    <3>1. \A j \in 1..l : j = l \/ j \in 1..(l - 1)
      BY <1>2
    <3>2. \A j \in 1..(l - 1) : j \in 1..l
      BY <1>2
    <3>3. HasByte(r, l, K, v) <=> HasByte(r, l - 1, K, v) \/ (r[l].kind = K /\ v \in Covers(r[l]))
      BY <1>6, <3>1, <3>2 DEF HasByte
    <3>4. HasByte(m, l, K, v) <=> HasByte(m, l - 1, K, v) \/ (m[l].kind = K /\ v \in Covers(m[l]))
      BY <1>6, <3>1, <3>2 DEF HasByte
    <3>5. HasByte(r, l - 1, K, v) <=> HasByte(m, l - 1, K, v)
      BY <1>2 DEF HasByte
    <3> QED
      BY <1>2, <1>7, <3>3, <3>4, <3>5
  <2>2. HasByte(s, k, K, v) <=> HasByte(s, k - 1, K, v) \/ (s[k].kind = K /\ v \in Covers(s[k]))
    <3>1. \A j \in 1..k : j = k \/ j \in 1..(k - 1)
      BY <1>1
    <3>2. k \in 1..k /\ \A j \in 1..(k - 1) : j \in 1..k
      BY <1>1
    <3> QED
      BY <3>1, <3>2 DEF HasByte
  <2> QED
    BY <1>4, <1>5, <2>1, <2>2
<1>11. r[1].off = s[1].off
  <2>1. CASE l = 1
    BY <1>2, <1>4, <1>7, <2>1
  <2>2. CASE l # 1
    <3>1. 1 \in 1..(l - 1)
      BY <1>2, <1>6, <2>2
    <3> QED
      BY <1>2, <1>4, <3>1
  <2> QED
    BY <2>1, <2>2
<1>12. l # 0 /\ k # 0 /\ EndOf(r[l]) = EndOf(s[k])
  BY <1>1, <1>2, <1>5, <1>6, <1>7
<1>13. MergeOf(r, s, k, a, b)
  BY <1>2, <1>4, <1>8, <1>9, <1>10, <1>11, <1>12 DEF MergeOf, Gapless
<1> QED
  BY <1>13 DEF r

\* One more extent that follows the last one made so far.
LEMMA MergeStepAppends ==
  ASSUME NEW s \in Seq(AnyExtent), AllHonest(s), Ordered(s), NEW a \in Nat, NEW b \in Nat,
         \A j \in 1..Len(s) : a <= s[j].off /\ EndOf(s[j]) <= b,
         NEW k \in 1..Len(s), NEW m, MergeOf(m, s, k - 1, a, b),
         ~(Len(m) # 0 /\ CanMerge(m[Len(m)], Normalize(s[k])))
  PROVE  MergeOf(MergeStep(m, s[k]), s, k, a, b)
<1> DEFINE n == Normalize(s[k])
           l == Len(m)
           r == MergeStep(m, s[k])
<1>1. Len(s) \in Nat /\ k \in Nat /\ s[k] \in AnyExtent /\ Honest(s[k])
  BY LenProperties, ElementOfSeq DEF AllHonest
<1>2. /\ r \in Seq(AnyExtent) /\ l \in Nat /\ Len(r) = l + 1 /\ r[l + 1] = n
      /\ \A j \in 1..l : r[j] = m[j]
  BY <1>1, MergeStepCases DEF MergeOf
<1>3. /\ k - 1 = 0 <=> l = 0
      /\ k - 1 # 0 => m[1].off = s[1].off /\ EndOf(m[l]) = EndOf(s[k - 1])
      /\ \A j \in 1..l : Normal(m[j]) /\ a <= m[j].off /\ EndOf(m[j]) <= b
      /\ \A j \in 1..(l - 1) : EndOf(m[j]) <= m[j + 1].off /\ ~CanMerge(m[j], m[j + 1])
      /\ Gapless(s) => \A j \in 1..(l - 1) : EndOf(m[j]) = m[j + 1].off
      /\ \A K, v : HasByte(m, l, K, v) <=> HasByte(s, k - 1, K, v)
  BY DEF MergeOf, Gapless
<1>4. /\ Normal(n) /\ n.off = s[k].off /\ EndOf(n) = EndOf(s[k])
      /\ Covers(n) = Covers(s[k]) /\ n.kind = s[k].kind
  BY <1>1, NormalizeKeepsBytes, NormalizeKeepsHonest
<1>5. ~(l # 0 /\ CanMerge(m[l], n))
  OBVIOUS
<1>6. k - 1 # 0 => EndOf(s[k - 1]) <= s[k].off /\ (Gapless(s) => EndOf(s[k - 1]) = s[k].off)
  <2>1. k - 1 # 0 => k - 1 \in 1..(Len(s) - 1) /\ (k - 1) + 1 = k
    BY <1>1
  <2> QED
    BY <2>1 DEF Ordered, Gapless
<1> HIDE DEF n, l, r
<1>7. \A j \in 1..(l + 1) : Normal(r[j]) /\ a <= r[j].off /\ EndOf(r[j]) <= b
  <2> SUFFICES ASSUME NEW j \in 1..(l + 1) PROVE Normal(r[j]) /\ a <= r[j].off /\ EndOf(r[j]) <= b
    OBVIOUS
  <2>1. j = l + 1 \/ j \in 1..l
    BY <1>2
  <2> QED
    BY <1>2, <1>3, <1>4, <2>1
<1>8. \A j \in 1..l : /\ EndOf(r[j]) <= r[j + 1].off /\ ~CanMerge(r[j], r[j + 1])
                      /\ Gapless(s) => EndOf(r[j]) = r[j + 1].off
  <2> SUFFICES ASSUME NEW j \in 1..l
               PROVE  /\ EndOf(r[j]) <= r[j + 1].off /\ ~CanMerge(r[j], r[j + 1])
                      /\ Gapless(s) => EndOf(r[j]) = r[j + 1].off
    OBVIOUS
  <2>1. CASE j = l
    <3>1. r[j] = m[l] /\ r[j + 1] = n /\ l # 0
      BY <1>2, <2>1
    <3> QED
      BY <1>3, <1>4, <1>5, <1>6, <3>1
  <2>2. CASE j # l
    <3>1. j \in 1..(l - 1) /\ j + 1 \in 1..l
      BY <1>2, <2>2
    <3> QED
      BY <1>2, <1>3, <3>1
  <2> QED
    BY <2>1, <2>2
<1>9. \A K, v : HasByte(r, l + 1, K, v) <=> HasByte(s, k, K, v)
  <2> SUFFICES ASSUME NEW K, NEW v PROVE HasByte(r, l + 1, K, v) <=> HasByte(s, k, K, v)
    OBVIOUS
  <2>1. HasByte(r, l + 1, K, v) <=> HasByte(m, l, K, v) \/ (n.kind = K /\ v \in Covers(n))
    <3>1. \A j \in 1..(l + 1) : j = l + 1 \/ j \in 1..l
      BY <1>2
    <3>2. l + 1 \in 1..(l + 1) /\ \A j \in 1..l : j \in 1..(l + 1)
      BY <1>2
    <3> QED
      BY <1>2, <3>1, <3>2 DEF HasByte
  <2>2. HasByte(s, k, K, v) <=> HasByte(s, k - 1, K, v) \/ (s[k].kind = K /\ v \in Covers(s[k]))
    <3>1. \A j \in 1..k : j = k \/ j \in 1..(k - 1)
      BY <1>1
    <3>2. k \in 1..k /\ \A j \in 1..(k - 1) : j \in 1..k
      BY <1>1
    <3> QED
      BY <3>1, <3>2 DEF HasByte
  <2> QED
    BY <1>3, <1>4, <2>1, <2>2
<1>10. r[1].off = s[1].off
  <2>1. CASE l = 0
    <3>1. k = 1 /\ r[1] = n
      BY <1>1, <1>2, <1>3, <2>1
    <3> QED
      BY <1>4, <3>1
  <2>2. CASE l # 0
    <3>1. 1 \in 1..l /\ k - 1 # 0
      BY <1>2, <1>3, <2>2
    <3> QED
      BY <1>2, <1>3, <3>1
  <2> QED
    BY <2>1, <2>2
<1>11. l + 1 # 0 /\ k # 0 /\ EndOf(r[l + 1]) = EndOf(s[k]) /\ (l + 1) - 1 = l
  BY <1>1, <1>2, <1>4
<1>12. MergeOf(r, s, k, a, b)
  BY <1>2, <1>7, <1>8, <1>9, <1>10, <1>11 DEF MergeOf, Gapless
<1> QED
  BY <1>12 DEF r

\* mergeExtents keeps what its extents say, and leaves none to merge.
LEMMA MergeKeepsTruth ==
  ASSUME NEW s \in Seq(AnyExtent), AllHonest(s), Ordered(s), NEW a \in Nat, NEW b \in Nat,
         \A j \in 1..Len(s) : a <= s[j].off /\ EndOf(s[j]) <= b
  PROVE  MergeOf(Merge(s), s, Len(s), a, b)
<1>1. PICK fold : /\ Merge(s) = fold[Len(s)] /\ fold[0] = <<>>
                  /\ \A k \in 1..Len(s) : fold[k] = MergeStep(fold[k - 1], s[k])
  BY MergeUnfolds
<1>2. Len(s) \in Nat
  BY LenProperties
<1> DEFINE S == {k \in Nat : k <= Len(s) => MergeOf(fold[k], s, k, a, b)}
<1>3. 0 \in S
  <2>1. <<>> \in Seq(AnyExtent) /\ Len(<<>>) = 0 /\ \A j \in 1..0 : FALSE
    OBVIOUS
  <2>2. \A j \in 1..(0 - 1) : FALSE
    OBVIOUS
  <2>3. MergeOf(<<>>, s, 0, a, b)
    BY <2>1, <2>2 DEF MergeOf, Gapless, HasByte
  <2> QED
    BY <1>1, <2>3
<1>4. ASSUME NEW k \in S PROVE k + 1 \in S
  <2> SUFFICES ASSUME k + 1 <= Len(s) PROVE MergeOf(fold[k + 1], s, k + 1, a, b)
    OBVIOUS
  <2>1. k \in Nat /\ k <= Len(s) /\ k + 1 \in 1..Len(s) /\ (k + 1) - 1 = k
    BY <1>2
  <2>2. MergeOf(fold[k], s, (k + 1) - 1, a, b)
    BY <2>1
  <2>3. fold[k + 1] = MergeStep(fold[k], s[k + 1])
    BY <1>1, <2>1
  <2>4. MergeOf(MergeStep(fold[k], s[k + 1]), s, k + 1, a, b)
    BY <2>1, <2>2, MergeStepJoins, MergeStepAppends
  <2> QED
    BY <2>3, <2>4
<1>5. S = Nat
  <2> HIDE DEF S
  <2>1. S \in SUBSET Nat
    BY DEF S
  <2> QED
    BY <1>3, <1>4, <2>1, SetInduction
<1>6. Len(s) \in S
  BY <1>2, <1>5
<1> QED
  BY <1>1, <1>2, <1>6

-----------------------------------------------------------------------------
(* The map of a range: there is one.                                        *)

IsMap(s, a, b) ==
  /\ Tiles(s, a, b)
  /\ \A j \in 1..Len(s) : Normal(s[j])
  /\ \A j \in 1..(Len(s) - 1) : ~CanMerge(s[j], s[j + 1])

LEMMA MergeOfTiles ==
  ASSUME NEW a \in Nat, NEW b \in Nat, NEW s, Tiles(s, a, b), AllHonest(s)
  PROVE  IsMap(Merge(s), a, b)
<1>1. s \in Seq(AnyExtent) /\ Len(s) \in Nat /\ \A j \in 1..Len(s) : s[j] \in AnyExtent
  BY LenProperties, ElementOfSeq DEF Tiles
<1>2. /\ \A k \in 1..Len(s) : a <= s[k].off /\ EndOf(s[k]) <= b
      /\ Gapless(s)
      /\ IF Len(s) = 0 THEN a = b ELSE s[1].off = a /\ EndOf(s[Len(s)]) = b
  BY DEF Tiles, Gapless
<1>3. Ordered(s)
  <2> SUFFICES ASSUME NEW k \in 1..(Len(s) - 1) PROVE EndOf(s[k]) <= s[k + 1].off
    BY DEF Ordered
  <2>1. k \in 1..Len(s) /\ EndOf(s[k]) = s[k + 1].off
    BY <1>1, <1>2 DEF Gapless
  <2>2. EndOf(s[k]) \in Nat
    BY <1>1, <2>1, ExtentFields
  <2> QED
    BY <2>1, <2>2
<1>4. MergeOf(Merge(s), s, Len(s), a, b)
  BY <1>1, <1>2, <1>3, MergeKeepsTruth
<1> QED
  BY <1>1, <1>2, <1>4 DEF MergeOf, IsMap, Tiles, Gapless

LEMMA MapOfIsMap ==
  ASSUME Ready, NEW from \in Offsets, NEW len \in Nat
  PROVE  IsMap(MapOf(from, len), from, Least(from + len, Size))
<1> DEFINE to == Least(from + len, Size)
           d  == <<0, from, to>>
<1>1. Size \in Nat /\ from \in Nat /\ from < Size /\ LastLinked \in Nat /\ 0 \in Positions
  BY SizeAssumption, LastAssumption, LastLinkedIs DEF Offsets, Positions
<1>2. to \in 0..Size /\ from <= to /\ to \in Nat
  BY <1>1 DEF Least
<1>3. d \in Cells /\ d[1] = 0 /\ d[2] = from /\ d[3] = to
  BY <1>1, <1>2 DEF Cells
<1>4. 0 \in 0..LastLinked /\ \A v \in from..(to - 1) : \A j \in 0..(0 - 1) : Supplier(img[j], v) = "parent"
  BY <1>1
<1>5. Tiles(raw[d], from, to) /\ AllHonest(raw[d])
  <2> HIDE DEF d, to
  <2> QED
    BY <1>2, <1>3, <1>4, RawTilesHonestly
<1>6. MapOf(from, len) = Merge(raw[d])
  BY DEF MapOf
<1> HIDE DEF d, to
<1> QED
  BY <1>1, <1>2, <1>5, <1>6, MergeOfTiles DEF to

\* A normal extent is determined by its bytes.
LEMMA SameBytesSameExtent ==
  ASSUME NEW x, NEW y, Normal(x), Normal(y), x.off = y.off, EndOf(x) = EndOf(y)
  PROVE  x = y
<1>1. x \in AnyExtent /\ y \in AnyExtent
  BY DEF Normal, Honest
<1>2. /\ x.off \in Nat /\ x.len \in Nat \ {0} /\ EndOf(x) = x.off + x.len
      /\ y.off \in Nat /\ y.len \in Nat \ {0} /\ EndOf(y) = y.off + y.len
      /\ x.kind \in Kinds /\ x.file \in Nat /\ y.file \in Nat
  BY <1>1, ExtentFields
<1>3. x.len = y.len
  <2>1. \A o, l, n \in Nat : o + l = o + n => l = n
    OBVIOUS
  <2>2. x.off + x.len = x.off + y.len /\ x.len \in Nat /\ y.len \in Nat
    BY <1>2
  <2> QED
    BY <1>2, <2>1, <2>2
<1>4. x.off \in Covers(x) /\ x.off \in Covers(y)
  BY <1>2 DEF Covers
<1>5. x.kind = y.kind
  BY <1>4 DEF Normal, Honest
<1>6. x.file = y.file /\ x.idx = y.idx
  <2>1. CASE x.kind = "mapped"
    <3>1. /\ Owner(x.off) = x.idx /\ FileOffset(img[x.idx], x.off) = x.file + (x.off - x.off)
          /\ Owner(x.off) = y.idx /\ FileOffset(img[y.idx], x.off) = y.file + (x.off - x.off)
      BY <1>4, <1>5, <2>1 DEF Normal, Honest
    <3> QED
      BY <1>2, <3>1
  <2>2. CASE x.kind \in {"zeroed-by-child", "unresolved"}
    BY <1>5, <2>2 DEF Normal, Honest
  <2>3. CASE x.kind = "zero"
    BY <1>5, <2>3 DEF Normal, Honest
  <2> QED
    BY <1>2, <2>1, <2>2, <2>3 DEF Kinds
<1> QED
  BY <1>1, <1>3, <1>5, <1>6 DEF AnyExtent

\* An extent that cannot merge with the next reaches as far as any extent with
\* its first byte can.
LEMMA ReachesAsFar ==
  ASSUME Ready, NEW x, NEW y, NEW z, Normal(x), Normal(y), Normal(z), x.off = y.off,
         EndOf(x) = z.off, ~CanMerge(x, z)
  PROVE  EndOf(y) <= EndOf(x)
<1>1. x \in AnyExtent /\ y \in AnyExtent /\ z \in AnyExtent
  BY DEF Normal, Honest
<1>2. /\ x.off \in Nat /\ x.len \in Nat \ {0} /\ EndOf(x) = x.off + x.len /\ x.file \in Nat
      /\ y.off \in Nat /\ y.len \in Nat \ {0} /\ EndOf(y) = y.off + y.len /\ y.file \in Nat
      /\ z.off \in Nat /\ z.len \in Nat \ {0} /\ EndOf(z) = z.off + z.len /\ z.file \in Nat
  BY <1>1, ExtentFields
<1> SUFFICES ASSUME EndOf(x) < EndOf(y) PROVE FALSE
  BY <1>2
<1> DEFINE p == z.off
<1>3. p \in Covers(y) /\ p \in Covers(z) /\ x.off \in Covers(x) /\ x.off \in Covers(y)
  <2>2. \A o, l, n \in Nat : o + l < o + n => o + l \in o..(o + n - 1)
    OBVIOUS
  <2>3. x.off \in Covers(x) /\ y.off \in Covers(y) /\ z.off \in Covers(z)
    BY <1>1, CoversItsFirst
  <2>4. p = y.off + x.len /\ y.off + x.len < y.off + y.len
    BY <1>2
  <2>5. p \in Covers(y)
    BY <1>2, <2>2, <2>4 DEF Covers
  <2> QED
    BY <2>3, <2>5
<1>4. x.kind = y.kind /\ z.kind = y.kind /\ KindOf(p) = x.kind /\ KindOf(x.off) = x.kind
  BY <1>3 DEF Normal, Honest
<1>5. x.kind = "mapped" => x.idx = z.idx /\ x.file + x.len = z.file
  <2> SUFFICES ASSUME x.kind = "mapped" PROVE x.idx = z.idx /\ x.file + x.len = z.file
    OBVIOUS
  <2>1. /\ Owner(p) = y.idx /\ FileOffset(img[y.idx], p) = y.file + (p - y.off)
        /\ Owner(p) = z.idx /\ FileOffset(img[z.idx], p) = z.file + (p - z.off)
        /\ Owner(x.off) = x.idx /\ FileOffset(img[x.idx], x.off) = x.file + (x.off - x.off)
        /\ Owner(x.off) = y.idx /\ FileOffset(img[y.idx], x.off) = y.file + (x.off - y.off)
    BY <1>3, <1>4 DEF Normal, Honest
  <2>2. x.file = y.file /\ x.idx = y.idx /\ y.idx = z.idx
    BY <1>2, <2>1
  <2> QED
    BY <1>2, <2>1, <2>2
<1>6. x.kind = "unresolved" => x.idx = z.idx
  <2>1. p \in Offsets /\ x.off \in Offsets
    <3>1. EndOf(y) <= Size /\ Size \in Nat
      BY SizeAssumption DEF Normal, Honest
    <3> QED
      BY <1>2, <3>1 DEF Offsets
  <2>2. x.kind = "unresolved" => x.idx = Owner(x.off) /\ z.idx = Owner(p)
    BY <1>4 DEF Normal, Honest
  <2> QED
    BY <1>4, <2>1, <2>2, KindTellsRead
<1> QED
  BY <1>4, <1>5, <1>6 DEF CanMerge

\* Of two maps of one range, the one begins with the extents of the other.
LEMMA MapBeginsLikeMap ==
  ASSUME Ready, NEW a \in Nat, NEW b \in Nat, NEW s, NEW t, IsMap(s, a, b), IsMap(t, a, b)
  PROVE  \A k \in 1..Len(s) : k <= Len(t) /\ s[k] = t[k]
<1> DEFINE n == Len(s)
           m == Len(t)
<1>1. n \in Nat /\ m \in Nat
  BY LenProperties DEF IsMap, Tiles
<1>2. /\ \A k \in 1..n : Normal(s[k]) /\ a <= s[k].off /\ EndOf(s[k]) <= b
      /\ \A k \in 1..(n - 1) : EndOf(s[k]) = s[k + 1].off /\ ~CanMerge(s[k], s[k + 1])
      /\ IF n = 0 THEN a = b ELSE s[1].off = a /\ EndOf(s[n]) = b
  BY DEF IsMap, Tiles
<1>3. /\ \A k \in 1..m : Normal(t[k]) /\ a <= t[k].off /\ EndOf(t[k]) <= b
      /\ \A k \in 1..(m - 1) : EndOf(t[k]) = t[k + 1].off /\ ~CanMerge(t[k], t[k + 1])
      /\ IF m = 0 THEN a = b ELSE t[1].off = a /\ EndOf(t[m]) = b
  BY DEF IsMap, Tiles
<1> HIDE DEF n, m
<1>4. /\ \A k \in 1..n : s[k].off \in Nat /\ EndOf(s[k]) \in Nat /\ s[k].off < EndOf(s[k])
      /\ \A k \in 1..m : t[k].off \in Nat /\ EndOf(t[k]) \in Nat /\ t[k].off < EndOf(t[k])
  BY <1>2, <1>3, ExtentFields DEF Normal, Honest
<1> DEFINE Alike(k) == k \in 1..m /\ s[k] = t[k]
<1>5. ASSUME NEW k \in 1..n, k \in 1..m, s[k].off = t[k].off PROVE s[k] = t[k]
  <2>1. EndOf(t[k]) <= EndOf(s[k])
    <3>1. CASE k = n
      BY <1>2, <1>3, <1>5, <3>1
    <3>2. CASE k # n
      <4>1. k \in 1..(n - 1) /\ k + 1 \in 1..n
        BY <1>1, <1>5, <3>2
      <4> QED
        BY <1>2, <1>3, <1>5, <4>1, ReachesAsFar
    <3> QED
      BY <3>1, <3>2
  <2>2. EndOf(s[k]) <= EndOf(t[k])
    <3>1. CASE k = m
      BY <1>2, <1>3, <1>5, <3>1
    <3>2. CASE k # m
      <4>1. k \in 1..(m - 1) /\ k + 1 \in 1..m
        BY <1>1, <1>5, <3>2
      <4> QED
        BY <1>2, <1>3, <1>5, <4>1, ReachesAsFar
    <3> QED
      BY <3>1, <3>2
  <2>3. EndOf(s[k]) = EndOf(t[k])
    BY <1>4, <1>5, <2>1, <2>2
  <2> QED
    BY <1>2, <1>3, <1>5, <2>3, SameBytesSameExtent
<1> DEFINE S == {k \in Nat : k + 1 \in 1..n => Alike(k + 1)}
<1>6. 0 \in S
  <2> SUFFICES ASSUME 1 \in 1..n PROVE Alike(1)
    OBVIOUS
  <2>1. n # 0 /\ a < b
    <3>1. n # 0 /\ s[1].off = a /\ EndOf(s[1]) <= b
      BY <1>1, <1>2
    <3> QED
      BY <1>4, <3>1
  <2>2. m # 0
    BY <1>3, <2>1
  <2>3. 1 \in 1..m /\ s[1].off = t[1].off
    BY <1>1, <1>2, <1>3, <2>1, <2>2
  <2> QED
    BY <1>5, <2>3
<1>7. ASSUME NEW k \in S PROVE k + 1 \in S
  <2> SUFFICES ASSUME (k + 1) + 1 \in 1..n PROVE Alike((k + 1) + 1)
    OBVIOUS
  <2>1. k \in Nat /\ k + 1 \in 1..n /\ k + 1 \in 1..(n - 1)
    BY <1>1
  <2>2. Alike(k + 1)
    BY <2>1
  <2>3. k + 1 # m
    <3> SUFFICES ASSUME k + 1 = m PROVE FALSE
      OBVIOUS
    <3>1. m # 0 /\ EndOf(t[m]) = b
      BY <1>1, <1>3, <2>2
    <3>2. EndOf(s[k + 1]) = s[(k + 1) + 1].off
      BY <1>2, <2>1
    <3>3. s[(k + 1) + 1].off < EndOf(s[(k + 1) + 1]) /\ EndOf(s[(k + 1) + 1]) <= b
      BY <1>2, <1>4
    <3>4. s[k + 1] = t[m]
      BY <2>2
    <3> QED
      BY <1>4, <3>1, <3>2, <3>3, <3>4
  <2>4. k + 1 \in 1..(m - 1) /\ (k + 1) + 1 \in 1..m
    BY <1>1, <2>1, <2>2, <2>3
  <2>5. s[(k + 1) + 1].off = t[(k + 1) + 1].off
    BY <1>2, <1>3, <2>1, <2>2, <2>4
  <2> QED
    BY <1>5, <2>4, <2>5
<1>8. S = Nat
  <2> HIDE DEF S
  <2>1. S \in SUBSET Nat
    BY DEF S
  <2> QED
    BY <1>6, <1>7, <2>1, SetInduction
<1>9. ASSUME NEW k \in 1..n PROVE k <= m /\ s[k] = t[k]
  <2>1. k - 1 \in Nat /\ (k - 1) + 1 = k
    BY <1>1
  <2>2. k - 1 \in S
    <3> HIDE DEF S
    <3> QED
      BY <1>8, <2>1
  <2>3. Alike(k)
    BY <2>1, <2>2
  <2> QED
    BY <1>1, <2>3
<1> QED
  BY <1>9 DEF n, m

LEMMA OneMap ==
  ASSUME Ready, NEW a \in Nat, NEW b \in Nat, NEW s, NEW t, IsMap(s, a, b), IsMap(t, a, b)
  PROVE  s = t
<1>1. s \in Seq(AnyExtent) /\ t \in Seq(AnyExtent) /\ Len(s) \in Nat /\ Len(t) \in Nat
  BY LenProperties DEF IsMap, Tiles
<1>2. /\ \A k \in 1..Len(s) : k <= Len(t) /\ s[k] = t[k]
      /\ \A k \in 1..Len(t) : k <= Len(s) /\ t[k] = s[k]
  BY MapBeginsLikeMap
<1>3. Len(s) = Len(t)
  <2>1. Len(s) # 0 => Len(s) \in 1..Len(s)
    BY <1>1
  <2>2. Len(t) # 0 => Len(t) \in 1..Len(t)
    BY <1>1
  <2>3. (Len(s) # 0 => Len(s) <= Len(t)) /\ (Len(t) # 0 => Len(t) <= Len(s))
    BY <1>2, <2>1, <2>2
  <2> QED
    BY <1>1, <2>3
<1> QED
  BY <1>1, <1>2, <1>3, SeqEqual

-----------------------------------------------------------------------------
(* The map of the disk, walked in chunks.                                   *)

WalkStep(f, at, chunk) ==
  IF at >= Size THEN <<>> ELSE MapOf(at, Least(chunk, Size - at)) \o f[at + chunk]

LEMMA ChunkMapTiles ==
  ASSUME Ready, NEW chunk \in Nat \ {0}, NEW at \in Offsets
  PROVE  LET s == MapOf(at, Least(chunk, Size - at)) IN
         /\ Tiles(s, at, Least(at + chunk, Size)) /\ AllHonest(s) /\ s \in Seq(AnyExtent)
<1> DEFINE len == Least(chunk, Size - at)
           s == MapOf(at, len)
<1>1. Size \in Nat /\ at \in Nat /\ at < Size
  BY SizeAssumption DEF Offsets
<1>2. len \in Nat /\ Least(at + len, Size) = Least(at + chunk, Size)
  BY <1>1 DEF Least
<1> HIDE DEF len
<1>3. IsMap(s, at, Least(at + chunk, Size))
  BY <1>2, MapOfIsMap
<1> QED
  BY <1>3 DEF len, IsMap, Tiles, AllHonest, Normal

\* The walk is the function its definition describes.
LEMMA WalkUnfolds ==
  ASSUME Ready, NEW chunk \in Nat \ {0}
  PROVE  \E walk : /\ MapByChunks(chunk) = Merge(walk[0])
                   /\ \A at \in 0..(Size + chunk) : walk[at] = WalkStep(walk, at, chunk)
<1> DEFINE V == Seq(AnyExtent)
           D == 0..(Size + chunk)
           B == Size + chunk
           m == [at \in D |-> (Size + chunk) - at]
           G == [f \in [D -> V] |-> [at \in D |-> WalkStep(f, at, chunk)]]
           Is(f) == f = [at \in D |-> WalkStep(f, at, chunk)]
<1>1. Size \in Nat /\ B \in Nat /\ m \in [D -> 0..B] /\ <<>> \in V
  BY SizeAssumption
<1>2. \A at \in D : ~(at >= Size) => at \in Offsets /\ at + chunk \in D /\ m[at + chunk] < m[at]
  BY <1>1 DEF Offsets
<1>3. ASSUME NEW f \in [D -> V], NEW at \in D PROVE WalkStep(f, at, chunk) \in V
  <2>1. CASE at >= Size
    BY <1>1, <2>1 DEF WalkStep
  <2>2. CASE ~(at >= Size)
    <3> DEFINE s == MapOf(at, Least(chunk, Size - at))
    <3>1. at \in Offsets /\ f[at + chunk] \in V
      BY <1>2, <2>2
    <3>2. s \in V
      BY <3>1, ChunkMapTiles
    <3>3. WalkStep(f, at, chunk) = s \o f[at + chunk]
      BY <2>2 DEF WalkStep
    <3> HIDE DEF s
    <3> QED
      BY <3>1, <3>2, <3>3, ConcatProperties
  <2> QED
    BY <2>1, <2>2
<1>4. ASSUME NEW f \in [D -> V], NEW g \in [D -> V], NEW at \in D, \A x \in D : m[x] < m[at] => f[x] = g[x]
      PROVE  WalkStep(f, at, chunk) = WalkStep(g, at, chunk)
  <2>1. CASE at >= Size
    BY <2>1 DEF WalkStep
  <2>2. CASE ~(at >= Size)
    <3>1. f[at + chunk] = g[at + chunk]
      <4> HIDE DEF m, D
      <4> QED
        BY <1>2, <1>4, <2>2
    <3> QED
      BY <2>2, <3>1 DEF WalkStep
  <2> QED
    BY <2>1, <2>2
<1>5. Recursion(D, V, <<>>, B, m, G)
  <2>1. G \in [[D -> V] -> [D -> V]]
    <3> HIDE DEF D, V
    <3> QED
      BY <1>3
  <2>2. \A f, g \in [D -> V], at \in D :
          (\A x \in D : m[x] < m[at] => f[x] = g[x]) => G[f][at] = G[g][at]
    <3> HIDE DEF D, V, m
    <3> QED
      BY <1>4
  <2> HIDE DEF D, V, B, m, G
  <2> QED
    BY <1>1, <2>1, <2>2 DEF Recursion
<1>6. PICK f \in [D -> V] : f = G[f]
  <2> HIDE DEF D, V, B, m, G
  <2> QED
    BY <1>5, RecursionExists
<1>7. Is(f)
  <2> HIDE DEF D, V
  <2> QED
    BY <1>6
<1> DEFINE walk == CHOOSE f1 : Is(f1)
<1>8. Is(walk)
  <2> HIDE DEF Is
  <2> QED
    BY <1>7
<1>9. MapByChunks(chunk) = Merge(walk[0])
  BY DEF MapByChunks, WalkStep
<1> HIDE DEF walk
<1>10. \A at \in D : walk[at] = WalkStep(walk, at, chunk)
  <2> HIDE DEF D
  <2> QED
    BY <1>8
<1> QED
  BY <1>9, <1>10

\* Whatever the chunk, the map of the disk is the one map of it.
LEMMA ChunkedMapIsMap ==
  ASSUME Ready, NEW chunk \in Nat \ {0}
  PROVE  IsMap(MapByChunks(chunk), 0, Size)
<1>1. PICK walk : /\ MapByChunks(chunk) = Merge(walk[0])
                  /\ \A at \in 0..(Size + chunk) : walk[at] = WalkStep(walk, at, chunk)
  BY WalkUnfolds
<1> DEFINE D == 0..(Size + chunk)
           m == [at \in D |-> (Size + chunk) - at]
           Good(at) == Tiles(walk[at], Least(at, Size), Size) /\ AllHonest(walk[at])
           S == {at \in D : Good(at)}
<1>2. Size \in Nat /\ m \in [D -> Nat] /\ 0 \in D
  BY SizeAssumption
<1>3. ASSUME NEW at \in D, \A x \in D : m[x] < m[at] => x \in S PROVE at \in S
  <2>1. at \in Nat /\ walk[at] = WalkStep(walk, at, chunk)
    BY <1>1, <1>2
  <2>2. CASE at >= Size
    <3>1. walk[at] = <<>> /\ Least(at, Size) = Size
      BY <1>2, <2>1, <2>2 DEF WalkStep, Least
    <3>2. <<>> \in Seq(AnyExtent) /\ Len(<<>>) = 0 /\ \A n \in 1..0 : FALSE
      OBVIOUS
    <3>3. \A n \in 1..(0 - 1) : FALSE
      OBVIOUS
    <3> QED
      BY <3>1, <3>2, <3>3 DEF Tiles, AllHonest
  <2>3. CASE ~(at >= Size)
    <3> DEFINE s == MapOf(at, Least(chunk, Size - at))
               next == at + chunk
               t == walk[next]
               mid == Least(next, Size)
    <3>1. at \in Offsets /\ next \in D /\ m[next] < m[at] /\ Least(at, Size) = at
      BY <1>2, <2>1, <2>3 DEF Offsets, Least
    <3>2. Good(next)
      <4> HIDE DEF m, D
      <4> QED
        BY <1>3, <3>1
    <3>3. Tiles(t, mid, Size) /\ AllHonest(t)
      BY <3>2
    <3>4. Tiles(s, at, mid) /\ AllHonest(s)
      BY <3>1, ChunkMapTiles
    <3>5. walk[at] = s \o t
      BY <2>1, <2>3 DEF WalkStep
    <3>6. mid \in Nat /\ at <= mid /\ mid <= Size
      BY <1>2, <2>1, <2>3 DEF Least
    <3> HIDE DEF s, t, mid
    <3>7. Tiles(s \o t, at, Size)
      BY <1>2, <2>1, <3>3, <3>4, <3>6, JoinTiles
    <3>8. AllHonest(s \o t)
      BY <3>3, <3>4, JoinHonest DEF Tiles
    <3> QED
      BY <3>1, <3>5, <3>7, <3>8
  <2> QED
    BY <2>2, <2>3
<1>4. S = D
  <2> HIDE DEF S, m, D
  <2>1. S \in SUBSET D
    BY DEF S
  <2> QED
    BY <1>2, <1>3, <2>1, MeasureInduction
<1>5. Good(0) /\ Least(0, Size) = 0
  BY <1>2, <1>4 DEF Least
<1> HIDE DEF S, m, D
<1> QED
  BY <1>1, <1>2, <1>5, MergeOfTiles

LEMMA ChunkedMapIsMapOf ==
  ASSUME Ready, NEW chunk \in Nat \ {0}
  PROVE  MapByChunks(chunk) = MapOf(0, Size)
<1>1. Size \in Nat /\ 0 \in Offsets /\ Least(0 + Size, Size) = Size
  BY SizeAssumption DEF Offsets, Least
<1>2. IsMap(MapOf(0, Size), 0, Size)
  BY <1>1, MapOfIsMap
<1> QED
  BY <1>1, <1>2, ChunkedMapIsMap, OneMap

-----------------------------------------------------------------------------
(* The bytes of a map.                                                      *)

\* In a tiling every byte of the range is some extent's.
LEMMA TilesCoverRange ==
  ASSUME NEW a \in Nat, NEW b \in Nat, NEW s, Tiles(s, a, b)
  PROVE  /\ \A v \in a..(b - 1) : \E j \in 1..Len(s) : v \in Covers(s[j])
         /\ \A j \in 1..Len(s) : Covers(s[j]) \subseteq a..(b - 1)
<1> DEFINE n == Len(s)
<1>1. n \in Nat /\ \A k \in 1..n : s[k] \in AnyExtent
  BY LenProperties, ElementOfSeq DEF Tiles
<1>2. /\ \A k \in 1..n : a <= s[k].off /\ EndOf(s[k]) <= b
      /\ \A k \in 1..(n - 1) : EndOf(s[k]) = s[k + 1].off
      /\ IF n = 0 THEN a = b ELSE s[1].off = a /\ EndOf(s[n]) = b
  BY DEF Tiles
<1>3. \A k \in 1..n : s[k].off \in Nat /\ EndOf(s[k]) \in Nat
  BY <1>1, ExtentFields
<1> HIDE DEF n
<1>4. ASSUME NEW v \in a..(b - 1) PROVE \E j \in 1..n : v \in Covers(s[j])
  <2> DEFINE T == {j \in 1..n : s[j].off <= v}
  <2>1. n # 0 /\ v \in Nat /\ a <= v /\ v < b
    BY <1>2, <1>4
  <2>2. 1 \in T
    BY <1>1, <1>2, <2>1
  <2>3. PICK j \in T : \A k \in T : k <= j
    <3>1. T \in SUBSET (0..n) /\ T # {}
      BY <1>1, <2>2
    <3> HIDE DEF T
    <3> QED
      BY <1>1, <3>1, GreatestExists
  <2>4. j \in 1..n /\ s[j].off <= v
    OBVIOUS
  <2>5. v < EndOf(s[j])
    <3>1. CASE j = n
      BY <1>2, <2>1, <3>1
    <3>2. CASE j # n
      <4>1. j \in 1..(n - 1) /\ j + 1 \in 1..n /\ ~(j + 1 <= j)
        BY <1>1, <2>4, <3>2
      <4>2. j + 1 \notin T
        <5> HIDE DEF T
        <5> QED
          BY <2>3, <4>1
      <4>3. ~(s[j + 1].off <= v)
        BY <4>1, <4>2
      <4> QED
        BY <1>2, <1>3, <2>1, <4>1, <4>3
    <3> QED
      BY <3>1, <3>2
  <2>6. v \in Covers(s[j])
    BY <1>3, <2>1, <2>4, <2>5 DEF Covers
  <2> QED
    BY <2>4, <2>6
<1>5. ASSUME NEW j \in 1..n PROVE Covers(s[j]) \subseteq a..(b - 1)
  BY <1>2, <1>3 DEF Covers
<1> QED
  BY <1>4, <1>5 DEF n

\* The bytes of a kind in a map are the bytes of that kind on the device.
LEMMA MapHasBytes ==
  ASSUME NEW a \in Nat, NEW b \in Nat, NEW s, IsMap(s, a, b), NEW K, NEW v
  PROVE  HasByte(s, Len(s), K, v) <=> v \in a..(b - 1) /\ KindOf(v) = K
<1>1. Tiles(s, a, b) /\ \A j \in 1..Len(s) : Honest(s[j])
  BY DEF IsMap, Normal
<1>2. \A j \in 1..Len(s) : \A w \in Covers(s[j]) : w \in a..(b - 1) /\ KindOf(w) = s[j].kind
  BY <1>1, TilesCoverRange DEF Honest
<1>3. v \in a..(b - 1) => \E j \in 1..Len(s) : v \in Covers(s[j])
  BY <1>1, TilesCoverRange
<1> QED
  BY <1>2, <1>3 DEF HasByte

-----------------------------------------------------------------------------
(* Sequences made of a part for each extent of a map: the change report and *)
(* the stream.                                                              *)

\* P gives for each of the first N extents of s some extents within it, in order.
Parts(P, s, N) ==
  /\ N \in Nat /\ N <= Len(s) /\ P \in [1..N -> Seq(AnyExtent)]
  /\ \A k \in 1..N : /\ Ordered(P[k])
                     /\ \A n \in 1..Len(P[k]) : s[k].off <= P[k][n].off /\ EndOf(P[k][n]) <= EndOf(s[k])

\* The extents of q are those of the first k parts, in order.
PartsOf(q, P, s, k) ==
  /\ q \in Seq(AnyExtent) /\ Ordered(q)
  /\ \A j \in 1..Len(q) : /\ k # 0 /\ EndOf(q[j]) <= EndOf(s[k])
                          /\ \E i \in 1..k : \E n \in 1..Len(P[i]) : q[j] = P[i][n]
  /\ \A i \in 1..k : \A n \in 1..Len(P[i]) : \E j \in 1..Len(q) : q[j] = P[i][n]

LEMMA WalkExists ==
  ASSUME NEW P, NEW s, NEW N, Parts(P, s, N)
  PROVE  \E f \in [0..N -> Seq(AnyExtent)] :
           f = [k \in 0..N |-> IF k = 0 THEN <<>> ELSE f[k - 1] \o P[k]]
<1> DEFINE V == Seq(AnyExtent)
           F == [k \in 1..N |-> [x \in V |-> x \o P[k]]]
<1>1. N \in Nat /\ <<>> \in V
  BY DEF Parts
<1>2. F \in [1..N -> [V -> V]]
  <2> SUFFICES ASSUME NEW k \in 1..N, NEW x \in V PROVE x \o P[k] \in V
    OBVIOUS
  <2>1. P[k] \in V
    BY DEF Parts
  <2> HIDE DEF F
  <2> QED
    BY <2>1, ConcatProperties
<1>3. PICK f \in [0..N -> V] : f = [k \in 0..N |-> IF k = 0 THEN <<>> ELSE F[k][f[k - 1]]]
  <2> HIDE DEF F, V
  <2>1. Iteration(N, V, <<>>, F)
    BY <1>1, <1>2 DEF Iteration
  <2> QED
    BY <2>1, IterationExists
<1>4. ASSUME NEW k \in 0..N, k # 0 PROVE F[k][f[k - 1]] = f[k - 1] \o P[k]
  <2>1. k \in 1..N /\ k - 1 \in 0..N
    BY <1>1, <1>4
  <2>2. f[k - 1] \in V
    BY <1>3, <2>1
  <2> QED
    BY <2>1, <2>2
<1>5. f = [k \in 0..N |-> IF k = 0 THEN <<>> ELSE f[k - 1] \o P[k]]
  <2> HIDE DEF F, V
  <2> QED
    BY <1>3, <1>4
<1> QED
  BY <1>5

\* One more part.
LEMMA PartAppended ==
  ASSUME NEW s \in Seq(AnyExtent), Ordered(s), NEW N, NEW P, Parts(P, s, N),
         NEW k \in 1..N, NEW q, PartsOf(q, P, s, k - 1)
  PROVE  PartsOf(q \o P[k], P, s, k)
<1> DEFINE t == P[k]
           r == q \o t
           n == Len(q)
           m == Len(t)
<1>1. /\ N \in Nat /\ N <= Len(s) /\ Len(s) \in Nat /\ k \in Nat /\ k # 0 /\ k \in 1..Len(s)
      /\ t \in Seq(AnyExtent) /\ Ordered(t)
      /\ \A j \in 1..m : s[k].off <= t[j].off /\ EndOf(t[j]) <= EndOf(s[k])
  BY LenProperties DEF Parts
<1>2. /\ r \in Seq(AnyExtent) /\ Len(r) = n + m /\ n \in Nat /\ m \in Nat
      /\ \A j \in 1..n : r[j] = q[j]
      /\ \A j \in 1..m : r[n + j] = t[j]
      /\ \A j \in 1..(n + m) : j \in 1..n \/ (j - n \in 1..m /\ r[j] = t[j - n])
  BY <1>1, ConcatElements DEF PartsOf
<1>3. /\ Ordered(q)
      /\ \A j \in 1..n : /\ k - 1 # 0 /\ EndOf(q[j]) <= EndOf(s[k - 1])
                         /\ \E i \in 1..(k - 1) : \E h \in 1..Len(P[i]) : q[j] = P[i][h]
      /\ \A i \in 1..(k - 1) : \A h \in 1..Len(P[i]) : \E j \in 1..n : q[j] = P[i][h]
  BY DEF PartsOf
<1>4. /\ \A j \in 1..Len(s) : s[j] \in AnyExtent /\ s[j].off \in Nat /\ EndOf(s[j]) \in Nat /\ s[j].off < EndOf(s[j])
      /\ \A j \in 1..n : q[j].off \in Nat /\ EndOf(q[j]) \in Nat
      /\ \A j \in 1..m : t[j].off \in Nat /\ EndOf(t[j]) \in Nat
  BY <1>1, ElementOfSeq, ExtentFields DEF PartsOf
<1>5. k - 1 # 0 => k - 1 \in 1..Len(s) /\ EndOf(s[k - 1]) <= s[k].off
  <2>1. k - 1 # 0 => k - 1 \in 1..(Len(s) - 1) /\ (k - 1) + 1 = k /\ k - 1 \in 1..Len(s)
    BY <1>1
  <2> QED
    BY <2>1 DEF Ordered
<1> HIDE DEF r, t, n, m
<1>6. ASSUME NEW j \in 1..(n + m)
      PROVE  /\ EndOf(r[j]) <= EndOf(s[k])
             /\ \E i \in 1..k : \E h \in 1..Len(P[i]) : r[j] = P[i][h]
  <2>1. CASE j \in 1..n
    <3>1. EndOf(r[j]) <= EndOf(s[k])
      <4>1. r[j] = q[j] /\ EndOf(q[j]) <= EndOf(s[k - 1]) /\ EndOf(s[k - 1]) <= s[k].off
        BY <1>2, <1>3, <1>5, <2>1
      <4>2. /\ EndOf(q[j]) \in Nat /\ EndOf(s[k - 1]) \in Nat
            /\ s[k].off \in Nat /\ EndOf(s[k]) \in Nat /\ s[k].off < EndOf(s[k])
        BY <1>1, <1>3, <1>4, <1>5, <2>1
      <4> QED
        BY <4>1, <4>2
    <3>2. \A i \in 1..(k - 1) : i \in 1..k
      BY <1>1
    <3>3. PICK i \in 1..(k - 1) : \E h \in 1..Len(P[i]) : q[j] = P[i][h]
      BY <1>3, <2>1
    <3>4. r[j] = q[j] /\ i \in 1..k
      BY <1>2, <2>1, <3>2
    <3> QED
      BY <3>1, <3>3, <3>4
  <2>2. CASE j - n \in 1..m /\ r[j] = t[j - n]
    <3>1. k \in 1..k
      BY <1>1
    <3> QED
      BY <1>1, <2>2, <3>1 DEF t, m
  <2> QED
    BY <1>2, <2>1, <2>2
<1>7. ASSUME NEW i \in 1..k, NEW h \in 1..Len(P[i]) PROVE \E j \in 1..(n + m) : r[j] = P[i][h]
  <2>1. CASE i = k
    <3>1. h \in 1..m /\ n + h \in 1..(n + m)
      BY <1>2, <2>1 DEF m, t
    <3>2. r[n + h] = P[i][h]
      BY <1>2, <2>1, <3>1 DEF t
    <3> QED
      BY <3>1, <3>2
  <2>2. CASE i # k
    <3>1. i \in 1..(k - 1)
      BY <1>1, <2>2
    <3>2. PICK j \in 1..n : q[j] = P[i][h]
      BY <1>3, <3>1
    <3>3. j \in 1..(n + m) /\ r[j] = q[j]
      BY <1>2
    <3> QED
      BY <3>2, <3>3
  <2> QED
    BY <2>1, <2>2
<1>8. ASSUME NEW j \in 1..((n + m) - 1) PROVE EndOf(r[j]) <= r[j + 1].off
  <2>1. CASE j \in 1..(n - 1)
    <3>1. j \in 1..n /\ j + 1 \in 1..n
      BY <1>2, <2>1
    <3>2. EndOf(q[j]) <= q[j + 1].off
      BY <1>3, <2>1 DEF Ordered, n
    <3> QED
      BY <1>2, <3>1, <3>2
  <2>2. CASE j = n
    <3>1. n \in 1..n /\ 1 \in 1..m
      BY <1>2, <2>2
    <3>2. r[j] = q[n] /\ r[j + 1] = t[1]
      BY <1>2, <2>2, <3>1
    <3>3. EndOf(q[n]) <= EndOf(s[k - 1]) /\ EndOf(s[k - 1]) <= s[k].off /\ s[k].off <= t[1].off
      BY <1>1, <1>3, <1>5, <3>1
    <3>4. /\ EndOf(q[n]) \in Nat /\ EndOf(s[k - 1]) \in Nat
          /\ s[k].off \in Nat /\ t[1].off \in Nat
      BY <1>1, <1>3, <1>4, <1>5, <3>1
    <3> QED
      BY <3>2, <3>3, <3>4
  <2>3. CASE j \notin 1..n
    <3>1. PICK h \in 1..m : h = j - n
      BY <1>2, <2>3
    <3>2. h \in 1..(m - 1) /\ h + 1 \in 1..m /\ n + h = j /\ n + (h + 1) = j + 1
      BY <1>2, <2>3, <3>1
    <3>3. r[n + h] = t[h] /\ r[n + (h + 1)] = t[h + 1]
      BY <1>2, <3>2
    <3>4. EndOf(t[h]) <= t[h + 1].off
      BY <1>1, <3>2 DEF Ordered, m
    <3> QED
      BY <3>2, <3>3, <3>4
  <2> QED
    BY <1>2, <2>1, <2>2, <2>3
<1>a. Len(r) = n + m /\ r \in Seq(AnyExtent) /\ k # 0
  BY <1>1, <1>2
<1>b. Ordered(r)
  BY <1>8, <1>a DEF Ordered
<1>c. \A j \in 1..Len(r) : /\ k # 0 /\ EndOf(r[j]) <= EndOf(s[k])
                            /\ \E i \in 1..k : \E h \in 1..Len(P[i]) : r[j] = P[i][h]
  BY <1>6, <1>a
<1>d. \A i \in 1..k : \A h \in 1..Len(P[i]) : \E j \in 1..Len(r) : r[j] = P[i][h]
  BY <1>7, <1>a
<1>9. PartsOf(r, P, s, k)
  BY <1>a, <1>b, <1>c, <1>d DEF PartsOf
<1> QED
  BY <1>9 DEF r, t

\* A walk that adds part after part ends with all of them.
LEMMA WalkHasParts ==
  ASSUME NEW s \in Seq(AnyExtent), Ordered(s), NEW N, NEW P, Parts(P, s, N),
         NEW walk, walk[0] = <<>>, \A k \in 1..N : walk[k] = walk[k - 1] \o P[k]
  PROVE  PartsOf(walk[N], P, s, N)
<1>1. N \in Nat
  BY DEF Parts
<1> DEFINE S == {k \in Nat : k <= N => PartsOf(walk[k], P, s, k)}
<1>2. 0 \in S
  <2>1. <<>> \in Seq(AnyExtent) /\ Len(<<>>) = 0 /\ \A j \in 1..0 : FALSE
    OBVIOUS
  <2>2. \A j \in 1..(0 - 1) : FALSE
    OBVIOUS
  <2>3. PartsOf(<<>>, P, s, 0)
    BY <2>1, <2>2 DEF PartsOf, Ordered
  <2> QED
    BY <2>3
<1>3. ASSUME NEW k \in S PROVE k + 1 \in S
  <2> SUFFICES ASSUME k + 1 <= N PROVE PartsOf(walk[k + 1], P, s, k + 1)
    OBVIOUS
  <2>1. k \in Nat /\ k <= N /\ k + 1 \in 1..N /\ (k + 1) - 1 = k
    BY <1>1
  <2>2. PartsOf(walk[k], P, s, (k + 1) - 1)
    BY <2>1
  <2>3. walk[k + 1] = walk[k] \o P[k + 1]
    BY <2>1
  <2> QED
    BY <2>1, <2>2, <2>3, PartAppended
<1>4. S = Nat
  <2> HIDE DEF S
  <2>1. S \in SUBSET Nat
    BY DEF S
  <2> QED
    BY <1>2, <1>3, <2>1, SetInduction
<1>5. N \in S
  <2> HIDE DEF S
  <2> QED
    BY <1>1, <1>4
<1> QED
  BY <1>1, <1>5

\* Parts of honest extents, when they are honest, make an honest sequence.
LEMMA PartsStayHonest ==
  ASSUME NEW q, NEW P, NEW s, NEW k, PartsOf(q, P, s, k),
         \A i \in 1..k : \A n \in 1..Len(P[i]) : Honest(P[i][n])
  PROVE  AllHonest(q)
  BY DEF PartsOf, AllHonest

\* Honest extents in order merge to honest extents with the same bytes.
LEMMA MergeOfHonest ==
  ASSUME NEW q \in Seq(AnyExtent), AllHonest(q), Ordered(q)
  PROVE  /\ Merge(q) \in Seq(AnyExtent) /\ \A j \in 1..Len(Merge(q)) : Normal(Merge(q)[j])
         /\ \A K, v : HasByte(Merge(q), Len(Merge(q)), K, v) <=> HasByte(q, Len(q), K, v)
<1>1. \A j \in 1..Len(q) : 0 <= q[j].off /\ EndOf(q[j]) <= Size
  <2> SUFFICES ASSUME NEW j \in 1..Len(q) PROVE 0 <= q[j].off /\ EndOf(q[j]) <= Size
    OBVIOUS
  <2>1. q[j] \in AnyExtent /\ Honest(q[j])
    BY ElementOfSeq DEF AllHonest
  <2> QED
    BY <2>1, ExtentFields DEF Honest
<1>2. MergeOf(Merge(q), q, Len(q), 0, Size)
  BY <1>1, SizeAssumption, MergeKeepsTruth
<1> QED
  BY <1>2 DEF MergeOf

\* What a map is made of, for the walks over one.
LEMMA MapIsOrdered ==
  ASSUME NEW a \in Nat, NEW b \in Nat, NEW s, IsMap(s, a, b)
  PROVE  /\ s \in Seq(AnyExtent) /\ Len(s) \in Nat /\ Ordered(s)
         /\ \A j \in 1..Len(s) : s[j] \in AnyExtent /\ Normal(s[j]) /\ Honest(s[j])
<1>1. s \in Seq(AnyExtent) /\ Len(s) \in Nat
  BY LenProperties DEF IsMap, Tiles
<1>2. \A j \in 1..Len(s) : s[j] \in AnyExtent /\ Normal(s[j]) /\ Honest(s[j])
  BY DEF IsMap, Normal, Honest
<1>3. Ordered(s)
  <2> SUFFICES ASSUME NEW k \in 1..(Len(s) - 1) PROVE EndOf(s[k]) <= s[k + 1].off
    BY DEF Ordered
  <2>1. k \in 1..Len(s) /\ EndOf(s[k]) = s[k + 1].off
    BY <1>1 DEF IsMap, Tiles
  <2>2. EndOf(s[k]) \in Nat
    BY <1>2, <2>1, ExtentFields
  <2> QED
    BY <2>1, <2>2
<1> QED
  BY <1>1, <1>2, <1>3

\* One extent of its own is a part.
LEMMA OneIsPart ==
  ASSUME NEW e \in AnyExtent
  PROVE  /\ <<e>> \in Seq(AnyExtent) /\ Ordered(<<e>>) /\ Len(<<e>>) = 1 /\ <<e>>[1] = e
         /\ <<>> \in Seq(AnyExtent) /\ Ordered(<<>>) /\ Len(<<>>) = 0
         /\ e.off <= e.off /\ EndOf(e) <= EndOf(e)
<1>1. <<e>> \in Seq(AnyExtent) /\ Len(<<e>>) = 1 /\ <<e>>[1] = e
  OBVIOUS
<1>2. <<>> \in Seq(AnyExtent) /\ Len(<<>>) = 0
  OBVIOUS
<1>3. \A k \in 1..(1 - 1) : FALSE
  OBVIOUS
<1>4. \A k \in 1..(0 - 1) : FALSE
  OBVIOUS
<1>5. Ordered(<<e>>)
  <2> DEFINE s == <<e>>
  <2>1. Len(s) = 1
    BY <1>1
  <2> HIDE DEF s
  <2>2. Ordered(s)
    BY <1>3, <2>1 DEF Ordered
  <2> QED
    BY <2>2 DEF s
<1>6. Ordered(<<>>)
  BY <1>2, <1>4 DEF Ordered
<1>7. e.off <= e.off /\ EndOf(e) <= EndOf(e)
  BY ExtentFields
<1> QED
  BY <1>1, <1>2, <1>5, <1>6, <1>7

\* The extents of q have the bytes of the extents of the map that are kept.
KeptBytes(q, map, since) ==
  \A K, v : HasByte(q, Len(q), K, v) <=>
              \E j \in 1..Len(map) : Kept(map[j], since) /\ map[j].kind = K /\ v \in Covers(map[j])

\* A change report merges the extents of the map of the disk that it keeps.
LEMMA ChangedUnfolds ==
  ASSUME Ready, NEW since, NEW chunk \in Nat \ {0}
  PROVE  \E q : /\ ChangedOf(since, chunk) = Merge(q) /\ q \in Seq(AnyExtent)
                /\ AllHonest(q) /\ Ordered(q)
                /\ KeptBytes(q, MapByChunks(chunk), since)
<1> DEFINE map == MapByChunks(chunk)
           N == Len(map)
           part(k) == IF Kept(map[k], since) THEN <<map[k]>> ELSE <<>>
           P == [k \in 1..N |-> part(k)]
           V == Seq(AnyExtent)
           Is(f) == f = [k \in 0..N |-> IF k = 0 THEN <<>> ELSE f[k - 1] \o part(k)]
           kept == CHOOSE f : Is(f)
           q == kept[N]
<1>0. ChangedOf(since, chunk) = Merge(q)
  BY DEF ChangedOf
<1>1. /\ map \in V /\ N \in Nat /\ Ordered(map)
      /\ \A j \in 1..N : map[j] \in AnyExtent /\ Normal(map[j]) /\ Honest(map[j])
  <2>1. IsMap(map, 0, Size) /\ Size \in Nat
    BY ChunkedMapIsMap, SizeAssumption
  <2> HIDE DEF map
  <2> QED
    BY <2>1, MapIsOrdered
<1> HIDE DEF map
<1>2. ASSUME NEW k \in 1..N
      PROVE  /\ P[k] = part(k) /\ part(k) \in V /\ Ordered(part(k))
             /\ \A n \in 1..Len(part(k)) : /\ part(k)[n] = map[k] /\ Kept(map[k], since)
                                           /\ map[k].off <= part(k)[n].off
                                           /\ EndOf(part(k)[n]) <= EndOf(map[k])
             /\ Kept(map[k], since) => 1 \in 1..Len(part(k)) /\ part(k)[1] = map[k]
  <2>1. P[k] = part(k) /\ map[k] \in AnyExtent
    BY <1>1
  <2>2. CASE Kept(map[k], since)
    <3>1. part(k) = <<map[k]>>
      BY <2>2
    <3>2. \A n \in 1..1 : n = 1
      OBVIOUS
    <3> HIDE DEF part, P
    <3> QED
      BY <2>1, <2>2, <3>1, <3>2, OneIsPart
  <2>3. CASE ~Kept(map[k], since)
    <3>1. part(k) = <<>>
      BY <2>3
    <3>2. \A n \in 1..0 : FALSE
      OBVIOUS
    <3> HIDE DEF part, P
    <3> QED
      BY <2>1, <2>3, <3>1, <3>2, OneIsPart
  <2> QED
    BY <2>2, <2>3
<1>3. Parts(P, map, N)
  <2>1. P \in [1..N -> V]
    <3> HIDE DEF part
    <3> QED
      BY <1>2
  <2> HIDE DEF part, P
  <2> QED
    BY <1>1, <1>2, <2>1 DEF Parts
<1>4. PICK f \in [0..N -> V] : f = [k \in 0..N |-> IF k = 0 THEN <<>> ELSE f[k - 1] \o P[k]]
  <2> HIDE DEF P, N
  <2> QED
    BY <1>3, WalkExists
<1>5. Is(f)
  <2>1. \A k \in 0..N : k # 0 => k \in 1..N
    BY <1>1
  <2>2. \A k \in 0..N : k # 0 => P[k] = part(k)
    BY <2>1
  <2> HIDE DEF P, part, N
  <2> QED
    BY <1>4, <2>2
<1>6. Is(kept)
  <2> HIDE DEF Is
  <2> QED
    BY <1>5
<1>7. kept[0] = <<>> /\ \A k \in 1..N : kept[k] = kept[k - 1] \o P[k]
  <2>1. 0 \in 0..N /\ \A k \in 1..N : k \in 0..N /\ k # 0
    BY <1>1
  <2> HIDE DEF kept, N
  <2> QED
    BY <1>6, <2>1
<1>8. PartsOf(q, P, map, N)
  <2>1. map \in Seq(AnyExtent) /\ Ordered(map)
    BY <1>1
  <2> HIDE DEF kept, P, N, part
  <2> QED
    BY <2>1, <1>3, <1>7, WalkHasParts
<1> HIDE DEF kept, P, part, q, N
<1>9. AllHonest(q)
  BY <1>1, <1>2, <1>8, PartsStayHonest
<1>10. ASSUME NEW K, NEW v
       PROVE  HasByte(q, Len(q), K, v) <=> \E j \in 1..N : Kept(map[j], since) /\ map[j].kind = K /\ v \in Covers(map[j])
  <2>1. ASSUME NEW j \in 1..Len(q), q[j].kind = K, v \in Covers(q[j])
        PROVE  \E i \in 1..N : Kept(map[i], since) /\ map[i].kind = K /\ v \in Covers(map[i])
    <3>1. PICK i \in 1..N : \E n \in 1..Len(P[i]) : q[j] = P[i][n]
      BY <1>8 DEF PartsOf
    <3>2. q[j] = map[i] /\ Kept(map[i], since)
      BY <1>2, <3>1
    <3> QED
      BY <2>1, <3>2
  <2>2. ASSUME NEW i \in 1..N, Kept(map[i], since), map[i].kind = K, v \in Covers(map[i])
        PROVE  \E j \in 1..Len(q) : q[j].kind = K /\ v \in Covers(q[j])
    <3>1. 1 \in 1..Len(P[i]) /\ P[i][1] = map[i]
      BY <1>2, <2>2
    <3>2. PICK j \in 1..Len(q) : q[j] = P[i][1]
      BY <1>8, <3>1 DEF PartsOf
    <3> QED
      BY <2>2, <3>1, <3>2
  <2> QED
    BY <2>1, <2>2 DEF HasByte
<1>11. q \in Seq(AnyExtent) /\ Ordered(q)
  BY <1>8 DEF PartsOf
<1>12. KeptBytes(q, map, since)
  BY <1>10 DEF KeptBytes, N
<1> QED
  BY <1>0, <1>9, <1>11, <1>12 DEF map

-----------------------------------------------------------------------------
(* The stream.                                                              *)

\* How many pieces of at most `buffer` bytes a length makes, and where they begin.
LEMMA PieceCount ==
  ASSUME NEW len \in Nat \ {0}, NEW buffer \in Nat \ {0}
  PROVE  LET N == (len + buffer - 1) \div buffer IN
         /\ N \in Nat
         /\ \A k \in 0..(N - 1) : k * buffer \in Nat /\ k * buffer < len /\ (k + 1) * buffer = k * buffer + buffer
         /\ \A o \in 0..(len - 1) : \E k \in 0..(N - 1) : k * buffer <= o /\ o < k * buffer + buffer
<1> DEFINE t == len + buffer - 1
           N == t \div buffer
<1>1. t \in Nat /\ len \in Nat /\ buffer \in Nat
  OBVIOUS
<1>2. N \in Nat /\ N * buffer <= t /\ N * buffer \in Nat
  <2>1. N \in Nat /\ N * buffer <= t
    BY <1>1, Division
  <2> HIDE DEF N
  <2> QED
    BY <1>1, <2>1
<1>3. ASSUME NEW k \in 0..(N - 1)
      PROVE  k * buffer \in Nat /\ k * buffer < len /\ (k + 1) * buffer = k * buffer + buffer
  <2> HIDE DEF N
  <2>1. k \in Nat /\ k + 1 <= N
    BY <1>2
  <2>2. k * buffer \in Nat /\ (k + 1) * buffer = k * buffer + buffer
    BY <1>1, <2>1
  <2>3. (k + 1) * buffer <= N * buffer
    BY <1>1, <1>2, <2>1
  <2> DEFINE x == k * buffer
             y == N * buffer
             z == (k + 1) * buffer
  <2>4. x \in Nat /\ y \in Nat /\ z = x + buffer /\ z <= y /\ y <= len + buffer - 1
    BY <1>2, <2>2, <2>3
  <2> HIDE DEF x, y, z
  <2>5. x < len
    BY <1>1, <2>4
  <2> QED
    BY <2>2, <2>5 DEF x
<1>4. ASSUME NEW o \in 0..(len - 1)
      PROVE  \E k \in 0..(N - 1) : k * buffer <= o /\ o < k * buffer + buffer
  <2> DEFINE k == o \div buffer
  <2>1. o \in Nat /\ o <= len - 1
    OBVIOUS
  <2>2. k \in Nat /\ k * buffer <= o /\ o < (k + 1) * buffer
    BY <2>1, Division
  <2> HIDE DEF k
  <2>3. k * buffer \in Nat /\ (k + 1) * buffer = k * buffer + buffer
    BY <1>1, <2>2
  <2>4. k < N
    <3>1. CASE N <= k
      <4>1. t < (N + 1) * buffer /\ (N + 1) * buffer = N * buffer + buffer
        <5>1. t < (N + 1) * buffer
          BY <1>1, Division
        <5> HIDE DEF N
        <5>2. (N + 1) * buffer = N * buffer + buffer
          BY <1>1, <1>2
        <5> QED
          BY <5>1, <5>2
      <4> HIDE DEF N
      <4>2. N * buffer <= k * buffer
        BY <1>1, <1>2, <2>2, <3>1
      <4> DEFINE x == N * buffer
                 y == k * buffer
      <4>3. x \in Nat /\ y \in Nat /\ len + buffer - 1 < x + buffer /\ x <= y /\ y <= o
        BY <1>2, <2>2, <2>3, <4>1, <4>2
      <4> HIDE DEF x, y
      <4>4. FALSE
        BY <1>1, <2>1, <4>3
      <4> QED
        BY <4>4
    <3> HIDE DEF N
    <3> QED
      BY <1>2, <2>2, <3>1
  <2> HIDE DEF N
  <2> QED
    BY <1>2, <2>2, <2>3, <2>4
<1> QED
  BY <1>2, <1>3, <1>4

\* The pieces of a data extent are honest, in order, within the buffer, and have
\* all its bytes.
LEMMA PiecesOfData ==
  ASSUME NEW e, Honest(e), e.kind = "mapped", NEW buffer \in Nat \ {0}
  PROVE  LET p == Pieces(e, buffer) IN
         /\ p \in Seq(AnyExtent) /\ Ordered(p)
         /\ \A n \in 1..Len(p) : /\ Honest(p[n]) /\ p[n].kind = "mapped" /\ p[n].len <= buffer
                                 /\ e.off <= p[n].off /\ EndOf(p[n]) <= EndOf(e)
         /\ \A v \in Covers(e) : \E n \in 1..Len(p) : v \in Covers(p[n])
<1> DEFINE p == Pieces(e, buffer)
           N == (e.len + buffer - 1) \div buffer
<1>1. e \in AnyExtent
  BY DEF Honest
<1>2. /\ e.off \in Nat /\ e.len \in Nat \ {0} /\ e.file \in Nat /\ e.idx \in 0..(Last + 1)
      /\ EndOf(e) = e.off + e.len /\ EndOf(e) \in Nat
  BY <1>1, ExtentFields
<1>3. /\ N \in Nat
      /\ \A k \in 0..(N - 1) : k * buffer \in Nat /\ k * buffer < e.len /\ (k + 1) * buffer = k * buffer + buffer
      /\ \A o \in 0..(e.len - 1) : \E k \in 0..(N - 1) : k * buffer <= o /\ o < k * buffer + buffer
  BY <1>2, PieceCount
<1> HIDE DEF N
<1>4. ASSUME NEW k \in 0..(N - 1)
      PROVE  LET x == Piece(e, k, buffer) IN
             /\ x.off = e.off + k * buffer /\ EndOf(x) = Least(e.off + k * buffer + buffer, EndOf(e))
             /\ x.off \in Nat /\ EndOf(x) \in Nat
             /\ Honest(x) /\ x.kind = "mapped" /\ x.len <= buffer
             /\ e.off <= x.off /\ EndOf(x) <= EndOf(e)
  <2> DEFINE x == Piece(e, k, buffer)
             z == k * buffer
             at == e.off + z
             end == Least(at + buffer, EndOf(e))
  <2>1. z \in Nat /\ z < e.len
    BY <1>3
  <2>2. /\ x.off = at /\ x.len = end - at /\ x.kind = "mapped"
        /\ x.file = e.file + (at - e.off) /\ x.idx = e.idx
        /\ x = [off |-> at, len |-> end - at, kind |-> "mapped", file |-> e.file + (at - e.off), idx |-> e.idx]
    BY DEF Piece, Extent
  <2> HIDE DEF x, z
  <2>3. /\ at \in Nat /\ end \in Nat /\ e.off <= at /\ at < end /\ end <= EndOf(e) /\ end - at <= buffer
        /\ end - at \in Nat \ {0} /\ e.file + (at - e.off) \in Nat
    BY <1>2, <2>1 DEF Least
  <2> HIDE DEF at, end
  <2>4. x \in AnyExtent
    BY <1>2, <2>2, <2>3 DEF AnyExtent, Kinds
  <2>5. EndOf(x) = end
    BY <2>2, <2>3 DEF EndOf
  <2>6. Covers(x) \subseteq Covers(e)
    BY <1>2, <2>2, <2>3, <2>5 DEF Covers
  <2>7. \A v \in Covers(x) : KindOf(v) = "mapped" /\ Owner(v) = x.idx /\ FileOffset(img[x.idx], v) = x.file + (v - x.off)
    <3> SUFFICES ASSUME NEW v \in Covers(x)
                 PROVE  KindOf(v) = "mapped" /\ Owner(v) = x.idx /\ FileOffset(img[x.idx], v) = x.file + (v - x.off)
      OBVIOUS
    <3>1. v \in Covers(e) /\ v \in Int
      BY <1>2, <2>2, <2>3, <2>5, <2>6 DEF Covers
    <3>2. KindOf(v) = "mapped" /\ Owner(v) = e.idx /\ FileOffset(img[e.idx], v) = e.file + (v - e.off)
      BY <3>1 DEF Honest
    <3>3. e.file + (v - e.off) = (e.file + (at - e.off)) + (v - at)
      BY <1>2, <2>3, <3>1
    <3> QED
      BY <2>2, <3>2, <3>3
  <2>8. EndOf(x) <= Size
    <3>1. EndOf(e) <= Size /\ Size \in Nat
      BY SizeAssumption DEF Honest
    <3> QED
      BY <1>2, <2>3, <2>5, <3>1
  <2>9. Honest(x)
    BY <2>2, <2>4, <2>7, <2>8 DEF Honest
  <2> QED
    BY <2>2, <2>3, <2>5, <2>9 DEF x, at, end, z
<1>5. p = [k \in 1..N |-> Piece(e, k - 1, buffer)]
  BY DEF Pieces, N
<1>6. \A k \in 1..N : k - 1 \in 0..(N - 1)
  BY <1>3
<1>7. p \in Seq(AnyExtent) /\ Len(p) = N /\ \A k \in 1..N : p[k] = Piece(e, k - 1, buffer)
  <2>1. \A k \in 1..N : Piece(e, k - 1, buffer) \in AnyExtent
    BY <1>4, <1>6 DEF Honest
  <2>2. p \in [1..N -> AnyExtent]
    BY <1>5, <2>1
  <2> HIDE DEF p
  <2>3. p \in Seq(AnyExtent) /\ Len(p) = N
    BY <1>3, <2>2
  <2> QED
    BY <1>5, <2>3
<1> HIDE DEF p
<1>8. Ordered(p)
  <2> SUFFICES ASSUME NEW k \in 1..(N - 1) PROVE EndOf(p[k]) <= p[k + 1].off
    BY <1>7 DEF Ordered
  <2>1. k \in 1..N /\ k + 1 \in 1..N /\ k - 1 \in 0..(N - 1) /\ k \in 0..(N - 1) /\ (k + 1) - 1 = k /\ (k - 1) + 1 = k
    BY <1>3
  <2>2. p[k] = Piece(e, k - 1, buffer) /\ p[k + 1] = Piece(e, k, buffer)
    BY <1>7, <2>1
  <2>3. EndOf(p[k]) = Least(e.off + (k - 1) * buffer + buffer, EndOf(e)) /\ p[k + 1].off = e.off + k * buffer
    BY <1>4, <2>1, <2>2
  <2>4. k * buffer = (k - 1) * buffer + buffer /\ (k - 1) * buffer \in Nat
    BY <1>3, <2>1
  <2> DEFINE z == (k - 1) * buffer
  <2>5. z \in Nat /\ EndOf(p[k]) = Least(e.off + z + buffer, EndOf(e)) /\ p[k + 1].off = e.off + (z + buffer)
    BY <2>3, <2>4
  <2> HIDE DEF z
  <2> QED
    BY <1>2, <2>5 DEF Least
<1>9. ASSUME NEW v \in Covers(e) PROVE \E n \in 1..N : v \in Covers(p[n])
  <2>1. v \in Int /\ e.off <= v /\ v < e.off + e.len /\ v - e.off \in 0..(e.len - 1)
    BY <1>2 DEF Covers
  <2>2. PICK k \in 0..(N - 1) : k * buffer <= v - e.off /\ v - e.off < k * buffer + buffer
    BY <1>3, <2>1
  <2>3. k + 1 \in 1..N /\ (k + 1) - 1 = k
    BY <1>3
  <2>4. p[k + 1] = Piece(e, k, buffer)
    BY <1>7, <2>3
  <2> DEFINE z == k * buffer
  <2>5. /\ z \in Nat /\ z <= v - e.off /\ v - e.off < z + buffer
        /\ p[k + 1].off = e.off + z /\ EndOf(p[k + 1]) = Least(e.off + z + buffer, EndOf(e))
    BY <1>3, <1>4, <2>2, <2>4
  <2> HIDE DEF z
  <2>6. v \in Covers(p[k + 1])
    BY <1>2, <2>1, <2>5 DEF Covers, Least
  <2> QED
    BY <2>3, <2>6
<1> QED
  BY <1>4, <1>6, <1>7, <1>8, <1>9 DEF p

\* Whether a stream visits the bytes of an extent.
Visited(e, includeZero) == e.kind \in {"zero", "zeroed-by-child"} => includeZero

LEMMA RunsOfExtentAreTrue ==
  ASSUME NEW e, Honest(e), NEW buffer \in Nat \ {0}, NEW z \in BOOLEAN
  PROVE  LET p == RunsOfExtent(e, buffer, z) IN
         /\ p \in Seq(AnyExtent) /\ Ordered(p)
         /\ \A n \in 1..Len(p) : /\ Honest(p[n]) /\ (p[n].kind = "mapped" => p[n].len <= buffer)
                                 /\ e.off <= p[n].off /\ EndOf(p[n]) <= EndOf(e)
                                 /\ Visited(e, z)
         /\ Visited(e, z) => \A v \in Covers(e) : \E n \in 1..Len(p) : v \in Covers(p[n])
<1> DEFINE p == RunsOfExtent(e, buffer, z)
<1>1. e \in AnyExtent /\ e.kind \in Kinds
  BY ExtentFields DEF Honest
<1>2. CASE e.kind = "mapped"
  <2>1. e.kind # "unresolved"
    BY <1>2
  <2>2. p = Pieces(e, buffer)
    BY <1>2, <2>1, Zenon DEF RunsOfExtent
  <2>3. Visited(e, z)
    BY <1>2 DEF Visited
  <2> HIDE DEF p
  <2> QED
    BY <1>2, <2>2, <2>3, PiecesOfData DEF p
<1>3. ASSUME p = <<e>>, e.kind # "mapped", Visited(e, z)
      PROVE  /\ p \in Seq(AnyExtent) /\ Ordered(p)
             /\ \A n \in 1..Len(p) : /\ Honest(p[n]) /\ (p[n].kind = "mapped" => p[n].len <= buffer)
                                     /\ e.off <= p[n].off /\ EndOf(p[n]) <= EndOf(e)
                                     /\ Visited(e, z)
             /\ Visited(e, z) => \A v \in Covers(e) : \E n \in 1..Len(p) : v \in Covers(p[n])
  <2>1. \A n \in 1..1 : n = 1
    OBVIOUS
  <2>2. 1 \in 1..1
    OBVIOUS
  <2>3. p \in Seq(AnyExtent) /\ Ordered(p) /\ Len(p) = 1 /\ p[1] = e
    BY <1>1, <1>3, OneIsPart
  <2>4. e.off <= e.off /\ EndOf(e) <= EndOf(e)
    BY <1>1, OneIsPart
  <2> HIDE DEF p
  <2> QED
    BY <1>3, <2>1, <2>2, <2>3, <2>4
<1>4. CASE e.kind = "unresolved"
  <2>1. e.kind # "mapped"
    BY <1>4
  <2>2. p = <<e>>
    BY <1>4, <2>1, Zenon DEF RunsOfExtent
  <2>3. Visited(e, z)
    BY <1>4 DEF Visited
  <2> HIDE DEF p
  <2> QED
    BY <1>3, <2>1, <2>2, <2>3 DEF p
<1>5. CASE e.kind \in {"zero", "zeroed-by-child"}
  <2>1. e.kind # "mapped" /\ e.kind # "unresolved"
    BY <1>5
  <2>2. p = IF z THEN <<e>> ELSE <<>>
    BY <2>1, Zenon DEF RunsOfExtent
  <2>3. CASE z
    <3>1. p = <<e>> /\ Visited(e, z)
      BY <2>2, <2>3 DEF Visited
    <3> HIDE DEF p
    <3> QED
      BY <1>3, <2>1, <3>1 DEF p
  <2>4. CASE ~z
    <3>1. p = <<>> /\ ~Visited(e, z)
      BY <1>5, <2>2, <2>4 DEF Visited
    <3>2. p \in Seq(AnyExtent) /\ Ordered(p) /\ Len(p) = 0
      BY <1>1, <3>1, OneIsPart
    <3>3. \A n \in 1..0 : FALSE
      OBVIOUS
    <3> HIDE DEF p
    <3> QED
      BY <3>1, <3>2, <3>3 DEF p
  <2> QED
    BY <2>3, <2>4
<1> QED
  BY <1>1, <1>2, <1>4, <1>5 DEF Kinds

\* All the runs of the disk, and the bytes they have.
LEMMA RunsUnfold ==
  ASSUME Ready, NEW buffer \in Nat \ {0}, NEW z \in BOOLEAN
  PROVE  LET s == RunsOf(buffer, z)  map == MapByChunks(Size) IN
         /\ s \in Seq(AnyExtent) /\ AllHonest(s) /\ Ordered(s)
         /\ \A j \in 1..Len(s) : s[j].kind = "mapped" => s[j].len <= buffer
         /\ \A v : (\E j \in 1..Len(s) : v \in Covers(s[j])) <=>
                     \E k \in 1..Len(map) : Visited(map[k], z) /\ v \in Covers(map[k])
<1> DEFINE map == MapByChunks(Size)
           N == Len(map)
           part(k) == RunsOfExtent(map[k], buffer, z)
           V == Seq(AnyExtent)
           P == [k \in 1..N |-> part(k)]
           Is(f) == f = [k \in 0..N |-> IF k = 0 THEN <<>> ELSE f[k - 1] \o part(k)]
           walk == CHOOSE f : Is(f)
           s == walk[N]
<1>0. RunsOf(buffer, z) = s
  BY Zenon DEF RunsOf
<1>1. /\ map \in V /\ N \in Nat /\ Ordered(map)
      /\ \A j \in 1..N : map[j] \in AnyExtent /\ Honest(map[j])
  <2>1. IsMap(map, 0, Size) /\ Size \in Nat
    BY ChunkedMapIsMap, SizeAssumption
  <2> HIDE DEF map
  <2> QED
    BY <2>1, MapIsOrdered
<1> HIDE DEF map
<1>2. ASSUME NEW k \in 1..N PROVE P[k] = part(k) /\ Honest(map[k])
  <2> HIDE DEF part
  <2> QED
    BY <1>1
<1> HIDE DEF P
<1>3. ASSUME NEW k \in 1..N
      PROVE  /\ P[k] \in V /\ Ordered(P[k])
             /\ \A n \in 1..Len(P[k]) : /\ Honest(P[k][n]) /\ (P[k][n].kind = "mapped" => P[k][n].len <= buffer)
                                        /\ map[k].off <= P[k][n].off /\ EndOf(P[k][n]) <= EndOf(map[k])
                                        /\ Visited(map[k], z)
             /\ Visited(map[k], z) => \A v \in Covers(map[k]) : \E n \in 1..Len(P[k]) : v \in Covers(P[k][n])
  <2>1. PICK e : e = map[k]
    OBVIOUS
  <2>2. PICK p : p = P[k]
    OBVIOUS
  <2>3. Honest(e) /\ p = RunsOfExtent(e, buffer, z)
    BY <1>2, <2>1, <2>2
  <2>4. /\ p \in V /\ Ordered(p)
        /\ \A n \in 1..Len(p) : /\ Honest(p[n]) /\ (p[n].kind = "mapped" => p[n].len <= buffer)
                                /\ e.off <= p[n].off /\ EndOf(p[n]) <= EndOf(e)
                                /\ Visited(e, z)
        /\ Visited(e, z) => \A v \in Covers(e) : \E n \in 1..Len(p) : v \in Covers(p[n])
    BY <2>3, RunsOfExtentAreTrue, Zenon
  <2> QED
    BY <2>1, <2>2, <2>4, Zenon
<1>4. \A k \in 0..N : k # 0 => k \in 1..N /\ P[k] = part(k)
  BY <1>1, <1>2
<1> HIDE DEF part
<1>5. Parts(P, map, N)
  <2>1. P \in [1..N -> V]
    <3>1. P = [k \in 1..N |-> part(k)]
      BY DEF P
    <3> QED
      BY <1>2, <1>3, <3>1
  <2> QED
    BY <1>1, <1>3, <2>1 DEF Parts
<1> HIDE DEF N
<1>6. PICK f \in [0..N -> V] : f = [k \in 0..N |-> IF k = 0 THEN <<>> ELSE f[k - 1] \o P[k]]
  BY <1>5, WalkExists
<1>7. Is(f)
  BY <1>4, <1>6
<1>8. Is(walk)
  <2> HIDE DEF Is
  <2> QED
    BY <1>7
<1>9. walk[0] = <<>> /\ \A k \in 1..N : walk[k] = walk[k - 1] \o P[k]
  <2>1. 0 \in 0..N /\ \A k \in 1..N : k \in 0..N /\ k # 0
    BY <1>1
  <2> HIDE DEF walk
  <2> QED
    BY <1>4, <1>8, <2>1
<1> HIDE DEF walk
<1>10. PartsOf(s, P, map, N)
  BY <1>1, <1>5, <1>9, WalkHasParts
<1> HIDE DEF s
<1>11. AllHonest(s)
  BY <1>3, <1>10, PartsStayHonest
<1>12. s \in Seq(AnyExtent) /\ Ordered(s)
  BY <1>10 DEF PartsOf
<1>13. ASSUME NEW j \in 1..Len(s) PROVE s[j].kind = "mapped" => s[j].len <= buffer
  <2>1. PICK i \in 1..N : \E n \in 1..Len(P[i]) : s[j] = P[i][n]
    BY <1>10 DEF PartsOf
  <2> QED
    BY <1>3, <2>1
<1>14. ASSUME NEW v
       PROVE  (\E j \in 1..Len(s) : v \in Covers(s[j])) <=> \E k \in 1..N : Visited(map[k], z) /\ v \in Covers(map[k])
  <2>1. ASSUME NEW j \in 1..Len(s), v \in Covers(s[j])
        PROVE  \E k \in 1..N : Visited(map[k], z) /\ v \in Covers(map[k])
    <3>1. PICK i \in 1..N : \E n \in 1..Len(P[i]) : s[j] = P[i][n]
      BY <1>10 DEF PartsOf
    <3>2. /\ Honest(s[j]) /\ map[i].off <= s[j].off /\ EndOf(s[j]) <= EndOf(map[i]) /\ Visited(map[i], z)
          /\ Honest(map[i])
      BY <1>2, <1>3, <3>1
    <3>3. /\ s[j].off \in Nat /\ EndOf(s[j]) \in Nat
          /\ map[i].off \in Nat /\ EndOf(map[i]) \in Nat
      BY <3>2, ExtentFields DEF Honest
    <3>4. v \in Covers(map[i])
      BY <2>1, <3>2, <3>3 DEF Covers
    <3> QED
      BY <3>2, <3>4
  <2>2. ASSUME NEW k \in 1..N, Visited(map[k], z), v \in Covers(map[k])
        PROVE  \E j \in 1..Len(s) : v \in Covers(s[j])
    <3>1. PICK n \in 1..Len(P[k]) : v \in Covers(P[k][n])
      BY <1>3, <2>2
    <3>2. PICK j \in 1..Len(s) : s[j] = P[k][n]
      BY <1>10 DEF PartsOf
    <3> QED
      BY <3>1, <3>2
  <2> QED
    BY <2>1, <2>2
<1> QED
  BY <1>0, <1>11, <1>12, <1>13, <1>14 DEF map, N

\* The runs s are those of r before the first that ends the walk, or all of r.
EndsAt(s, err, r, n, fail) ==
  /\ s \in Seq(AnyExtent) /\ Len(s) = n
  /\ \A j \in 1..n : s[j] = r[j] /\ ~EndsWalk(r[j], fail)
  /\ err = (n # Len(r))
  /\ err => EndsWalk(r[n + 1], fail)

\* A stream visits the runs before the first that ends its walk.
LEMMA StreamUnfolds ==
  ASSUME Ready, NEW buffer \in Nat \ {0}, NEW z \in BOOLEAN, NEW fail \in BOOLEAN
  PROVE  LET out == StreamOf(buffer, z, fail)  r == RunsOf(buffer, z) IN
         \E n \in 0..Len(r) : EndsAt(out.runs, out.err, r, n, fail)
<1> DEFINE out == StreamOf(buffer, z, fail)
           r == RunsOf(buffer, z)
           ends == {k \in DOMAIN r : EndsWalk(r[k], fail)}
           least == CHOOSE k \in ends : \A j \in ends : k <= j
<1>1. r \in Seq(AnyExtent)
  BY RunsUnfold
<1>2. out.err = (ends # {}) /\ out.runs = IF ends = {} THEN r ELSE SubSeq(r, 1, least - 1)
  BY Zenon DEF StreamOf
<1> HIDE DEF out, r
<1>3. Len(r) \in Nat /\ DOMAIN r = 1..Len(r)
  BY <1>1
<1>4. CASE ends = {}
  <2>1. \A j \in 1..Len(r) : ~EndsWalk(r[j], fail)
    BY <1>3, <1>4
  <2>2. out.runs = r /\ out.err = FALSE
    BY <1>2, <1>4
  <2>3. Len(r) \in 0..Len(r)
    BY <1>3
  <2>4. EndsAt(out.runs, out.err, r, Len(r), fail)
    BY <1>1, <2>1, <2>2 DEF EndsAt
  <2> QED
    BY <2>3, <2>4 DEF out, r
<1>5. CASE ends # {}
  <2>1. ends \in SUBSET Nat
    BY <1>3
  <2>2. least \in ends /\ \A j \in ends : least <= j
    <3> HIDE DEF ends
    <3>1. \E k \in ends : \A j \in ends : k <= j
      BY <1>5, <2>1, LeastExists
    <3> QED
      BY <3>1
  <2>3. out.runs = SubSeq(r, 1, least - 1) /\ out.err = TRUE
    BY <1>2, <1>5
  <2>4. least \in 1..Len(r) /\ EndsWalk(r[least], fail)
    BY <1>3, <2>2
  <2>5. \A j \in 1..Len(r) : EndsWalk(r[j], fail) => least <= j
    BY <1>3, <2>2
  <2> HIDE DEF least, ends
  <2> DEFINE n == least - 1
  <2>6. n \in 0..Len(r) /\ n # Len(r) /\ n + 1 = least
    BY <1>3, <2>4
  <2>7. SubSeq(r, 1, n) \in Seq(AnyExtent) /\ Len(SubSeq(r, 1, n)) = n /\ \A j \in 1..n : SubSeq(r, 1, n)[j] = r[j]
    BY <1>1, <1>3, <2>6
  <2>8. \A j \in 1..n : ~EndsWalk(r[j], fail)
    BY <1>3, <2>4, <2>5
  <2>9. EndsAt(out.runs, out.err, r, n, fail)
    <3> HIDE DEF n
    <3> QED
      BY <2>3, <2>4, <2>6, <2>7, <2>8 DEF EndsAt, n
  <2> QED
    BY <2>6, <2>9 DEF out, r
<1> QED
  BY <1>4, <1>5

\* What is visited is honest, in order and in pieces.
LEMMA StreamIsHonest ==
  ASSUME Ready, NEW buffer \in Nat \ {0}, NEW z \in BOOLEAN, NEW fail \in BOOLEAN
  PROVE  LET s == StreamOf(buffer, z, fail).runs IN
         /\ s \in Seq(AnyExtent) /\ AllHonest(s) /\ Ordered(s)
         /\ \A j \in 1..Len(s) : s[j].kind = "mapped" => s[j].len <= buffer
<1> DEFINE s == StreamOf(buffer, z, fail).runs
           r == RunsOf(buffer, z)
<1>1. /\ r \in Seq(AnyExtent) /\ AllHonest(r) /\ Ordered(r)
      /\ \A j \in 1..Len(r) : r[j].kind = "mapped" => r[j].len <= buffer
  BY RunsUnfold
<1>2. PICK n \in 0..Len(r) : EndsAt(s, StreamOf(buffer, z, fail).err, r, n, fail)
  BY StreamUnfolds
<1> HIDE DEF s, r
<1>3. s \in Seq(AnyExtent) /\ Len(s) = n /\ \A j \in 1..n : s[j] = r[j]
  BY <1>2 DEF EndsAt
<1>4. Len(r) \in Nat /\ \A j \in 1..n : j \in 1..Len(r)
  BY <1>1
<1>5. \A k \in 1..(n - 1) : k \in 1..n /\ k + 1 \in 1..n /\ k \in 1..(Len(r) - 1)
  BY <1>4
<1>6. Ordered(s)
  BY <1>1, <1>3, <1>5 DEF Ordered
<1>7. AllHonest(s)
  BY <1>1, <1>3, <1>4 DEF AllHonest
<1>8. \A j \in 1..Len(s) : s[j].kind = "mapped" => s[j].len <= buffer
  BY <1>1, <1>3, <1>4
<1> QED
  BY <1>3, <1>6, <1>7, <1>8 DEF s

\* The kind of a byte and what a read returns for it say the same.
LEMMA ByOfKind ==
  ASSUME Ready, NEW v \in Offsets
  PROVE  /\ DeviceByte(v).by = "unresolved" <=> KindOf(v) = "unresolved"
         /\ DeviceByte(v).by = "zero" <=> KindOf(v) \in {"zero", "zeroed-by-child"}
         /\ DeviceByte(v).by \in {"file", "missing"} <=> KindOf(v) = "mapped"
         /\ DeviceByte(v).by = "zero" => DeviceByte(v) = [by |-> "zero"]
         /\ DeviceByte(v).by = "unresolved" => DeviceByte(v) = [by |-> "unresolved"]
<1>1. /\ KindOf(v) \in {"zero", "mapped", "unresolved", "zeroed-by-child"}
      /\ KindOf(v) = "unresolved" => DeviceByte(v) = [by |-> "unresolved"]
      /\ KindOf(v) = "mapped" => DeviceByte(v) = FromFile(Owner(v), FileOffset(img[Owner(v)], v))
      /\ KindOf(v) \in {"zero", "zeroed-by-child"} => DeviceByte(v) = [by |-> "zero"]
  BY KindTellsRead DEF Kinds
<1>2. \A i, o : FromFile(i, o).by \in {"file", "missing"}
  BY DEF FromFile
<1>3. CASE KindOf(v) = "mapped"
  <2>1. DeviceByte(v).by \in {"file", "missing"}
    BY <1>1, <1>2, <1>3
  <2> QED
    BY <1>3, <2>1
<1>4. CASE KindOf(v) = "unresolved"
  BY <1>1, <1>4
<1>5. CASE KindOf(v) \in {"zero", "zeroed-by-child"}
  BY <1>1, <1>5
<1> QED
  BY <1>1, <1>3, <1>4, <1>5

\* In an ordered sequence every extent lies before every later one.
LEMMA OrderedThroughout ==
  ASSUME NEW s \in Seq(AnyExtent), Ordered(s), NEW k \in 1..Len(s), NEW i \in 1..Len(s), k < i
  PROVE  EndOf(s[k]) <= s[i].off
<1>1. Len(s) \in Nat /\ \A j \in 1..Len(s) : s[j].off \in Nat /\ EndOf(s[j]) \in Nat /\ s[j].off < EndOf(s[j])
  BY LenProperties, ElementOfSeq, ExtentFields
<1>2. \A j \in 1..(Len(s) - 1) : EndOf(s[j]) <= s[j + 1].off
  BY DEF Ordered
<1> DEFINE n == Len(s)
           S == {d \in Nat : k + d + 1 \in 1..n => EndOf(s[k]) <= s[k + d + 1].off}
<1> HIDE DEF n
<1>3. 0 \in S
  <2> SUFFICES ASSUME k + 0 + 1 \in 1..n PROVE EndOf(s[k]) <= s[k + 0 + 1].off
    OBVIOUS
  <2>1. k \in 1..(n - 1) /\ k + 0 + 1 = k + 1
    BY <1>1 DEF n
  <2> QED
    BY <1>2, <2>1 DEF n
<1>4. ASSUME NEW d \in S PROVE d + 1 \in S
  <2> SUFFICES ASSUME k + (d + 1) + 1 \in 1..n PROVE EndOf(s[k]) <= s[k + (d + 1) + 1].off
    OBVIOUS
  <2> DEFINE j == k + d + 1
  <2>1. j \in 1..n /\ j \in 1..(n - 1) /\ k + (d + 1) + 1 = j + 1 /\ j + 1 \in 1..n
    <3>1. k \in Nat /\ d \in Nat /\ k >= 1 /\ n \in Nat
      BY <1>1 DEF n
    <3>2. k + (d + 1) + 1 \in 1..n
      OBVIOUS
    <3> HIDE DEF S
    <3> QED
      BY <3>1, <3>2
  <2>2. EndOf(s[k]) <= s[j].off
    BY <2>1
  <2>3. EndOf(s[j]) <= s[j + 1].off
    BY <1>2, <2>1 DEF n
  <2> HIDE DEF j
  <2>4. s[j].off \in Nat /\ EndOf(s[j]) \in Nat /\ s[j].off < EndOf(s[j]) /\ s[j + 1].off \in Nat /\ EndOf(s[k]) \in Nat
    BY <1>1, <2>1 DEF n
  <2>5. \A u, x, y, z \in Nat : u <= x /\ x < y /\ y <= z => u <= z
    OBVIOUS
  <2>6. EndOf(s[k]) <= s[j + 1].off
    BY <2>2, <2>3, <2>4, <2>5, Zenon
  <2> QED
    BY <2>1, <2>6, Zenon
<1>5. S = Nat
  <2> HIDE DEF S
  <2>1. S \in SUBSET Nat
    BY DEF S
  <2> QED
    BY <1>3, <1>4, <2>1, SetInduction
<1>6. i - k - 1 \in S /\ k + (i - k - 1) + 1 = i /\ i \in 1..n
  <2>1. i - k - 1 \in Nat /\ k + (i - k - 1) + 1 = i /\ i \in 1..n
    BY <1>1 DEF n
  <2> HIDE DEF S
  <2> QED
    BY <1>5, <2>1
<1> QED
  BY <1>6

\* The runs r have every byte of the disk but the zeroes left out.
HaveBytes(r, z) ==
  \A v : (\E j \in 1..Len(r) : v \in Covers(r[j])) <=> v \in Offsets /\ (DeviceByte(v).by = "zero" => z)

LEMMA RunsHaveBytes ==
  ASSUME Ready, NEW buffer \in Nat \ {0}, NEW z \in BOOLEAN
  PROVE  HaveBytes(RunsOf(buffer, z), z)
<1> DEFINE map == MapByChunks(Size)
           r == RunsOf(buffer, z)
<1>1. IsMap(map, 0, Size) /\ Size \in Nat
  BY ChunkedMapIsMap, SizeAssumption
<1>2. \A v : (\E j \in 1..Len(r) : v \in Covers(r[j])) <=>
               \E k \in 1..Len(map) : Visited(map[k], z) /\ v \in Covers(map[k])
  BY RunsUnfold
<1> HIDE DEF map, r
<1>3. \A j \in 1..Len(map) : map[j] \in AnyExtent /\ Honest(map[j])
  BY <1>1, MapIsOrdered
<1>4. /\ \A v \in 0..(Size - 1) : \E j \in 1..Len(map) : v \in Covers(map[j])
      /\ \A j \in 1..Len(map) : Covers(map[j]) \subseteq 0..(Size - 1)
  BY <1>1, TilesCoverRange DEF IsMap
<1>5. \A j \in 1..Len(map) : \A v \in Covers(map[j]) : v \in Offsets /\ KindOf(v) = map[j].kind
  BY <1>3, <1>4 DEF Honest, Offsets
<1>6. ASSUME NEW k \in 1..Len(map), NEW v \in Covers(map[k])
      PROVE  v \in Offsets /\ (Visited(map[k], z) <=> (DeviceByte(v).by = "zero" => z))
  BY <1>5, ByOfKind DEF Visited
<1>7. \A v \in Offsets : \E k \in 1..Len(map) : v \in Covers(map[k])
  BY <1>4 DEF Offsets
<1>8. \A v : (\E j \in 1..Len(r) : v \in Covers(r[j])) <=> v \in Offsets /\ (DeviceByte(v).by = "zero" => z)
  BY <1>2, <1>6, <1>7
<1>9. HaveBytes(r, z)
  BY <1>8 DEF HaveBytes
<1> QED
  BY <1>9 DEF r

\* Whether a walk can go no further than a byte.
Stops(v, fail) ==
  /\ v \in Offsets
  /\ DeviceByte(v).by = "missing" \/ (DeviceByte(v).by = "unresolved" /\ fail)

\* A run ends the walk exactly when a byte of it does.
LEMMA EndsWhereStopped ==
  ASSUME Ready, NEW fail \in BOOLEAN, NEW e, Honest(e), Covers(e) \subseteq Offsets
  PROVE  EndsWalk(e, fail) <=> \E v \in Covers(e) : Stops(v, fail)
<1>1. ASSUME NEW v \in Covers(e)
      PROVE  /\ v \in Offsets /\ KindOf(v) = e.kind
             /\ e.kind = "mapped" <=> DeviceByte(v).by \in {"file", "missing"}
             /\ e.kind = "unresolved" <=> DeviceByte(v).by = "unresolved"
  BY ByOfKind DEF Honest
<1>2. e.off \in Covers(e)
  BY CoversItsFirst DEF Honest
<1>3. ASSUME NEW v \in Covers(e), Stops(v, fail) PROVE EndsWalk(e, fail)
  BY <1>1, <1>3 DEF Stops, EndsWalk, ReadFails
<1>4. CASE e.kind = "mapped"
  <2>1. ASSUME EndsWalk(e, fail) PROVE \E v \in Covers(e) : Stops(v, fail)
    <3>1. PICK v \in Covers(e) : DeviceByte(v).by \in {"missing", "unresolved"}
      BY <1>4, <2>1 DEF EndsWalk, ReadFails
    <3> QED
      BY <1>1, <1>4, <3>1 DEF Stops
  <2> QED
    BY <1>3, <2>1
<1>5. CASE e.kind # "mapped"
  <2>1. ASSUME EndsWalk(e, fail) PROVE Stops(e.off, fail)
    BY <1>1, <1>2, <1>5, <2>1 DEF EndsWalk, Stops
  <2> QED
    BY <1>2, <1>3, <2>1
<1> QED
  BY <1>4, <1>5

\* A byte of an extent lies between its ends.
LEMMA InsideExtent ==
  ASSUME NEW e \in AnyExtent, NEW v \in Covers(e)
  PROVE  v \in Nat /\ e.off <= v /\ v < EndOf(e) /\ v - e.off < e.len /\ e.off \in Nat /\ EndOf(e) \in Nat
<1>1. e.off \in Nat /\ e.len \in Nat /\ EndOf(e) = e.off + e.len
  BY ExtentFields DEF EndOf
<1> QED
  BY <1>1 DEF Covers

\* The runs of a stream are what a visitor is due.
LEMMA StreamVisits ==
  ASSUME Ready, NEW buffer \in Nat \ {0}, NEW z \in BOOLEAN, NEW fail \in BOOLEAN,
         NEW a, a.buffer = buffer, a.zeroes = z, a.fail = fail, a.err = StreamOf(buffer, z, fail).err,
         NEW bytes,
         LET s == StreamOf(buffer, z, fail).runs IN \A v : v \in bytes <=> \E j \in 1..Len(s) : v \in Covers(s[j])
  PROVE  Streamed(a, bytes)
<1> DEFINE r == RunsOf(buffer, z)
           s == StreamOf(buffer, z, fail).runs
           owed == {v \in Offsets : DeviceByte(v).by = "zero" => z}
           stops == {v \in Offsets : DeviceByte(v).by = "missing" \/ (DeviceByte(v).by = "unresolved" /\ fail)}
<1>1. /\ r \in Seq(AnyExtent) /\ AllHonest(r) /\ Ordered(r)
      /\ \A j \in 1..Len(r) : r[j].kind = "mapped" => r[j].len <= buffer
  BY RunsUnfold
<1>2. \A v : (\E j \in 1..Len(r) : v \in Covers(r[j])) <=> v \in owed
  <2>1. HaveBytes(r, z)
    BY RunsHaveBytes
  <2> HIDE DEF r
  <2> QED
    BY <2>1 DEF HaveBytes
<1>3. PICK n \in 0..Len(r) : EndsAt(s, a.err, r, n, fail)
  BY StreamUnfolds
<1>4. \A v : v \in bytes <=> \E j \in 1..Len(s) : v \in Covers(s[j])
  OBVIOUS
<1> HIDE DEF r, s
<1>5. /\ Len(s) = n /\ (\A j \in 1..n : s[j] = r[j] /\ ~EndsWalk(r[j], fail))
      /\ a.err = (n # Len(r)) /\ (a.err => EndsWalk(r[n + 1], fail))
  BY <1>3 DEF EndsAt
<1>6. Len(r) \in Nat /\ n \in Nat /\ n <= Len(r)
  BY <1>1
<1>7. \A j \in 1..Len(r) : r[j] \in AnyExtent /\ Honest(r[j])
  BY <1>1, ElementOfSeq DEF AllHonest
<1>8. ASSUME NEW j \in 1..Len(r), NEW v \in Covers(r[j])
      PROVE  v \in owed /\ v \in Nat /\ r[j].off <= v /\ v < EndOf(r[j]) /\ r[j].off \in Nat /\ EndOf(r[j]) \in Nat
  BY <1>2, <1>7, InsideExtent
<1>9. \A v : v \in bytes <=> \E j \in 1..n : v \in Covers(r[j])
  BY <1>4, <1>5
<1>10. \A v : v \in stops <=> Stops(v, fail)
  BY DEF Stops
<1>11. ASSUME NEW v \in stops PROVE \E j \in 1..Len(r) : v \in Covers(r[j])
  <2>1. v \in owed
    OBVIOUS
  <2> QED
    BY <1>2, <2>1
<1>12. \A j \in 1..Len(r) : EndsWalk(r[j], fail) <=> \E v \in Covers(r[j]) : v \in stops
  <2> SUFFICES ASSUME NEW j \in 1..Len(r) PROVE EndsWalk(r[j], fail) <=> \E v \in Covers(r[j]) : v \in stops
    OBVIOUS
  <2>1. Honest(r[j]) /\ Covers(r[j]) \subseteq Offsets
    BY <1>7, <1>8
  <2> HIDE DEF stops
  <2> QED
    BY <1>10, <2>1, EndsWhereStopped
<1>13. CASE ~a.err
  <2>1. n = Len(r)
    BY <1>5, <1>13
  <2>2. stops = {}
    <3> SUFFICES ASSUME NEW v \in stops PROVE FALSE
      BY Zenon
    <3>1. PICK j \in 1..Len(r) : v \in Covers(r[j])
      BY <1>11
    <3> HIDE DEF stops
    <3> QED
      BY <1>5, <1>12, <2>1, <3>1
  <2>3. bytes = owed
    BY <1>2, <1>9, <2>1
  <2> QED
    BY <1>13, <2>2, <2>3 DEF Streamed
<1>14. CASE a.err
  <2> DEFINE e == r[n + 1]
             p == e.off
  <2>1. n + 1 \in 1..Len(r) /\ EndsWalk(e, fail)
    <3>1. n # Len(r) /\ EndsWalk(r[n + 1], fail)
      BY <1>5, <1>14
    <3> HIDE DEF stops, owed
    <3> QED
      BY <1>6, <3>1
  <2>2. e \in AnyExtent /\ Honest(e) /\ p \in Nat /\ EndOf(e) \in Nat /\ p \in Covers(e) /\ p < EndOf(e)
    BY <1>7, <1>8, <2>1, CoversItsFirst
  <2>3. PICK x \in Covers(e) : x \in stops
    BY <1>12, <2>1
  <2> HIDE DEF e, p
  <2>4. \A j \in 1..n : j \in 1..Len(r) /\ EndOf(r[j]) <= p
    <3> SUFFICES ASSUME NEW j \in 1..n PROVE j \in 1..Len(r) /\ EndOf(r[j]) <= p
      OBVIOUS
    <3>1. j \in 1..Len(r) /\ j < n + 1
      BY <1>6
    <3> QED
      BY <1>1, <2>1, <3>1, OrderedThroughout DEF e, p
  <2>5. \A j \in 1..Len(r) : j \notin 1..n => p <= r[j].off
    <3> SUFFICES ASSUME NEW j \in 1..Len(r), j \notin 1..n PROVE p <= r[j].off
      OBVIOUS
    <3>1. j = n + 1 \/ n + 1 < j
      BY <1>6
    <3>2. CASE j = n + 1
      BY <2>2, <3>2 DEF e, p
    <3>3. CASE n + 1 < j
      <4>1. EndOf(e) <= r[j].off
        BY <1>1, <2>1, <3>3, OrderedThroughout DEF e
      <4>2. r[j].off \in Nat
        BY <1>7, ExtentFields
      <4> QED
        BY <2>2, <4>1, <4>2
    <3> QED
      BY <3>1, <3>2, <3>3
  <2>6. \A v \in stops : p <= v
    <3> SUFFICES ASSUME NEW v \in stops PROVE p <= v
      OBVIOUS
    <3>1. PICK j \in 1..Len(r) : v \in Covers(r[j])
      BY <1>11
    <3>2. j \notin 1..n
      <4> HIDE DEF stops
      <4> QED
        BY <1>5, <1>12, <3>1
    <3>3. p <= r[j].off /\ r[j].off <= v /\ r[j].off \in Nat /\ v \in Nat
      BY <1>8, <2>5, <3>1, <3>2
    <3> QED
      BY <2>2, <3>3
  <2>7. stops \in SUBSET Nat
    BY SizeAssumption DEF Offsets
  <2>8. PICK u \in stops : \A v \in stops : u <= v
    <3> HIDE DEF stops
    <3> QED
      BY <2>3, <2>7, LeastExists
  <2>9. u \in Nat /\ p <= u /\ p \in 0..u /\ u <= x /\ x \in Nat /\ x < EndOf(e)
    <3>1. u \in Nat /\ p <= u /\ u <= x
      BY <2>3, <2>6, <2>7, <2>8
    <3>2. x \in Nat /\ x < EndOf(e)
      BY <2>2, <2>3, InsideExtent
    <3> QED
      BY <2>2, <3>1, <3>2
  <2>10. u \in Covers(e) /\ \A v \in p..(u - 1) : v \in Covers(e)
    BY <2>2, <2>9 DEF Covers, p
  <2>11. bytes = {v \in owed : v < p}
    <3>1. ASSUME NEW v \in bytes PROVE v \in owed /\ v < p
      <4>1. PICK j \in 1..n : v \in Covers(r[j])
        BY <1>9
      <4>2. v \in owed /\ v < EndOf(r[j]) /\ EndOf(r[j]) <= p /\ v \in Nat /\ EndOf(r[j]) \in Nat
        BY <1>8, <2>4, <4>1
      <4> QED
        BY <2>2, <4>2
    <3>2. ASSUME NEW v \in owed, v < p PROVE v \in bytes
      <4>1. PICK j \in 1..Len(r) : v \in Covers(r[j])
        BY <1>2
      <4>2. j \in 1..n
        <5> SUFFICES ASSUME j \notin 1..n PROVE FALSE
          OBVIOUS
        <5>1. p <= r[j].off /\ r[j].off <= v /\ v \in Nat /\ r[j].off \in Nat
          BY <1>8, <2>5, <4>1
        <5> QED
          BY <2>2, <3>2, <5>1
      <4> QED
        BY <1>9, <4>1, <4>2
    <3> HIDE DEF owed
    <3> QED
      BY <3>1, <3>2
  <2>12. ASSUME NEW v \in Covers(e)
         PROVE  /\ v \in Offsets /\ KindOf(v) = e.kind
                /\ e.kind = "mapped" <=> DeviceByte(v).by \in {"file", "missing"}
                /\ e.kind = "unresolved" <=> DeviceByte(v).by = "unresolved"
    <3>1. v \in owed
      BY <1>8, <2>1 DEF e
    <3>2. v \in Offsets /\ KindOf(v) = e.kind
      BY <2>2, <3>1 DEF Honest
    <3> QED
      BY <3>2, ByOfKind
  <2>13. e.kind = "mapped" \/ (e.kind = "unresolved" /\ fail)
    BY <2>1 DEF EndsWalk
  <2>14. CASE e.kind = "mapped"
    <3>1. ASSUME NEW v \in p..(u - 1) PROVE DeviceByte(v).by = "file" /\ u - v < a.buffer
      <4>1. v \in Covers(e) /\ v < u /\ v \in Nat /\ p <= v
        BY <2>2, <2>9, <2>10
      <4>2. v \notin stops
        BY <2>8, <2>9, <4>1
      <4>3. DeviceByte(v).by # "missing"
        BY <2>12, <4>1, <4>2
      <4>4. u - p < e.len /\ e.len <= buffer /\ e.len \in Nat
        <5>1. u - p < e.len
          BY <2>2, <2>10, InsideExtent DEF p
        <5>2. e.len <= buffer /\ e.len \in Nat
          BY <1>1, <2>1, <2>2, <2>14, ExtentFields DEF e
        <5> QED
          BY <5>1, <5>2
      <4>5. u - v < buffer
        BY <2>2, <2>9, <4>1, <4>4
      <4> QED
        BY <2>12, <2>14, <4>1, <4>3, <4>5
    <3>2. DeviceByte(u).by # "unresolved"
      BY <2>10, <2>12, <2>14
    <3> QED
      BY <1>14, <2>8, <2>9, <2>11, <3>1, <3>2 DEF Streamed
  <2>15. CASE e.kind = "unresolved" /\ fail
    <3>1. p \in stops
      BY <2>2, <2>12, <2>15
    <3>2. u = p
      BY <2>2, <2>8, <2>9, <3>1
    <3>3. \A v \in p..(u - 1) : FALSE
      BY <2>2, <3>2
    <3> QED
      BY <1>14, <2>8, <2>9, <2>11, <3>2, <3>3 DEF Streamed
  <2> QED
    BY <2>13, <2>14, <2>15
<1> QED
  BY <1>13, <1>14

\* The one answer of a disk with no parent: its own file at the byte's offset.
LEMMA OffsetIsHonest ==
  ASSUME Ready, NEW v \in Offsets, img[0].kind # "diff", img[0].kind = "fixed" \/ HasPayload(img[0], v)
  PROVE  Normal(Extent(v, v + 1, "mapped", FileOffset(img[0], v), 0))
<1> DEFINE e == Extent(v, v + 1, "mapped", FileOffset(img[0], v), 0)
<1>1. /\ v \in Nat /\ v + 1 <= Size /\ v \in 0..(Size - 1) /\ Size \in Nat /\ 0 \in Positions /\ 0 \in 0..(Last + 1)
  BY SizeAssumption, LastAssumption DEF Offsets, Positions
<1>2. WellFormed(img[0])
  BY <1>1, ImagesWellFormed
<1>3. Supplier(img[0], v) = "file"
  BY <1>1, <1>2, SupplierByBlock DEF WellFormed
<1>4. FileOffset(img[0], v) \in Nat
  <2>1. img[0].bs \in Nat \ {0} /\ img[0].at[v \div img[0].bs] \in Nat
    BY <1>1, <1>2 DEF WellFormed
  <2>2. (v % img[0].bs) \in Nat
    BY <1>1, <2>1
  <2>3. img[0].at[v \div img[0].bs] + (v % img[0].bs) \in Nat
    BY <2>1, <2>2
  <2> QED
    BY <1>1, <2>3 DEF FileOffset, BlockIndex, OffsetInBlock
<1>5. /\ e.off = v /\ e.len = 1 /\ e.kind = "mapped" /\ e.file = FileOffset(img[0], v) /\ e.idx = 0
      /\ EndOf(e) = v + 1 /\ e \in AnyExtent
  BY <1>1, <1>4 DEF Extent, EndOf, AnyExtent, Kinds
<1>6. Owner(v) = 0 /\ 0 \in 0..LastLinked
  <2>1. LastLinked \in Nat
    BY LastLinkedIs
  <2>2. 0 \in 0..LastLinked /\ \A n \in 0..(0 - 1) : FALSE
    BY <2>1
  <2>3. Supplier(img[0], v) # "parent"
    BY <1>3
  <2> QED
    BY <2>1, <2>2, <2>3, NearestIsFirstSupplier DEF Owner
<1>7. KindOf(v) = "mapped"
  BY <1>2, <1>3, <1>6, KindBySupplier DEF KindOf
<1> HIDE DEF e
<1>8. \A w \in Covers(e) : w = v
  BY <1>1, <1>5 DEF Covers
<1>9. e.file + (v - e.off) = FileOffset(img[e.idx], v)
  BY <1>1, <1>4, <1>5
<1>10. Normal(e)
  BY <1>1, <1>5, <1>6, <1>7, <1>8, <1>9 DEF Normal, Honest
<1> QED
  BY <1>10 DEF e

-----------------------------------------------------------------------------
(* The invariant: the answer is what the operation asked for gives of the   *)
(* chain as it is attached.                                                 *)

OffsetOf(v) ==
  IF img[0].kind # "diff" /\ (img[0].kind = "fixed" \/ HasPayload(img[0], v))
    THEN <<Extent(v, v + 1, "mapped", FileOffset(img[0], v), 0)>> ELSE <<>>

NoAnswer == asked = [op |-> "none"] /\ answer = <<>>
RangeAnswer(r) ==
  /\ r[1] < Size
  /\ asked = [op |-> "map", from |-> r[1], to |-> Least(r[1] + r[2], Size)]
  /\ answer = IF r[2] = 0 THEN <<>> ELSE MapOf(r[1], r[2])
DiskAnswer(c) == asked = [op |-> "all", chunk |-> c] /\ answer = MapByChunks(c)
ChangeAnswer(s) == asked = [op |-> "changed", since |-> s] /\ answer = ChangedOf(s, Size)
OffsetAnswer(v) == asked = [op |-> "offset", at |-> v] /\ answer = OffsetOf(v)
StreamAnswer(b, z, f) ==
  /\ asked = [op |-> "stream", buffer |-> b, zeroes |-> z, fail |-> f, err |-> StreamOf(b, z, f).err]
  /\ answer = StreamOf(b, z, f).runs

Answered ==
  \/ NoAnswer
  \/ \E r \in Ranges : RangeAnswer(r)
  \/ \E c \in Chunks : DiskAnswer(c)
  \/ \E s \in 1..(Last + 1) : ChangeAnswer(s)
  \/ \E v \in Offsets : OffsetAnswer(v)
  \/ \E b \in Buffers, z, f \in BOOLEAN : StreamAnswer(b, z, f)

IInv == Ready /\ Answered

\* Nothing the operations compute changes while the chain does not.
LEMMA SameChainSameAnswers ==
  ASSUME img' = img, linked' = linked
  PROVE  /\ \A a, b : MapOf(a, b)' = MapOf(a, b)
         /\ \A c : MapByChunks(c)' = MapByChunks(c)
         /\ \A s : ChangedOf(s, Size)' = ChangedOf(s, Size)
         /\ \A b, z, f : StreamOf(b, z, f)' = StreamOf(b, z, f)
         /\ \A v : OffsetOf(v)' = OffsetOf(v)
<1>1. raw' = raw
  BY DEF raw
<1>2. \A a, b : MapOf(a, b)' = MapOf(a, b)
  BY <1>1 DEF MapOf
<1>3. \A c : MapByChunks(c)' = MapByChunks(c)
  BY <1>1 DEF MapByChunks, MapOf
<1>4. \A s : ChangedOf(s, Size)' = ChangedOf(s, Size)
  BY <1>1 DEF ChangedOf, MapByChunks, MapOf
<1>5. \A b, z, f : StreamOf(b, z, f)' = StreamOf(b, z, f)
  BY <1>1 DEF StreamOf, RunsOf, MapByChunks, MapOf, EndsWalk, ReadFails, DeviceByte, LastLinked
<1>6. \A v : OffsetOf(v)' = OffsetOf(v)
  BY DEF OffsetOf
<1> QED
  BY <1>2, <1>3, <1>4, <1>5, <1>6

LEMMA InitAnswered == Init => IInv
  BY DEF Init, IInv, Ready, Answered, NoAnswer

LEMMA StepAnswered == IInv /\ [Next]_vars => IInv'
<1> SUFFICES ASSUME IInv, [Next]_vars PROVE IInv'
  OBVIOUS
<1>0. Ready /\ Answered
  BY DEF IInv
<1>1. ASSUME NEW b \in Buffers, NEW z \in BOOLEAN, NEW f \in BOOLEAN, Stream(b, z, f) PROVE IInv'
  <2>1. img' = img /\ linked' = linked
    BY <1>1 DEF Stream
  <2>2. StreamOf(b, z, f)' = StreamOf(b, z, f)
    BY <2>1, SameChainSameAnswers
  <2>3. StreamAnswer(b, z, f)'
    BY <1>1, <2>2 DEF Stream, StreamAnswer
  <2> QED
    BY <1>0, <2>1, <2>3 DEF IInv, Ready, Answered
<1>2. ASSUME NEW v \in Offsets, VirtualToFileOffset(v) PROVE IInv'
  <2>1. img' = img /\ linked' = linked
    BY <1>2 DEF VirtualToFileOffset
  <2>2. OffsetOf(v)' = OffsetOf(v)
    BY <2>1, SameChainSameAnswers
  <2>3. asked' = [op |-> "offset", at |-> v] /\ answer' = OffsetOf(v)
    BY <1>2 DEF VirtualToFileOffset, OffsetOf
  <2>4. OffsetAnswer(v)'
    BY <2>2, <2>3 DEF OffsetAnswer
  <2>5. Answered'
    BY <2>4 DEF Answered, Offsets
  <2> QED
    BY <1>0, <2>1, <2>5 DEF IInv, Ready
<1>3. ASSUME NEW i \in Positions, SetParent(i) PROVE IInv'
  <2>1. i \in 0..(Last - 1)
    BY <1>3, LastAssumption DEF Positions, SetParent
  <2>2. img' = img /\ linked' = linked \cup {i} /\ NoAnswer'
    BY <1>3 DEF SetParent, NoAnswer
  <2>3. linked' \in SUBSET (0..(Last - 1))
    BY <1>0, <2>1, <2>2 DEF Ready
  <2> QED
    BY <1>0, <2>2, <2>3 DEF IInv, Ready, Answered
<1>4. ASSUME NEW r \in Ranges, Extents(r) PROVE IInv'
  <2>1. img' = img /\ linked' = linked
    BY <1>4 DEF Extents
  <2>2. MapOf(r[1], r[2])' = MapOf(r[1], r[2])
    BY <2>1, SameChainSameAnswers
  <2>3. RangeAnswer(r)'
    BY <1>4, <2>2 DEF Extents, RangeAnswer
  <2> QED
    BY <1>0, <2>1, <2>3 DEF IInv, Ready, Answered
<1>5. ASSUME NEW c \in Chunks, AllExtentsContext(c) PROVE IInv'
  <2>1. img' = img /\ linked' = linked
    BY <1>5 DEF AllExtentsContext
  <2>2. MapByChunks(c)' = MapByChunks(c)
    BY <2>1, SameChainSameAnswers
  <2>3. DiskAnswer(c)'
    BY <1>5, <2>2 DEF AllExtentsContext, DiskAnswer
  <2> QED
    BY <1>0, <2>1, <2>3 DEF IInv, Ready, Answered
<1>6. ASSUME NEW s \in 1..(Last + 1), ChangedExtents(s, Size) PROVE IInv'
  <2>1. img' = img /\ linked' = linked
    BY <1>6 DEF ChangedExtents
  <2>2. ChangedOf(s, Size)' = ChangedOf(s, Size)
    BY <2>1, SameChainSameAnswers
  <2>3. ChangeAnswer(s)'
    BY <1>6, <2>2 DEF ChangedExtents, ChangeAnswer
  <2> QED
    BY <1>0, <2>1, <2>3 DEF IInv, Ready, Answered
<1>7. CASE UNCHANGED vars
  <2>1. img' = img /\ linked' = linked /\ asked' = asked /\ answer' = answer
    BY <1>7 DEF vars
  <2>2. /\ \A a, b : MapOf(a, b)' = MapOf(a, b)
        /\ \A c : MapByChunks(c)' = MapByChunks(c)
        /\ \A s : ChangedOf(s, Size)' = ChangedOf(s, Size)
        /\ \A b, z, f : StreamOf(b, z, f)' = StreamOf(b, z, f)
        /\ \A v : OffsetOf(v)' = OffsetOf(v)
    BY <2>1, SameChainSameAnswers
  <2>3. ASSUME NoAnswer PROVE NoAnswer'
    BY <2>1, <2>3 DEF NoAnswer
  <2>4. ASSUME NEW r \in Ranges, RangeAnswer(r) PROVE RangeAnswer(r)'
    BY <2>1, <2>2, <2>4 DEF RangeAnswer
  <2>5. ASSUME NEW c \in Chunks, DiskAnswer(c) PROVE DiskAnswer(c)'
    BY <2>1, <2>2, <2>5 DEF DiskAnswer
  <2>6. ASSUME NEW s \in 1..(Last + 1), ChangeAnswer(s) PROVE ChangeAnswer(s)'
    BY <2>1, <2>2, <2>6 DEF ChangeAnswer
  <2>7. ASSUME NEW v \in Offsets, OffsetAnswer(v) PROVE OffsetAnswer(v)'
    BY <2>1, <2>2, <2>7 DEF OffsetAnswer
  <2>8. ASSUME NEW b \in Buffers, NEW z \in BOOLEAN, NEW f \in BOOLEAN, StreamAnswer(b, z, f)
        PROVE  StreamAnswer(b, z, f)'
    BY <2>1, <2>2, <2>8 DEF StreamAnswer
  <2>9. Answered'
    BY <1>0, <2>3, <2>4, <2>5, <2>6, <2>7, <2>8 DEF Answered, Offsets
  <2> QED
    BY <1>0, <2>1, <2>9 DEF IInv, Ready
<1>8. CASE Take
  <2>1. img' = img /\ linked' = linked /\ NoAnswer'
    BY <1>8 DEF Take, NoAnswer
  <2> QED
    BY <1>0, <2>1 DEF IInv, Ready, Answered
<1>9. CASE Call
  BY <1>1, <1>2, <1>3, <1>4, <1>5, <1>6, <1>9 DEF Call
<1> QED
  BY <1>7, <1>8, <1>9 DEF Next

LEMMA AlwaysAnswered == Spec => []IInv
<1> QED
  BY InitAnswered, StepAnswered, PTL DEF Spec

-----------------------------------------------------------------------------
(* What the invariant says of the answers.                                  *)

\* Every answer is made of honest extents.
LEMMA AnswersAreHonest ==
  ASSUME IInv
  PROVE  answer \in Seq(AnyExtent) /\ AllHonest(answer)
<1>0. Ready /\ Answered /\ Size \in Nat \ {0}
  BY SizeAssumption DEF IInv
<1>1. <<>> \in Seq(AnyExtent) /\ AllHonest(<<>>)
  <2>1. <<>> \in Seq(AnyExtent) /\ Len(<<>>) = 0 /\ \A n \in 1..0 : FALSE
    OBVIOUS
  <2> QED
    BY <2>1 DEF AllHonest
<1>2. ASSUME NEW s, NEW a, NEW b, IsMap(s, a, b) PROVE s \in Seq(AnyExtent) /\ AllHonest(s)
  BY <1>2 DEF IsMap, Tiles, AllHonest, Normal
<1>3. CASE NoAnswer
  BY <1>1, <1>3 DEF NoAnswer
<1>4. ASSUME NEW r \in Ranges, RangeAnswer(r) PROVE answer \in Seq(AnyExtent) /\ AllHonest(answer)
  <2>1. CASE r[2] = 0
    BY <1>1, <1>4, <2>1 DEF RangeAnswer
  <2>2. CASE r[2] # 0
    <3>1. r[1] \in Offsets /\ r[2] \in Nat
      BY <1>0, <1>4, RangesAssumption DEF RangeAnswer, Offsets
    <3>2. IsMap(MapOf(r[1], r[2]), r[1], Least(r[1] + r[2], Size))
      BY <1>0, <3>1, MapOfIsMap
    <3> QED
      BY <1>2, <1>4, <2>2, <3>2 DEF RangeAnswer
  <2> QED
    BY <2>1, <2>2
<1>5. ASSUME NEW c \in Chunks, DiskAnswer(c) PROVE answer \in Seq(AnyExtent) /\ AllHonest(answer)
  <2>1. c \in Nat \ {0}
    BY ChunksAssumption
  <2>2. IsMap(MapByChunks(c), 0, Size)
    BY <1>0, <2>1, ChunkedMapIsMap
  <2> QED
    BY <1>2, <1>5, <2>2 DEF DiskAnswer
<1>6. ASSUME NEW s \in 1..(Last + 1), ChangeAnswer(s) PROVE answer \in Seq(AnyExtent) /\ AllHonest(answer)
  <2>1. PICK q : /\ ChangedOf(s, Size) = Merge(q) /\ q \in Seq(AnyExtent)
                 /\ AllHonest(q) /\ Ordered(q)
    BY <1>0, ChangedUnfolds
  <2>2. Merge(q) \in Seq(AnyExtent) /\ \A j \in 1..Len(Merge(q)) : Normal(Merge(q)[j])
    BY <2>1, MergeOfHonest
  <2> QED
    BY <1>6, <2>1, <2>2 DEF ChangeAnswer, AllHonest, Normal
<1>7. ASSUME NEW v \in Offsets, OffsetAnswer(v) PROVE answer \in Seq(AnyExtent) /\ AllHonest(answer)
  <2> DEFINE e == Extent(v, v + 1, "mapped", FileOffset(img[0], v), 0)
  <2>1. CASE img[0].kind # "diff" /\ (img[0].kind = "fixed" \/ HasPayload(img[0], v))
    <3>1. Honest(e)
      BY <1>0, <2>1, OffsetIsHonest DEF Normal
    <3>2. answer = <<e>>
      BY <1>7, <2>1 DEF OffsetAnswer, OffsetOf
    <3>3. <<e>> \in Seq(AnyExtent) /\ Len(<<e>>) = 1 /\ <<e>>[1] = e
      BY <3>1, OneIsPart DEF Honest
    <3>4. \A n \in 1..1 : n = 1
      OBVIOUS
    <3> HIDE DEF e
    <3> QED
      BY <3>1, <3>2, <3>3, <3>4 DEF AllHonest
  <2>2. CASE ~(img[0].kind # "diff" /\ (img[0].kind = "fixed" \/ HasPayload(img[0], v)))
    <3>1. answer = <<>>
      BY <1>7, <2>2 DEF OffsetAnswer, OffsetOf
    <3> QED
      BY <1>1, <3>1
  <2> QED
    BY <2>1, <2>2
<1>8. ASSUME NEW b \in Buffers, NEW z \in BOOLEAN, NEW f \in BOOLEAN, StreamAnswer(b, z, f)
      PROVE  answer \in Seq(AnyExtent) /\ AllHonest(answer)
  <2>1. b \in Nat \ {0}
    BY ChunksAssumption
  <2>2. StreamOf(b, z, f).runs \in Seq(AnyExtent) /\ AllHonest(StreamOf(b, z, f).runs)
    BY <1>0, <2>1, StreamIsHonest
  <2> QED
    BY <1>8, <2>2 DEF StreamAnswer
<1> QED
  BY <1>0, <1>3, <1>4, <1>5, <1>6, <1>7, <1>8 DEF Answered

\* What an honest extent says holds of every byte of it.
LEMMA HonestAgreesWithRead ==
  ASSUME Ready, NEW e, Honest(e)
  PROVE  /\ e.off \in Offsets /\ e.len \in 1..(Size - e.off)
         /\ e.kind \in Kinds /\ e.file \in Nat /\ e.idx \in 0..(Last + 1)
         /\ e.kind = "mapped" => \A v \in Covers(e) : DeviceByte(v) = FromFile(e.idx, e.file + v - e.off)
         /\ e.kind = "unresolved" => e.idx = LastLinked + 1 /\ \A v \in Covers(e) : DeviceByte(v) = [by |-> "unresolved"]
         /\ e.kind \in {"zero", "zeroed-by-child"} => \A v \in Covers(e) : DeviceByte(v) = [by |-> "zero"]
<1>1. /\ e \in AnyExtent /\ EndOf(e) <= Size /\ Size \in Nat
      /\ e.off \in Nat /\ e.len \in Nat \ {0} /\ e.kind \in Kinds /\ e.file \in Nat /\ e.idx \in 0..(Last + 1)
      /\ EndOf(e) = e.off + e.len
  BY SizeAssumption, ExtentFields DEF Honest
<1>2. e.off \in Offsets /\ e.len \in 1..(Size - e.off)
  BY <1>1 DEF Offsets
<1>3. \A v \in Covers(e) : v \in Offsets /\ v \in Nat /\ KindOf(v) = e.kind
  BY <1>1 DEF Honest, Covers, Offsets
<1>4. e.off \in Covers(e)
  BY <1>1, CoversItsFirst
<1>5. ASSUME e.kind = "mapped", NEW v \in Covers(e) PROVE DeviceByte(v) = FromFile(e.idx, e.file + v - e.off)
  <2>1. DeviceByte(v) = FromFile(Owner(v), FileOffset(img[Owner(v)], v))
    BY <1>3, <1>5, KindTellsRead
  <2>2. Owner(v) = e.idx /\ FileOffset(img[e.idx], v) = e.file + (v - e.off)
    BY <1>5 DEF Honest
  <2>3. e.file + (v - e.off) = e.file + v - e.off
    BY <1>1, <1>3
  <2> QED
    BY <2>1, <2>2, <2>3
<1>6. e.kind = "unresolved" => e.idx = LastLinked + 1 /\ \A v \in Covers(e) : DeviceByte(v) = [by |-> "unresolved"]
  BY <1>3, <1>4, KindTellsRead DEF Honest
<1>7. e.kind \in {"zero", "zeroed-by-child"} => \A v \in Covers(e) : DeviceByte(v) = [by |-> "zero"]
  BY <1>3, KindTellsRead
<1> QED
  BY <1>1, <1>2, <1>5, <1>6, <1>7

LEMMA AnswersAreTyped == IInv => TypeOK
<1> SUFFICES ASSUME IInv PROVE TypeOK
  OBVIOUS
<1>1. Ready /\ answer \in Seq(AnyExtent) /\ AllHonest(answer)
  BY AnswersAreHonest DEF IInv
<1>2. DOMAIN answer = 1..Len(answer)
  BY <1>1
<1>3. \A k \in DOMAIN answer : Honest(answer[k])
  BY <1>1, <1>2 DEF AllHonest
<1>4. linked \subseteq 0..(Last - 1)
  BY <1>1 DEF Ready
<1> QED
  BY <1>1, <1>3, <1>4, HonestAgreesWithRead DEF TypeOK

LEMMA AnswersAgreeWithRead == IInv => MapAgreesWithRead
<1> SUFFICES ASSUME IInv, NEW k \in DOMAIN answer, NEW v \in Covers(answer[k])
             PROVE  LET e == answer[k] IN
                    CASE e.kind = "mapped"     -> DeviceByte(v) = FromFile(e.idx, e.file + v - e.off)
                      [] e.kind = "unresolved" -> DeviceByte(v) = [by |-> "unresolved"] /\ e.idx = LastLinked + 1
                      [] OTHER                 -> DeviceByte(v) = [by |-> "zero"]
  BY Zenon DEF MapAgreesWithRead
<1> DEFINE e == answer[k]
<1>1. Ready /\ answer \in Seq(AnyExtent) /\ AllHonest(answer)
  BY AnswersAreHonest DEF IInv
<1>2. k \in 1..Len(answer)
  BY <1>1
<1>3. Honest(e)
  BY <1>1, <1>2 DEF AllHonest
<1>4. /\ e.kind \in Kinds
      /\ e.kind = "mapped" => DeviceByte(v) = FromFile(e.idx, e.file + v - e.off)
      /\ e.kind = "unresolved" => e.idx = LastLinked + 1 /\ DeviceByte(v) = [by |-> "unresolved"]
      /\ e.kind \in {"zero", "zeroed-by-child"} => DeviceByte(v) = [by |-> "zero"]
  BY <1>1, <1>3, HonestAgreesWithRead
<1>5. CASE e.kind = "mapped"
  <2>1. e.kind # "unresolved"
    BY <1>5
  <2> QED
    BY <1>4, <1>5, <2>1, Zenon
<1>6. CASE e.kind = "unresolved"
  <2>1. e.kind # "mapped"
    BY <1>6
  <2> QED
    BY <1>4, <1>6, <2>1, Zenon
<1>7. CASE e.kind \in {"zero", "zeroed-by-child"}
  <2>1. e.kind # "mapped" /\ e.kind # "unresolved"
    BY <1>7
  <2> QED
    BY <1>4, <1>7, <2>1, Zenon
<1> QED
  BY <1>4, <1>5, <1>6, <1>7 DEF Kinds

LEMMA ChunksDoNotShow == IInv => ChunkingInvisible
<1> SUFFICES ASSUME IInv, asked.op = "all" PROVE answer = MapOf(0, Size)
  BY DEF ChunkingInvisible
<1>1. PICK c \in Chunks : DiskAnswer(c)
  BY DEF IInv, Answered, NoAnswer, RangeAnswer, ChangeAnswer, OffsetAnswer, StreamAnswer
<1>2. c \in Nat \ {0}
  BY ChunksAssumption
<1> QED
  BY <1>1, <1>2, ChunkedMapIsMapOf DEF IInv, DiskAnswer

\* The union the properties speak of, as the bytes of the extents.
LEMMA CoveredBytes ==
  ASSUME NEW s \in Seq(AnyExtent), NEW R, \A v : (\E j \in 1..Len(s) : v \in Covers(s[j])) <=> v \in R
  PROVE  UNION {Covers(s[k]) : k \in DOMAIN s} = R
<1>1. DOMAIN s = 1..Len(s)
  OBVIOUS
<1>2. ASSUME NEW v PROVE v \in UNION {Covers(s[k]) : k \in DOMAIN s} <=> \E j \in 1..Len(s) : v \in Covers(s[j])
  BY <1>1
<1> QED
  BY <1>2

LEMMA NothingCovered ==
  UNION {Covers(<<>>[k]) : k \in DOMAIN <<>>} = {} /\ DOMAIN <<>> = {}
<1>1. DOMAIN <<>> = {}
  OBVIOUS
<1> QED
  BY <1>1

LEMMA TilesAreExact ==
  ASSUME NEW a \in Nat, NEW b \in Nat, NEW s, Tiles(s, a, b)
  PROVE  /\ UNION {Covers(s[k]) : k \in DOMAIN s} = a..(b - 1)
         /\ \A k \in DOMAIN s : k > 1 => s[k].off = EndOf(s[k - 1])
<1>1. s \in Seq(AnyExtent) /\ Len(s) \in Nat /\ DOMAIN s = 1..Len(s)
  BY LenProperties DEF Tiles
<1>2. \A v : (\E j \in 1..Len(s) : v \in Covers(s[j])) <=> v \in a..(b - 1)
  BY TilesCoverRange
<1>3. ASSUME NEW k \in DOMAIN s, k > 1 PROVE s[k].off = EndOf(s[k - 1])
  <2>1. k - 1 \in 1..(Len(s) - 1) /\ (k - 1) + 1 = k
    BY <1>1, <1>3
  <2> QED
    BY <2>1 DEF Tiles
<1> QED
  BY <1>1, <1>2, <1>3, CoveredBytes

LEMMA AnswersTileRange == IInv => MapTilesRange
<1> SUFFICES ASSUME IInv PROVE MapTilesRange
  OBVIOUS
<1>0. Ready /\ Answered /\ Size \in Nat \ {0}
  BY SizeAssumption DEF IInv
<1> DEFINE covered == UNION {Covers(answer[k]) : k \in DOMAIN answer}
           touching == \A k \in DOMAIN answer : k > 1 => answer[k].off = EndOf(answer[k - 1])
<1>1. ASSUME NEW r \in Ranges, RangeAnswer(r) PROVE MapTilesRange
  <2> DEFINE from == r[1]
             to == Least(r[1] + r[2], Size)
  <2>1. from \in Offsets /\ from \in Nat /\ r[2] \in Nat /\ to \in Nat
    BY <1>0, <1>1, RangesAssumption DEF RangeAnswer, Offsets, Least
  <2>2. asked.op = "map" /\ asked.from = from /\ asked.to = to
    BY <1>1 DEF RangeAnswer
  <2>3. covered = from..(to - 1) /\ touching
    <3>1. CASE r[2] = 0
      <4>1. answer = <<>>
        BY <1>1, <3>1 DEF RangeAnswer
      <4>2. from..(to - 1) = {}
        BY <1>0, <2>1, <3>1 DEF Least, Offsets
      <4> QED
        BY <4>1, <4>2, NothingCovered
    <3>2. CASE r[2] # 0
      <4>1. answer = MapOf(from, r[2])
        BY <1>1, <3>2 DEF RangeAnswer
      <4>2. Tiles(MapOf(from, r[2]), from, to)
        BY <1>0, <2>1, MapOfIsMap DEF IsMap
      <4> HIDE DEF from, to
      <4> QED
        BY <2>1, <4>1, <4>2, TilesAreExact
    <3> QED
      BY <3>1, <3>2
  <2>4. asked.op # "stream" /\ asked.op # "all"
    BY <2>2
  <2> HIDE DEF covered, touching, from, to
  <2> QED
    BY <2>2, <2>3, <2>4, Zenon DEF MapTilesRange, covered, touching
<1>2. ASSUME NEW c \in Chunks, DiskAnswer(c) PROVE MapTilesRange
  <2>1. c \in Nat \ {0} /\ 0 \in Nat /\ Size \in Nat
    BY <1>0, ChunksAssumption
  <2>2. asked.op = "all" /\ answer = MapByChunks(c)
    BY <1>2 DEF DiskAnswer
  <2>3. Tiles(MapByChunks(c), 0, Size)
    BY <1>0, <2>1, ChunkedMapIsMap DEF IsMap
  <2>4. covered = Offsets /\ touching
    BY <2>1, <2>2, <2>3, TilesAreExact DEF Offsets
  <2>5. asked.op # "stream" /\ asked.op # "map"
    BY <2>2
  <2> HIDE DEF covered, touching
  <2> QED
    BY <2>2, <2>4, <2>5, Zenon DEF MapTilesRange, covered, touching
<1>3. ASSUME NEW b \in Buffers, NEW z \in BOOLEAN, NEW f \in BOOLEAN, StreamAnswer(b, z, f) PROVE MapTilesRange
  <2> DEFINE s == StreamOf(b, z, f).runs
             inOrder == \A k \in DOMAIN answer : k > 1 => answer[k].off >= EndOf(answer[k - 1])
             inBuffer == \A k \in DOMAIN answer : answer[k].kind = "mapped" => answer[k].len <= asked.buffer
  <2>1. b \in Nat \ {0}
    BY ChunksAssumption
  <2>2. asked.op = "stream" /\ asked.buffer = b /\ asked.zeroes = z /\ asked.fail = f /\ answer = s
    BY <1>3 DEF StreamAnswer
  <2>3. /\ s \in Seq(AnyExtent) /\ Ordered(s)
        /\ \A j \in 1..Len(s) : s[j].kind = "mapped" => s[j].len <= b
    BY <1>0, <2>1, StreamIsHonest
  <2>4. \A bytes : (\A v : v \in bytes <=> \E j \in 1..Len(s) : v \in Covers(s[j])) => Streamed(asked, bytes)
    BY <1>0, <1>3, <2>1, <2>2, StreamVisits DEF StreamAnswer
  <2> HIDE DEF s
  <2>5. Streamed(asked, covered)
    BY <2>2, <2>3, <2>4, CoveredBytes
  <2>6. Len(s) \in Nat /\ DOMAIN s = 1..Len(s)
    BY <2>3, LenProperties
  <2>7. inBuffer
    BY <2>2, <2>3, <2>6
  <2>8. inOrder
    <3> SUFFICES ASSUME NEW k \in 1..Len(s), k > 1 PROVE s[k].off >= EndOf(s[k - 1])
      BY <2>2, <2>6
    <3>1. k - 1 \in 1..(Len(s) - 1) /\ (k - 1) + 1 = k /\ k - 1 \in 1..Len(s)
      BY <2>6
    <3>2. EndOf(s[k - 1]) <= s[k].off
      BY <2>3, <3>1 DEF Ordered
    <3>3. EndOf(s[k - 1]) \in Nat /\ s[k].off \in Nat
      BY <2>3, <3>1, ElementOfSeq, ExtentFields
    <3> QED
      BY <3>2, <3>3
  <2>9. asked.op # "all" /\ asked.op # "map"
    BY <2>2
  <2> HIDE DEF covered, inOrder, inBuffer
  <2> QED
    BY <2>2, <2>5, <2>7, <2>8, <2>9, Zenon DEF MapTilesRange, covered, inOrder, inBuffer
<1>4. asked.op \notin {"map", "all", "stream"} => MapTilesRange
  BY Zenon DEF MapTilesRange
<1> QED
  BY <1>0, <1>1, <1>2, <1>3, <1>4 DEF Answered, NoAnswer, ChangeAnswer, OffsetAnswer

-----------------------------------------------------------------------------
(* The change report.                                                       *)

\* What a change report says, byte by byte.
LEMMA ChangedHasBytes ==
  ASSUME Ready, NEW since \in 1..(Last + 1), NEW v
  PROVE  LET c == ChangedOf(since, Size) IN
         /\ c \in Seq(AnyExtent)
         /\ HasByte(c, Len(c), "mapped", v) <=> v \in Offsets /\ KindOf(v) = "mapped" /\ Owner(v) < since
         /\ HasByte(c, Len(c), "unresolved", v) <=> v \in Offsets /\ KindOf(v) = "unresolved" /\ LastLinked + 1 <= since
         /\ HasByte(c, Len(c), "zeroed-by-child", v) =>
              /\ v \in Offsets /\ KindOf(v) = "zeroed-by-child"
              /\ \E w \in Offsets : KindOf(w) = "zeroed-by-child" /\ Owner(w) < since
         /\ v \in Offsets /\ KindOf(v) = "zeroed-by-child"
              /\ (\A w \in Offsets : KindOf(w) = "zeroed-by-child" => Owner(w) < since)
            => HasByte(c, Len(c), "zeroed-by-child", v)
<1> DEFINE c == ChangedOf(since, Size)
           map == MapByChunks(Size)
           N == Len(map)
           Has(K) == \E j \in 1..N : Kept(map[j], since) /\ map[j].kind = K /\ v \in Covers(map[j])
<1>1. Size \in Nat \ {0} /\ Size \in Nat /\ since \in Nat
  BY SizeAssumption, LastAssumption
<1>2. PICK q : /\ c = Merge(q) /\ q \in Seq(AnyExtent) /\ AllHonest(q) /\ Ordered(q)
               /\ KeptBytes(q, map, since)
  BY <1>1, ChangedUnfolds
<1>3. /\ c \in Seq(AnyExtent)
      /\ \A K : HasByte(c, Len(c), K, v) <=> HasByte(q, Len(q), K, v)
  BY <1>2, MergeOfHonest
<1>4. \A K : HasByte(c, Len(c), K, v) <=> Has(K)
  BY <1>2, <1>3 DEF KeptBytes
<1>5. IsMap(map, 0, Size)
  BY <1>1, ChunkedMapIsMap
<1> HIDE DEF c, map
<1>6. \A j \in 1..N : Honest(map[j]) /\ map[j] \in AnyExtent
  BY <1>1, <1>5, MapIsOrdered
<1>7. /\ \A w \in 0..(Size - 1) : \E j \in 1..N : w \in Covers(map[j])
      /\ \A j \in 1..N : Covers(map[j]) \subseteq 0..(Size - 1)
  BY <1>1, <1>5, TilesCoverRange DEF IsMap
<1>8. ASSUME NEW j \in 1..N, NEW w \in Covers(map[j])
      PROVE  /\ w \in Offsets /\ KindOf(w) = map[j].kind
             /\ map[j].off \in Offsets /\ KindOf(map[j].off) = map[j].kind
             /\ map[j].kind = "mapped" => Owner(w) = map[j].idx
             /\ map[j].kind = "unresolved" => map[j].idx = LastLinked + 1
             /\ map[j].kind = "zeroed-by-child" => map[j].idx = Owner(map[j].off)
  <2>1. map[j].off \in Covers(map[j])
    BY <1>6, CoversItsFirst
  <2>2. w \in Offsets /\ KindOf(w) = map[j].kind /\ map[j].off \in Offsets /\ KindOf(map[j].off) = map[j].kind
    BY <1>6, <1>7, <2>1 DEF Honest, Offsets
  <2>3. /\ map[j].kind = "mapped" => Owner(w) = map[j].idx
        /\ map[j].kind \in {"zeroed-by-child", "unresolved"} => map[j].idx = Owner(map[j].off)
    BY <1>6 DEF Honest
  <2>4. map[j].kind = "unresolved" => Owner(map[j].off) = LastLinked + 1
    BY <2>2, KindTellsRead
  <2> QED
    BY <2>2, <2>3, <2>4
<1>9. v \in Offsets => \E j \in 1..N : v \in Covers(map[j])
  BY <1>7 DEF Offsets
<1>10. HasByte(c, Len(c), "mapped", v) <=> v \in Offsets /\ KindOf(v) = "mapped" /\ Owner(v) < since
  <2>1. \A j \in 1..N : map[j].kind = "mapped" => (Kept(map[j], since) <=> map[j].idx < since)
    BY DEF Kept, IsWrite
  <2> QED
    BY <1>4, <1>8, <1>9, <2>1
<1>11. HasByte(c, Len(c), "unresolved", v) <=> v \in Offsets /\ KindOf(v) = "unresolved" /\ LastLinked + 1 <= since
  <2>1. \A j \in 1..N : map[j].kind = "unresolved" => (Kept(map[j], since) <=> map[j].idx <= since)
    BY DEF Kept
  <2> QED
    BY <1>4, <1>8, <1>9, <2>1
<1>12. \A j \in 1..N : map[j].kind = "zeroed-by-child" => (Kept(map[j], since) <=> map[j].idx < since)
  BY DEF Kept, IsWrite
<1>13. HasByte(c, Len(c), "zeroed-by-child", v) =>
              /\ v \in Offsets /\ KindOf(v) = "zeroed-by-child"
              /\ \E w \in Offsets : KindOf(w) = "zeroed-by-child" /\ Owner(w) < since
  <2> SUFFICES ASSUME HasByte(c, Len(c), "zeroed-by-child", v)
               PROVE  /\ v \in Offsets /\ KindOf(v) = "zeroed-by-child"
                      /\ \E w \in Offsets : KindOf(w) = "zeroed-by-child" /\ Owner(w) < since
    OBVIOUS
  <2>1. PICK j \in 1..N : Kept(map[j], since) /\ map[j].kind = "zeroed-by-child" /\ v \in Covers(map[j])
    BY <1>4
  <2> QED
    BY <1>8, <1>12, <2>1
<1>14. ASSUME v \in Offsets, KindOf(v) = "zeroed-by-child",
              \A w \in Offsets : KindOf(w) = "zeroed-by-child" => Owner(w) < since
       PROVE  HasByte(c, Len(c), "zeroed-by-child", v)
  <2>1. PICK j \in 1..N : v \in Covers(map[j])
    BY <1>9, <1>14
  <2>2. map[j].kind = "zeroed-by-child" /\ map[j].idx < since
    BY <1>8, <1>14, <2>1
  <2> QED
    BY <1>4, <1>12, <2>1, <2>2
<1> QED
  BY <1>3, <1>10, <1>11, <1>13, <1>14 DEF c

\* The bytes a report covers with a kind are those its extents of the kind have.
LEMMA ReportedBytes ==
  ASSUME answer \in Seq(AnyExtent), NEW K, NEW v
  PROVE  v \in Reported({K}) <=> HasByte(answer, Len(answer), K, v)
<1>1. DOMAIN answer = 1..Len(answer)
  OBVIOUS
<1>2. v \in Reported({K}) <=> \E k \in 1..Len(answer) : answer[k].kind \in {K} /\ v \in Covers(answer[k])
  BY <1>1 DEF Reported
<1> QED
  BY <1>2 DEF HasByte

LEMMA ReportsDataExactly == IInv => ChangedDataIsExact
<1> SUFFICES ASSUME IInv, asked.op = "changed"
             PROVE  /\ Reported({"mapped"}) = {v \in Offsets : Owner(v) < asked.since /\ DeviceByte(v).by \in {"file", "missing"}}
                    /\ Reported({"unresolved"}) = {v \in Offsets : DeviceByte(v).by = "unresolved" /\ LastLinked + 1 <= asked.since}
  BY DEF ChangedDataIsExact
<1>1. PICK s \in 1..(Last + 1) : ChangeAnswer(s)
  BY DEF IInv, Answered, NoAnswer, RangeAnswer, DiskAnswer, OffsetAnswer, StreamAnswer
<1>2. Ready /\ asked.since = s /\ answer = ChangedOf(s, Size)
  BY <1>1 DEF IInv, ChangeAnswer
<1>3. /\ answer \in Seq(AnyExtent)
      /\ \A v : HasByte(answer, Len(answer), "mapped", v) <=> v \in Offsets /\ KindOf(v) = "mapped" /\ Owner(v) < s
      /\ \A v : HasByte(answer, Len(answer), "unresolved", v) <=> v \in Offsets /\ KindOf(v) = "unresolved" /\ LastLinked + 1 <= s
  BY <1>2, ChangedHasBytes
<1>4. ASSUME NEW v
      PROVE  /\ v \in Reported({"mapped"}) <=> v \in Offsets /\ Owner(v) < s /\ DeviceByte(v).by \in {"file", "missing"}
             /\ v \in Reported({"unresolved"}) <=> v \in Offsets /\ DeviceByte(v).by = "unresolved" /\ LastLinked + 1 <= s
  BY <1>2, <1>3, ReportedBytes, ByOfKind
<1> QED
  BY <1>2, <1>4

LEMMA ReportsOneClearingExactly == IInv => OneChildClearingIsExact
<1> SUFFICES ASSUME IInv, asked.op = "changed",
                    \A i, j \in Positions : img[i].kind = "diff" /\ img[j].kind = "diff" => i = j
             PROVE  Reported({"zeroed-by-child"}) =
                      {v \in Offsets : Owner(v) < asked.since /\ DeviceByte(v).by = "zero" /\ img[Owner(v)].kind = "diff"}
  BY DEF OneChildClearingIsExact, ChangedClearingIsExact
<1>1. PICK s \in 1..(Last + 1) : ChangeAnswer(s)
  BY DEF IInv, Answered, NoAnswer, RangeAnswer, DiskAnswer, OffsetAnswer, StreamAnswer
<1>2. Ready /\ asked.since = s /\ answer = ChangedOf(s, Size)
  BY <1>1 DEF IInv, ChangeAnswer
<1>3. LastLinked \in Nat /\ \A i \in 0..LastLinked : i \in Positions
  BY <1>2, LastLinkedIs, LastAssumption DEF Positions
<1>4. ASSUME NEW v \in Offsets
      PROVE  KindOf(v) = "zeroed-by-child" <=>
               Owner(v) \in 0..LastLinked /\ DeviceByte(v).by = "zero" /\ img[Owner(v)].kind = "diff"
  BY <1>2, KindTellsRead, ByOfKind
<1>5. ASSUME NEW v \in Offsets, NEW w \in Offsets, KindOf(v) = "zeroed-by-child", KindOf(w) = "zeroed-by-child"
      PROVE  Owner(v) = Owner(w)
  BY <1>3, <1>4, <1>5
<1>6. ASSUME NEW v \in Offsets, DeviceByte(v).by = "zero" PROVE Owner(v) \in 0..LastLinked
  BY <1>2, <1>6, KindTellsRead, ByOfKind
<1>7. ASSUME NEW v
      PROVE  v \in Reported({"zeroed-by-child"}) <=>
               v \in Offsets /\ Owner(v) < s /\ DeviceByte(v).by = "zero" /\ img[Owner(v)].kind = "diff"
  <2>1. /\ answer \in Seq(AnyExtent)
        /\ HasByte(answer, Len(answer), "zeroed-by-child", v) =>
              /\ v \in Offsets /\ KindOf(v) = "zeroed-by-child"
              /\ \E w \in Offsets : KindOf(w) = "zeroed-by-child" /\ Owner(w) < s
        /\ v \in Offsets /\ KindOf(v) = "zeroed-by-child"
              /\ (\A w \in Offsets : KindOf(w) = "zeroed-by-child" => Owner(w) < s)
           => HasByte(answer, Len(answer), "zeroed-by-child", v)
    BY <1>2, ChangedHasBytes
  <2>2. v \in Reported({"zeroed-by-child"}) <=> HasByte(answer, Len(answer), "zeroed-by-child", v)
    BY <2>1, ReportedBytes
  <2>3. ASSUME v \in Reported({"zeroed-by-child"})
        PROVE  v \in Offsets /\ Owner(v) < s /\ DeviceByte(v).by = "zero" /\ img[Owner(v)].kind = "diff"
    <3>1. v \in Offsets /\ KindOf(v) = "zeroed-by-child"
      BY <2>1, <2>2, <2>3
    <3>2. PICK w \in Offsets : KindOf(w) = "zeroed-by-child" /\ Owner(w) < s
      BY <2>1, <2>2, <2>3
    <3> QED
      BY <1>4, <1>5, <3>1, <3>2
  <2>4. ASSUME v \in Offsets, Owner(v) < s, DeviceByte(v).by = "zero", img[Owner(v)].kind = "diff"
        PROVE  v \in Reported({"zeroed-by-child"})
    <3>1. KindOf(v) = "zeroed-by-child"
      BY <1>4, <1>6, <2>4
    <3>2. \A w \in Offsets : KindOf(w) = "zeroed-by-child" => Owner(w) < s
      BY <1>5, <2>4, <3>1
    <3> QED
      BY <2>1, <2>2, <2>4, <3>1, <3>2
  <2> QED
    BY <2>3, <2>4
<1> QED
  BY <1>2, <1>7

-----------------------------------------------------------------------------
\* Every answer is a sequence of non-empty extents inside the device
\* (rawExtents, mergeExtents, Stream and VirtualToFileOffset).
THEOREM MapTyped == Spec => []TypeOK
<1> QED
  BY AlwaysAnswered, AnswersAreTyped, PTL

\* Whatever the tables and bitmaps say and however far the chain is attached,
\* every extent returned names, for each of its bytes, what ReadAt returns
\* there: merging never joins bytes that lie apart.
THEOREM MapsTellTheTruth == Spec => []MapAgreesWithRead
<1> QED
  BY AlwaysAnswered, AnswersAgreeWithRead, PTL

\* The map of any range tiles it up to the end of the device.  The runs of any
\* stream are in order, no longer than its buffer and, if it returns no error,
\* exactly the bytes it owes its visitor; if it returns one, exactly those before the
\* gap or before the piece whose read failed, on any chain, cut short or not.
THEOREM MapsLeaveNoGap == Spec => []MapTilesRange
<1> QED
  BY AlwaysAnswered, AnswersTileRange, PTL

\* AllExtentsContext gives one and the same map whatever its chunk length.
THEOREM ChunksNeverShow == Spec => []ChunkingInvisible
<1> QED
  BY AlwaysAnswered, ChunksDoNotShow, PTL

\* ChangedExtents reports exactly the bytes that disks nearer than the index keep,
\* and exactly the gaps that wait for a parent not beyond it.
THEOREM ReportsAreExact == Spec => []ChangedDataIsExact
<1> QED
  BY AlwaysAnswered, ReportsDataExactly, PTL

\* With one differencing disk in the chain ChangedExtents also reports exactly
\* the ranges that disk cleared.
THEOREM OneClearingReportsAreExact == Spec => []OneChildClearingIsExact
<1> QED
  BY AlwaysAnswered, ReportsOneClearingExactly, PTL
=============================================================================
