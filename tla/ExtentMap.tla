----------------------------- MODULE ExtentMap -----------------------------
(***************************************************************************)
(* The extent map of a differencing chain, and the change report built on  *)
(* it.  The map walks the same block tables and bitmaps as ReadAt but in   *)
(* code of its own: it must name, for every byte, the file and offset that *)
(* a read would return.  A disk's path is a function of its chain index    *)
(* wherever an extent keeps either, so extents carry the index only.       *)
(***************************************************************************)
EXTENDS DiskImage, Sequences

CONSTANTS
  Last,       \* the last position a chain can have
  Chains,     \* the chains to consider: functions from 0..Last to images
  Ranges,     \* the <<offset, length>> pairs a caller may map
  Chunks,     \* the chunk lengths a whole-disk walk may use
  Buffers     \* the lengths of data a stream may read at once

ASSUME LastAssumption   == Last \in Nat
ASSUME ChainsAssumption == \A chain \in Chains, i \in 0..Last : WellFormed(chain[i])
ASSUME RangesAssumption == Ranges \subseteq (Nat \X Nat)
ASSUME ChunksAssumption == Chunks \subseteq (Nat \ {0}) /\ Buffers \subseteq (Nat \ {0})

VARIABLES
  img,        \* the images of the chain, by position
  linked,     \* the positions whose parent is attached
  asked,      \* the last operation, its arguments, and of a stream if it failed
  answer      \* the extents it returned or, of a stream, visited

vars == <<img, linked, asked, answer>>

Positions == 0..Last
Offsets   == 0..(Size - 1)

Least(a, b) == IF a < b THEN a ELSE b

\* The last position reachable from the leaf over attached links, and the
\* reference content of the device attached so far.
LastLinked == CHOOSE i \in Positions : i \notin linked /\ 0..(i - 1) \subseteq linked
DeviceByte(v) == Content(img, 0, LastLinked, v)
Owner(v) == Nearest(img, 0, LastLinked, v)

-----------------------------------------------------------------------------
(* One disk.                                                                *)

\* Mutant: the length is where the extent ends.
ExtentEndForLength(from, to, kind, file, idx) ==
  [off |-> from, len |-> to, kind |-> kind, file |-> file, idx |-> idx]

Extent(from, to, kind, file, idx) ==
  [off |-> from, len |-> to - from, kind |-> kind, file |-> file, idx |-> idx]
EndOf(e) == e.off + e.len
Covers(e) == e.off..(EndOf(e) - 1)

\* Mutant: a range the child zeroed does not count as written.
IsWriteDataOnly(e) == e.kind = "mapped"

IsWrite(e) == e.kind \in {"mapped", "zeroed-by-child"}

\* The run an extent of one disk covers at most: the span of a block, or where
\* a bitmap decides, a sector (plain disk) or a run of alike sectors (child).
SpanEnd(im, at, end) ==
  IF im.kind = "fixed" THEN end ELSE Least(end, BlockEnd(im, at))

RunOf(im, at, end) ==
  LET span == SpanEnd(im, at, end)
      b    == BlockIndex(im, at)
      same == {v \in at..(span - 1) : \A w \in at..v :
                 Present(im, b, SectorIndex(im, w)) = Present(im, b, SectorIndex(im, at))}
  IN  IF im.kind = "diff" /\ Classify(im, b) = "perSector"
        THEN CHOOSE e \in (at + 1)..span : e - 1 \in same /\ e \notin same
      ELSE IF im.kind = "dynamic" /\ im.fmt = "VHDX" /\ im.state[b] = Partial
        THEN Least(span, SectorEnd(im, at))
        ELSE span

\* What one disk says of the run starting at `at`: its own extent, or "parent".
KindAt(im, at) ==
  IF im.kind = "fixed" THEN "mapped"
  ELSE LET b == BlockIndex(im, at) IN
       IF im.kind = "dynamic" THEN IF HasPayload(im, at) THEN "mapped" ELSE "zero"
       ELSE CASE Classify(im, b) = "zero"   -> "zeroed-by-child"
              [] Classify(im, b) = "parent" -> "parent"
              [] Classify(im, b) = "child"  -> IF HasPayload(im, at) THEN "mapped" ELSE "parent"
              [] OTHER -> IF ~Present(im, b, SectorIndex(im, at)) THEN "parent"
                          ELSE IF HasPayload(im, at) THEN "mapped" ELSE "zeroed-by-child"

\* The unmerged extents of [from, to) as seen from position i.  What a disk
\* does not supply is mapped by its parent, one index further out, or is
\* unresolved under the index the missing parent would have.
raw[r \in Positions \X (0..Size) \X (0..Size)] ==
  LET i == r[1]  from == r[2]  to == r[3]
      e == RunOf(img[i], from, to)
      k == KindAt(img[i], from)
      here == IF k # "parent"
                THEN <<Extent(from, e, k, IF k = "mapped" THEN FileOffset(img[i], from) ELSE 0, i)>>
              ELSE IF i \in linked THEN raw[<<i + 1, from, e>>]
              ELSE <<Extent(from, e, "unresolved", 0, i + 1)>>
  IN  IF from >= to THEN <<>> ELSE here \o raw[<<i, e, to>>]

-----------------------------------------------------------------------------
(* Merging.                                                                 *)

Normalize(e) == IF e.kind = "zero" THEN [e EXCEPT !.file = 0, !.idx = 0]
                ELSE IF e.kind = "unresolved" THEN [e EXCEPT !.file = 0] ELSE e

\* Mutant: data of two files may merge.
CanMergeAcrossFiles(a, b) ==
  /\ EndOf(a) = b.off
  /\ a.kind = b.kind
  /\ a.kind = "mapped"     => a.file + a.len = b.file
  /\ a.kind = "unresolved" => a.idx = b.idx

CanMerge(a, b) ==
  /\ EndOf(a) = b.off
  /\ a.kind = b.kind
  /\ a.kind = "mapped"     => a.idx = b.idx /\ a.file + a.len = b.file
  /\ a.kind = "unresolved" => a.idx = b.idx

\* Extents joined from the left; a joined extent keeps the first one's fields.
Merge(es) ==
  LET fold[k \in 0..Len(es)] ==
        IF k = 0 THEN <<>>
        ELSE LET done == fold[k - 1]
                 n    == Normalize(es[k])
             IN  IF done # <<>> /\ CanMerge(done[Len(done)], n)
                   THEN [done EXCEPT ![Len(done)].len = @ + n.len]
                   ELSE Append(done, n)
  IN  fold[Len(es)]

\* Extents: the map of a range, cut at the end of the device.
MapOf(from, len) == Merge(raw[<<0, from, Least(from + len, Size)>>])

\* Mutant: the cuts between chunks stay.
MapByChunksUnmerged(chunk) ==
  LET walk[at \in 0..(Size + chunk)] ==
        IF at >= Size THEN <<>>
        ELSE MapOf(at, Least(chunk, Size - at)) \o walk[at + chunk]
  IN  walk[0]

\* AllExtentsContext: chunk by chunk, merged again across the cuts.
MapByChunks(chunk) ==
  LET walk[at \in 0..(Size + chunk)] ==
        IF at >= Size THEN <<>>
        ELSE MapOf(at, Least(chunk, Size - at)) \o walk[at + chunk]
  IN  Merge(walk[0])

\* Mutant: the disk at `since` counts as changed too.
KeptInclusive(e, since) ==
  IF e.kind = "unresolved" THEN e.idx <= since ELSE IsWrite(e) /\ e.idx <= since

\* What a change report keeps: the writes of the disks nearer the leaf than
\* `since`, and the gaps left by a missing parent up to and including that index.
Kept(e, since) ==
  IF e.kind = "unresolved" THEN e.idx <= since ELSE IsWrite(e) /\ e.idx < since

\* ChangedExtents: what it keeps of the map of the disk, merged.
ChangedOf(since, chunk) ==
  LET map == MapByChunks(chunk)
      kept[k \in 0..Len(map)] ==
        IF k = 0 THEN <<>>
        ELSE kept[k - 1] \o (IF Kept(map[k], since) THEN <<map[k]>> ELSE <<>>)
  IN  Merge(kept[Len(map)])

\* Stream: the runs of the whole map, in order, which does not depend on the chunk
\* (ChunkingInvisible).  Data comes in pieces no longer than the buffer; zeroes are
\* left out unless asked for.
Piece(e, k, buffer) ==
  LET at == e.off + k * buffer
  IN  Extent(at, Least(at + buffer, EndOf(e)), e.kind, e.file + (at - e.off), e.idx)

Pieces(e, buffer) == [k \in 1..((e.len + buffer - 1) \div buffer) |-> Piece(e, k - 1, buffer)]

RunsOfExtent(e, buffer, includeZero) ==
  CASE e.kind = "mapped"     -> Pieces(e, buffer)
    [] e.kind = "unresolved" -> <<e>>
    [] OTHER                 -> IF includeZero THEN <<e>> ELSE <<>>

RunsOf(buffer, includeZero) ==
  LET map == MapByChunks(Size)
      walk[k \in 0..Len(map)] ==
        IF k = 0 THEN <<>> ELSE walk[k - 1] \o RunsOfExtent(map[k], buffer, includeZero)
  IN  walk[Len(map)]

\* A piece of data is read before it is handed over (stream.go:229), and the read
\* fails when ReadAt cannot give all its bytes: the file may be cut short there.
ReadFails(run) == \E v \in Covers(run) : DeviceByte(v).by \in {"missing", "unresolved"}

\* Mutant: the error of a read is dropped.
EndsWalkUnread(run, failOnUnresolved) == run.kind = "unresolved" /\ failOnUnresolved

\* What ends the walk with an error: a failed read, or a gap if it is to fail there.
EndsWalk(run, failOnUnresolved) ==
  \/ run.kind = "mapped" /\ ReadFails(run)
  \/ run.kind = "unresolved" /\ failOnUnresolved

\* The visitor is given the runs before the first that ends the walk.
StreamOf(buffer, includeZero, failOnUnresolved) ==
  LET runs == RunsOf(buffer, includeZero)
      ends == {k \in DOMAIN runs : EndsWalk(runs[k], failOnUnresolved)}
  IN  [err  |-> ends # {},
       runs |-> IF ends = {} THEN runs
                ELSE SubSeq(runs, 1, (CHOOSE k \in ends : \A j \in ends : k <= j) - 1)]

-----------------------------------------------------------------------------
Init ==
  /\ img \in Chains
  /\ linked = {}
  /\ asked = [op |-> "none"]
  /\ answer = <<>>

\* SetParent on the disk at position i.
SetParent(i) ==
  /\ i < Last /\ i \notin linked
  /\ img[i].kind = "diff"
  /\ linked' = linked \cup {i}
  /\ asked' = [op |-> "none"]
  /\ answer' = <<>>
  /\ UNCHANGED img

\* Extents(offset, length) on the leaf; past the end it is an error, and an
\* empty range has no extents.
Extents(r) ==
  /\ r[1] < Size
  /\ asked' = [op |-> "map", from |-> r[1], to |-> Least(r[1] + r[2], Size)]
  /\ answer' = IF r[2] = 0 THEN <<>> ELSE MapOf(r[1], r[2])
  /\ UNCHANGED <<img, linked>>

\* AllExtentsContext, with the length of its chunks made a parameter.
AllExtentsContext(chunk) ==
  /\ asked' = [op |-> "all", chunk |-> chunk]
  /\ answer' = MapByChunks(chunk)
  /\ UNCHANGED <<img, linked>>

\* ChangedExtents(sinceChainIndex); an index below one is refused.
ChangedExtents(since, chunk) ==
  /\ since >= 1
  /\ asked' = [op |-> "changed", since |-> since]
  /\ answer' = ChangedOf(since, chunk)
  /\ UNCHANGED <<img, linked>>

\* VirtualToFileOffset: a disk with no parent can answer with one offset; the
\* answer is an extent of one byte, or nothing when no single file offset holds it.
VirtualToFileOffset(v) ==
  LET im == img[0]
      mapped == /\ im.kind # "diff"
                /\ im.kind = "fixed" \/ HasPayload(im, v)
  IN  /\ asked' = [op |-> "offset", at |-> v]
      /\ answer' = IF mapped THEN <<Extent(v, v + 1, "mapped", FileOffset(im, v), 0)>> ELSE <<>>
      /\ UNCHANGED <<img, linked>>

\* Stream, with a visitor that takes every run.
Stream(buffer, includeZero, failOnUnresolved) ==
  \E walk \in {StreamOf(buffer, includeZero, failOnUnresolved)} :
    /\ asked' = [op |-> "stream", buffer |-> buffer, zeroes |-> includeZero, fail |-> failOnUnresolved,
                 err |-> walk.err]
    /\ answer' = walk.runs
    /\ UNCHANGED <<img, linked>>

\* The caller takes the answer before the next call.  No call leaves anything
\* behind, so it does not matter which came before.
Take ==
  /\ asked.op # "none"
  /\ asked' = [op |-> "none"]
  /\ answer' = <<>>
  /\ UNCHANGED <<img, linked>>

Call ==
  \/ \E b \in Buffers, z, f \in BOOLEAN : Stream(b, z, f)
  \/ \E v \in Offsets : VirtualToFileOffset(v)
  \/ \E i \in Positions : SetParent(i)
  \/ \E r \in Ranges : Extents(r)
  \/ \E c \in Chunks : AllExtentsContext(c)
  \/ \E s \in 1..(Last + 1) : ChangedExtents(s, Size)

Next == (asked.op = "none" /\ Call) \/ Take

Spec == Init /\ [][Next]_vars
-----------------------------------------------------------------------------
Kinds == {"zero", "mapped", "unresolved", "zeroed-by-child"}

\* The type of the answer: a sequence of non-empty extents inside the device.
TypeOK ==
  /\ linked \subseteq 0..(Last - 1)
  /\ \A k \in DOMAIN answer :
       /\ answer[k].off \in Offsets /\ answer[k].len \in 1..(Size - answer[k].off)
       /\ answer[k].kind \in Kinds
       /\ answer[k].file \in Nat /\ answer[k].idx \in 0..(Last + 1)

\* What a read makes of an offset of a disk's file.
FromFile(i, off) == IF off < img[i].fsize THEN [by |-> "file", disk |-> i, off |-> off]
                                         ELSE [by |-> "missing"]

\* A mapped extent names the very bytes a read returns, an extent that reads as
\* zero covers only zeroes, and an unresolved one only what a read refuses:
\* merging never makes an extent claim bytes another file or offset supplies
\* (extents.go: or the merged FileOffset would describe bytes that are not there).
MapAgreesWithRead ==
  \A k \in DOMAIN answer : LET e == answer[k] IN \A v \in Covers(e) :
    CASE e.kind = "mapped"     -> DeviceByte(v) = FromFile(e.idx, e.file + v - e.off)
      [] e.kind = "unresolved" -> DeviceByte(v) = [by |-> "unresolved"] /\ e.idx = LastLinked + 1
      [] OTHER                 -> DeviceByte(v) = [by |-> "zero"]

\* What a walk of the device gives its visitor.  One that returns no error gives
\* every byte that is data, or a gap, or a zero asked for; nothing on its way was
\* missing.  One that fails gives those below the point p it had reached when it met
\* the first byte u that cannot be had: p is u itself where a parent is wanted, and
\* where a file is cut short the piece of data that holds u is not given.
Streamed(a, bytes) ==
  LET owed  == {v \in Offsets : DeviceByte(v).by = "zero" => a.zeroes}
      stops == {v \in Offsets : \/ DeviceByte(v).by = "missing"
                                \/ DeviceByte(v).by = "unresolved" /\ a.fail}
  IN  IF ~a.err THEN bytes = owed /\ stops = {}
      ELSE \E u \in stops : \E p \in 0..u :
             /\ \A v \in stops : u <= v
             /\ bytes = {v \in owed : v < p}
             /\ \A v \in p..(u - 1) : DeviceByte(v).by = "file" /\ u - v < a.buffer
             /\ DeviceByte(u).by = "unresolved" => p = u

\* The extents of a range tile it: in order, no gap, no overlap, clamped to the
\* device (the contract of Extents in extents.go).  The runs of a stream come in
\* order, data in runs no longer than the buffer, and make up what Streamed says:
\* a failed read (stream.go:229) or a gap ends the walk with an error, no byte due
\* before that is skipped, and none beyond it is handed over.
MapTilesRange ==
  LET covered == UNION {Covers(answer[k]) : k \in DOMAIN answer}
      touching == \A k \in DOMAIN answer : k > 1 => answer[k].off = EndOf(answer[k - 1])
  IN  /\ asked.op = "map" => covered = asked.from..(asked.to - 1) /\ touching
      /\ asked.op = "all" => covered = Offsets /\ touching
      /\ asked.op = "stream" =>
           /\ Streamed(asked, covered)
           /\ \A k \in DOMAIN answer : k > 1 => answer[k].off >= EndOf(answer[k - 1])
           /\ \A k \in DOMAIN answer : answer[k].kind = "mapped" => answer[k].len <= asked.buffer

\* Walking the disk in chunks gives the map of the disk in one piece, whatever
\* the chunk length (AllExtentsContext: the result is identical to AllExtents).
ChunkingInvisible == asked.op = "all" => answer = MapOf(0, Size)

\* What a change report says of data: the data ranges are exactly the bytes a
\* disk nearer than `since` keeps in its file, and the gaps exactly the bytes
\* that wait for a parent whose index is not beyond `since`.
Reported(kinds) == UNION {Covers(answer[k]) : k \in {j \in DOMAIN answer : answer[j].kind \in kinds}}
ChangedDataIsExact ==
  asked.op = "changed" =>
    /\ Reported({"mapped"}) = {v \in Offsets : Owner(v) < asked.since /\ DeviceByte(v).by \in {"file", "missing"}}
    /\ Reported({"unresolved"}) = {v \in Offsets : DeviceByte(v).by = "unresolved" /\ LastLinked + 1 <= asked.since}

\* What a change report says of clearing: the ranges it reports as cleared are
\* exactly the zeroes that a differencing disk nearer than `since` put there,
\* so ranges supplied by a disk at or beyond it are not returned and none of
\* the nearer disks' clearing is lost (the contract of ChangedExtents).
ChangedClearingIsExact ==
  asked.op = "changed" =>
    Reported({"zeroed-by-child"}) =
      {v \in Offsets : /\ Owner(v) < asked.since
                       /\ DeviceByte(v).by = "zero"
                       /\ img[Owner(v)].kind = "diff"}

\* The same, where it holds: in a chain with one differencing disk there is no
\* other disk's clearing to join with.
OneChildClearingIsExact ==
  (\A i, j \in Positions : img[i].kind = "diff" /\ img[j].kind = "diff" => i = j) => ChangedClearingIsExact
=============================================================================
