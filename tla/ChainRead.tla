----------------------------- MODULE ChainRead -----------------------------
(***************************************************************************)
(* ReadAt over a differencing chain.  A read of the disk at position 0 is  *)
(* a loop over block-bounded segments; a run of sectors the image leaves   *)
(* to its parent is a nested ReadAt of the next position into the same     *)
(* buffer.  Every disk of a chain has the same address space and the       *)
(* nested call is handed a slice of the caller's buffer, so the buffer is  *)
(* one function of virtual offsets and a call is a range still to be       *)
(* filled.  One call per position can be active: frame[i], for i <= top.   *)
(***************************************************************************)
EXTENDS DiskImage

CONSTANTS
  Last,       \* the last position a chain can have
  Chains,     \* the chains to consider: functions from 0..Last to images
  Requests    \* the <<offset, length>> pairs a caller may ask for

ASSUME LastAssumption     == Last \in Nat
ASSUME RequestsAssumption == Requests \subseteq (Nat \X Nat)
ASSUME ChainsAssumption   == \A chain \in Chains, i \in 0..Last : WellFormed(chain[i])

VARIABLES
  img,        \* the images of the chain, by position
  linked,     \* the positions whose parent is attached
  pc,         \* "idle" or "reading"
  req,        \* the request being served
  frame,      \* position -> the range [at, end) its call still has to fill
  top,        \* the position whose call is running
  buf,        \* virtual offset -> what has been written there
  res         \* what the last completed call returned

vars == <<img, linked, pc, req, frame, top, buf, res>>

Positions == 0..Last
Offsets   == 0..(Size - 1)
Unset     == [by |-> "unset"]
ZeroByte  == [by |-> "zero"]
NoFrame   == [at |-> 0, end |-> 0]

Min2(a, b) == IF a < b THEN a ELSE b
Max2(a, b) == IF a > b THEN a ELSE b

-----------------------------------------------------------------------------
(* Resolution of one position of the chain.                                 *)

\* Whether the byte at v is the image's to supply, its parent's, or zero.
Disposition(im, v) ==
  IF im.kind # "diff" THEN "child"
  ELSE LET b == BlockIndex(im, v) IN
       IF Classify(im, b) # "perSector" THEN Classify(im, b)
       ELSE IF Present(im, b, SectorIndex(im, v)) THEN "child" ELSE "parent"

\* A call is served block by block; only a fixed VHD is read in one piece.
SegmentEnd(im, at, end) ==
  IF im.kind = "fixed" THEN end ELSE Min2(end, BlockEnd(im, at))

\* Mutant: the first sector decides for the whole block.
RunEndWholeBlock(im, at, end) == SegmentEnd(im, at, end)

\* Mutant: the last sector of a run is left out, so a run may be empty.
RunEndLastSectorOut(im, at, end) ==
  LET seg == SegmentEnd(im, at, end)
      b   == BlockIndex(im, at)
  IN  IF im.kind = "diff" /\ Classify(im, b) = "perSector"
        THEN Max2(at, Min2(seg, b * im.bs + SectorIndex(im, seg - 1) * im.ss))
        ELSE seg

\* In a block the sector bitmap decides, the run of sectors with one backing.
RunEnd(im, at, end) ==
  LET seg == SegmentEnd(im, at, end)
      b   == BlockIndex(im, at)
      s   == SectorIndex(im, at)
      same(r) == \A t \in s..r : Present(im, b, t) = Present(im, b, s)
      last == CHOOSE r \in s..SectorIndex(im, seg - 1) :
                same(r) /\ (r < SectorIndex(im, seg - 1) => ~same(r + 1))
  IN  IF im.kind = "diff" /\ Classify(im, b) = "perSector"
        THEN Min2(seg, b * im.bs + (last + 1) * im.ss)
        ELSE seg

\* What the image itself answers at v: the block readers return zeroes for a
\* block, or for a sector of a partially present block, that holds nothing.
OwnByte(i, v) ==
  LET im == img[i] IN
  IF Disposition(im, v) = "zero" \/ (im.kind # "fixed" /\ ~HasPayload(im, v))
    THEN ZeroByte
    ELSE [by |-> "file", disk |-> i, off |-> FileOffset(im, v)]

InFile(i, v) == OwnByte(i, v).by = "file" => OwnByte(i, v).off < img[i].fsize

\* Mutant: the byte that could not be read is counted as delivered.
ShortOfOneMore(im, at, v) == v + 1

\* How far a run gets when its file is cut short at v: a partially present
\* block is read sector by sector and an interrupted sector does not count.
ShortOf(im, at, v) ==
  IF im.fmt = "VHDX" /\ im.state[BlockIndex(im, v)] = Partial
    THEN Max2(at, BlockIndex(im, v) * im.bs + SectorIndex(im, v) * im.ss)
    ELSE v

-----------------------------------------------------------------------------
NoAnswer == [n |-> 0, err |-> "nil", data |-> [k \in {} |-> 0]]
Empty    == [v \in Offsets |-> Unset]
NoFrames == [i \in Positions |-> NoFrame]

\* The outermost call returns what is in the caller's buffer up to an offset.
\* An error unwinds every call: each adds what the calls below it delivered.
Answer(filled, upto, err) ==
  /\ res' = [n |-> upto - req[1], err |-> err,
             data |-> [k \in 0..(upto - req[1] - 1) |-> filled[req[1] + k]]]
  /\ pc' = "idle"
  /\ req' = <<0, 0>>
  /\ top' = 0
  /\ frame' = NoFrames
  /\ buf' = Empty
  /\ UNCHANGED <<img, linked>>

Init ==
  /\ img \in Chains
  /\ linked = {}
  /\ pc = "idle"
  /\ req = <<0, 0>>
  /\ frame = NoFrames
  /\ top = 0
  /\ buf = Empty
  /\ res = NoAnswer

\* SetParent on the disk at position i, between reads.
SetParent(i) ==
  /\ pc = "idle"
  /\ i < Last /\ i \notin linked
  /\ img[i].kind = "diff"
  /\ linked' = linked \cup {i}
  /\ UNCHANGED <<img, pc, req, frame, top, buf, res>>

\* The entry checks of VirtualDisk.ReadAt that answer without reading.
ReadNothing(r) ==
  /\ pc = "idle"
  /\ \/ /\ r[1] >= Size
        /\ res' = [NoAnswer EXCEPT !.err = "EOF"]
     \/ /\ r[1] < Size /\ r[2] = 0
        /\ res' = NoAnswer
  /\ UNCHANGED <<img, linked, pc, req, frame, top, buf>>

\* Mutant: the read is not clamped to the device.
BeginReadUnclamped(r) ==
  /\ pc = "idle"
  /\ r[1] < Size /\ r[2] > 0
  /\ pc' = "reading"
  /\ req' = r
  /\ top' = 0
  /\ frame' = [frame EXCEPT ![0] = [at |-> r[1], end |-> r[1] + r[2]]]
  /\ buf' = Empty
  /\ res' = NoAnswer
  /\ UNCHANGED <<img, linked>>

\* The read is clamped to the device and handed to the payload reader.
BeginRead(r) ==
  /\ pc = "idle"
  /\ r[1] < Size /\ r[2] > 0
  /\ pc' = "reading"
  /\ req' = r
  /\ top' = 0
  /\ frame' = [frame EXCEPT ![0] = [at |-> r[1], end |-> Min2(r[1] + r[2], Size)]]
  /\ buf' = Empty
  /\ res' = NoAnswer
  /\ UNCHANGED <<img, linked>>

Running == pc = "reading" /\ frame[top].at < frame[top].end

\* A run the image at the top answers itself, from its file or with zeroes.
ReadOwn ==
  LET at == frame[top].at
      e  == RunEnd(img[top], at, frame[top].end)
      cut == {v \in at..(e - 1) : ~InFile(top, v)}
      upto == IF cut = {} THEN e
              ELSE ShortOf(img[top], at, CHOOSE v \in cut : \A w \in cut : v <= w)
      filled == [v \in Offsets |-> IF at <= v /\ v < upto THEN OwnByte(top, v) ELSE buf[v]]
  IN  /\ Running
      /\ Disposition(img[top], at) # "parent"
      /\ IF cut = {}
           THEN /\ frame' = [frame EXCEPT ![top].at = e]
                /\ buf' = filled
                /\ UNCHANGED <<img, linked, pc, req, top, res>>
           ELSE Answer(filled, upto, "EOF")

\* Mutant: the parent is read from the start of the sector.
ReadParentWholeSector ==
  LET at == frame[top].at
      im == img[top]
  IN  /\ Running
      /\ Disposition(im, at) = "parent"
      /\ top \in linked
      /\ top' = top + 1
      /\ frame' = [frame EXCEPT ![top + 1] =
                     [at  |-> BlockIndex(im, at) * im.bs + SectorIndex(im, at) * im.ss,
                      end |-> RunEnd(im, at, frame[top].end)]]
      /\ UNCHANGED <<img, linked, pc, req, buf, res>>

\* A run the image leaves to its parent: a nested call for exactly that run.
ReadParent ==
  /\ Running
  /\ Disposition(img[top], frame[top].at) = "parent"
  /\ top \in linked
  /\ top' = top + 1
  /\ frame' = [frame EXCEPT ![top + 1] =
                 [at |-> frame[top].at,
                  end |-> RunEnd(img[top], frame[top].at, frame[top].end)]]
  /\ UNCHANGED <<img, linked, pc, req, buf, res>>

\* Mutant: a read that needs a missing parent stops without an error.
ParentMissingSilent ==
  /\ Running
  /\ Disposition(img[top], frame[top].at) = "parent"
  /\ top \notin linked
  /\ Answer(buf, frame[top].at, "nil")

\* The same with no parent attached: the read fails closed.
ParentMissing ==
  /\ Running
  /\ Disposition(img[top], frame[top].at) = "parent"
  /\ top \notin linked
  /\ Answer(buf, frame[top].at, "ErrParentRequired")

\* A nested call is complete; its caller goes on after the run.
Return ==
  /\ pc = "reading" /\ frame[top].at = frame[top].end
  /\ top > 0
  /\ top' = top - 1
  /\ frame' = [frame EXCEPT ![top - 1].at = frame[top].end, ![top] = NoFrame]
  /\ UNCHANGED <<img, linked, pc, req, buf, res>>

\* The outermost call is complete; EOF says it was clamped to the device.
Finish ==
  /\ pc = "reading" /\ frame[top].at = frame[top].end
  /\ top = 0
  /\ Answer(buf, frame[0].end, IF req[2] > Size - req[1] THEN "EOF" ELSE "nil")

ReadStep == ReadOwn \/ ReadParent \/ ParentMissing \/ Return \/ Finish

Next ==
  \/ \E i \in Positions : SetParent(i)
  \/ \E r \in Requests : ReadNothing(r) \/ BeginRead(r)
  \/ ReadStep

Spec == Init /\ [][Next]_vars

\* A ReadAt call runs in its caller's goroutine and never waits for anyone.
FairSpec == Spec /\ WF_vars(ReadStep)
-----------------------------------------------------------------------------
\* The last position reachable from the leaf over attached links.
LastLinked(links) == CHOOSE i \in Positions : i \notin links /\ 0..(i - 1) \subseteq links

\* The reference content of the device as it is attached now.
DeviceByte(v) == Content(img, 0, LastLinked(linked), v)

DeviceContent == LET last == LastLinked(linked) IN [v \in Offsets |-> Content(img, 0, last, v)]

Bytes == [by : {"file"}, disk : Positions, off : Nat] \cup [by : {"zero"}]

\* The type of every variable.
TypeOK ==
  /\ linked \subseteq 0..(Last - 1)
  /\ pc \in {"idle", "reading"}
  /\ req \in Nat \X Nat
  /\ frame \in [Positions -> [at : 0..Size, end : 0..Size]]
  /\ top \in Positions
  /\ buf \in [Offsets -> Bytes \cup {Unset}]
  /\ res.n \in 0..Size
  /\ res.err \in {"nil", "EOF", "ErrParentRequired"}

\* The calls in progress are nested: each was handed a range that lies inside
\* what its caller still has to fill and starts where the caller stopped, over
\* an attached link (Resolver.readPerSector hands out dst[start:end]).
NestedCalls ==
  pc = "reading" =>
    /\ frame[0].end = Min2(req[1] + req[2], Size)
    /\ \A i \in 0..top : req[1] <= frame[i].at /\ frame[i].at <= frame[i].end
    /\ \A i \in 0..(top - 1) :
         /\ i \in linked
         /\ frame[i].at <= frame[i + 1].at
         /\ frame[i + 1].end <= frame[i].end

\* Whatever a read in progress has put in the caller's buffer is the content of
\* the device there, and it has filled everything up to where it stands: no
\* child hole is read as zeroes, no parent byte shows through an override, and
\* nothing is written outside the request (vhdxunaligned_test.go, a read that
\* starts inside a sector of a partially present block, was once such a bug).
DeliveredIsContent ==
  pc = "reading" =>
    \A v \in Offsets :
      IF req[1] <= v /\ v < frame[top].at THEN buf[v] = DeviceByte(v)
      ELSE buf[v] = Unset

\* A completed read fails closed: with ErrParentRequired it stopped exactly at
\* a byte no attached image supplies, with no error it delivered the whole range
\* and met no such byte, and what an EOF delivers holds none either
\* (resolver.go, ErrParentRequired).
FailsClosed ==
  [][pc = "reading" /\ pc' = "idle" =>
       LET stop == req[1] + res'.n
           resolved == \A v \in req[1]..(stop - 1) : DeviceByte(v).by # "unresolved"
       IN  /\ resolved
           /\ res'.err = "nil" => stop = frame[0].end
           /\ res'.err = "ErrParentRequired" =>
                stop < frame[0].end /\ DeviceByte(stop).by = "unresolved"]_vars

\* The chain as one device that answers each call in a single step.
Served == INSTANCE Device WITH
            content <- DeviceContent,
            pending <- IF pc = "reading" THEN req ELSE <<>>,
            result  <- res
ImplementsDevice == Served!Spec

\* Every read returns, whatever the chain looks like.
ReadsReturn == pc = "reading" ~> pc = "idle"
=============================================================================
