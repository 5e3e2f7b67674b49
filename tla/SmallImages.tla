---------------------------- MODULE SmallImages ----------------------------
(***************************************************************************)
(* Small images for the model-checking modules: two blocks of two sectors  *)
(* of two bytes, so that a device of seven bytes cuts the last block and a *)
(* range can start and stop inside a sector.                               *)
(***************************************************************************)
EXTENDS DiskImage, TLC

Sectors == 0..1

\* The bitmap bits an image of two blocks of two sectors can have set: for a
\* VHD any sector of an allocated block, for a VHDX any of a partial block.
VHDBits(st)  == {bm \in [0..1 -> SUBSET Sectors] : \A b \in 0..1 : st[b] = None => bm[b] = {}}
VHDXBits(st) == {bm \in [{0} -> SUBSET (0..3)] :
                   \A b \in 0..1 : st[b] # Partial => bm[0] \cap {2 * b, 2 * b + 1} = {}}

\* Payload is laid out in block order after two bytes of headers or, swapped,
\* with the second block first.
Layouts == {[b \in 0..1 |-> 2 + 4 * b], [b \in 0..1 |-> 6 - 4 * b]}

Image(fmt, kind, st, bm, at, fsize) ==
  [fmt |-> fmt, kind |-> kind, bs |-> 4, ss |-> 2,
   state |-> st, bitmap |-> bm, at |-> at, fsize |-> fsize]

VHDImages(kind, sts, lay, fsizes) ==
  UNION {{Image("VHD", kind, st, bm, at, fs) : bm \in VHDBits(st), at \in lay, fs \in fsizes} : st \in sts}
VHDXImages(kind, sts, lay, fsizes) ==
  UNION {{Image("VHDX", kind, st, bm, at, fs) : bm \in VHDXBits(st), at \in lay, fs \in fsizes} : st \in sts}

InOrder == {[b \in 0..1 |-> 2 + 4 * b]}
VHDStates  == [0..1 -> {None, Full}]
VHDXStates == [0..1 -> {None, Zero, Full, Partial}]

Fixed == [fmt |-> "VHD", kind |-> "fixed", bs |-> Size, ss |-> 2,
          state |-> [b \in {0} |-> Full], bitmap |-> [b \in {0} |-> {}],
          at |-> [b \in {0} |-> 0], fsize |-> 10]

\* A base with blocks half the size, four of them in two chunks.
SmallBlocks(st) ==
  [fmt |-> "VHDX", kind |-> "dynamic", bs |-> 2, ss |-> 1, state |-> st,
   bitmap |-> [c \in 0..1 |-> {1, 2}], at |-> [b \in 0..3 |-> 2 * b], fsize |-> 8]

\* Chains of three whose leaf ranges over everything, whose middle is general
\* in one block, and whose base is fixed, dynamic, or itself lacks a parent.
Leaves == VHDImages("diff", VHDStates, InOrder, {10}) \cup VHDXImages("diff", VHDXStates, InOrder, {10})
Middles == VHDImages("diff", {st \in VHDStates : st[0] = Full /\ st[1] = None}, InOrder, {10})
             \cup VHDXImages("diff", {st \in VHDXStates : st[0] # Full /\ st[1] = None}, InOrder, {10})
Bases == {Fixed, SmallBlocks((0 :> Full) @@ (1 :> Partial) @@ (2 :> None) @@ (3 :> Partial)),
          Image("VHDX", "diff", [b \in 0..1 |-> IF b = 0 THEN Undefined ELSE None],
                [c \in {0} |-> {}], [b \in 0..1 |-> 2 + 4 * b], 10)}
MCChains == {[i \in 0..2 |-> IF i = 0 THEN l ELSE IF i = 1 THEN m ELSE b] :
               l \in Leaves, m \in Middles, b \in Bases}
=============================================================================
