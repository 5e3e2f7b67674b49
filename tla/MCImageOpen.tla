---------------------------- MODULE MCImageOpen ----------------------------
(***************************************************************************)
(* Fresh images: fixed VHDs with either footer, one of them holding data   *)
(* that looks like a footer; a growing VHD of two blocks; VHDX images of   *)
(* three blocks in one, two and three chunks, with sound tables, with one  *)
(* faulty table of two, and with one faulty metadata item.                 *)
(***************************************************************************)
EXTENDS ImageOpen

\* VHD images.
Footer(type, next, media) == [sound |-> TRUE, type |-> type, next |-> next, media |-> media]
NoHeader == [sound |-> FALSE, version |-> 0, blocks |-> 0, blockSize |-> 0, batAt |-> 0]

FixedVHD(place, lookalike) ==
  LET footer == Footer(Fixed, FixedNext, 4)
      none == [p \in {"trailing", "legacy", "mirror"} |-> Unreadable]
  IN  [image |-> [head |-> "data", len |-> 4 + FooterBytes(place),
                  at |-> [none EXCEPT ![place] = footer,
                                      !["mirror"] = IF lookalike THEN Footer(Fixed, FixedNext, 2) ELSE @],
                  header |-> NoHeader, headerAt |-> 2, bat |-> <<>>, cells |-> <<>>],
       disk |-> [type |-> Fixed, size |-> 4, blocks |-> <<>>, bitmaps |-> <<>>, footer |-> footer, conformant |-> TRUE],
       known |-> TRUE]

GrowingVHD(type, sizeKnown) ==
  LET footer == Footer(type, 2, 3)
  IN  [image |-> [head |-> "footer", len |-> 8 + FooterSize,
                  at |-> [p \in {"trailing", "legacy", "mirror"} |-> IF p = "legacy" THEN Unreadable ELSE footer],
                  header |-> [sound |-> TRUE, version |-> 1, blocks |-> 2, blockSize |-> 2, batAt |-> 6],
                  headerAt |-> 2, bat |-> <<Unallocated, Unallocated>>, cells |-> <<>>],
       disk |-> [type |-> type, size |-> 3, blocks |-> <<0, 0>>, bitmaps |-> <<>>, footer |-> footer, conformant |-> TRUE],
       known |-> sizeKnown]

Vhds == {FixedVHD(p, l) : p \in {"trailing", "legacy"}, l \in BOOLEAN}
          \cup {GrowingVHD(t, k) : t \in {Dynamic, Differencing}, k \in BOOLEAN}

\* VHDX images: metadata at 2, table at 18, room for one more region at 26.
MetaAt == 2
BatAt == 18
R(type, at, size, req) == [type |-> type, at |-> at, size |-> size, req |-> req]
Good == <<R("bat", BatAt, 8, TRUE), R("metadata", MetaAt, 16, TRUE)>>
Table(regions) == [sound |-> TRUE, regions |-> regions]

FaultyTables == {
  [sound |-> FALSE, regions |-> Good],
  Table(Good \o <<R("journal", 26, 2, FALSE)>>),
  Table(Good \o <<R("journal", 26, 2, TRUE)>>),
  Table(Good \o <<R("journal", 27, 1, TRUE)>>),
  Table(Good \o <<R("journal", 24, 4, FALSE)>>),
  Table(<<Good[1], R("journal", 26, 2, FALSE), R("metadata", BatAt, 8, TRUE)>>),
  Table(<<Good[1], Good[2], Good[2]>>),
  Table(<<Good[2]>>),
  Table(<<Good[1], R("metadata", 3, 14, TRUE)>>),
  Table(<<R("bat", 26, 8, TRUE), Good[2]>>) }

Item(id, at, req) == [id |-> id, at |-> at, size |-> IF id = "locator" THEN 4 ELSE 1, req |-> req]
Locator == [known |-> TRUE, entries |-> <<[key |-> "parent_linkage", value |-> "p", end |-> 4],
                                          [key |-> "relative_path", value |-> "p.vhdx", end |-> 4]>>]
Items == <<Item("parameters", 8, TRUE), Item("size", 9, TRUE), Item("logical", 10, TRUE),
           Item("physical", 11, TRUE), Item("locator", 12, TRUE)>>

Metadata(block, size, sector, type) ==
  [sound |-> TRUE, items |-> Items,
   values |-> [blockSize |-> block, hasParent |-> type = DiffType, leaveAllocated |-> type = FixedType,
               size |-> size, logical |-> sector, physical |-> sector, locator |-> Locator]]
NoMetadata == [sound |-> FALSE, items |-> <<>>, values |-> [locator |-> Locator]]

FaultyMetadata(m) == {
  [m EXCEPT !.items = Tail(@)],
  [m EXCEPT !.items = Append(@, Item("geometry", 7, TRUE))],
  [m EXCEPT !.items = Append(@, Item("geometry", 7, FALSE))],
  [m EXCEPT !.items[4] = [@ EXCEPT !.size = 0, !.at = 0]],
  [m EXCEPT !.items[4] = [@ EXCEPT !.size = 0]],
  [m EXCEPT !.items[4].at = 3],
  [m EXCEPT !.items[5].at = 13],
  [m EXCEPT !.values.logical = 3],
  [m EXCEPT !.values.blockSize = MaxBlock + 1],
  [m EXCEPT !.values.locator.known = FALSE],
  [m EXCEPT !.values.locator.entries[1].value = "malformed"] }

Vhdx(tables, m, block, size, sector, type, sizeKnown, conformant) ==
  LET ratio == (ChunkSectors * sector) \div block
      blocks == [b \in 0..(Up(size, block) - 1) |-> Empty]
      bitmaps == [c \in 0..(Up(Up(size, block), ratio) - 1) |-> Empty]
      stored == [type |-> type, size |-> size, blocks |-> blocks, bitmaps |-> bitmaps, ratio |-> ratio,
                 batAt |-> BatAt, metaAt |-> MetaAt, conformant |-> conformant]
  IN  [image |-> [head |-> "vhdxfile", len |-> 28, tables |-> tables,
                  meta |-> [at \in {2, 3, 18} |-> IF at = MetaAt THEN m ELSE NoMetadata],
                  bat |-> [at \in {BatAt, 26} |-> IF at = BatAt THEN Layout(stored) ELSE [i \in 1..8 |-> Empty]]],
       disk |-> stored, known |-> sizeKnown]

Geometries == {<<2, 6, 1>>, <<2, 5, 1>>, <<4, 12, 1>>, <<2, 6, 2>>}
Pair == <<Table(Good), Table(Good)>>
Vhdxs ==
  {Vhdx(Pair, Metadata(g[1], g[2], g[3], t), g[1], g[2], g[3], t, k, TRUE) :
     g \in Geometries, t \in {FixedType, DynamicType, DiffType}, k \in BOOLEAN}
  \cup {Vhdx(tables, Metadata(2, 2, 1, DynamicType), 2, 2, 1, DynamicType, TRUE, FALSE) :
          tables \in {<<a, b>> : a, b \in FaultyTables} \cup {<<Table(Good), b>> : b \in FaultyTables}
                       \cup {<<b, Table(Good)>> : b \in FaultyTables}}
  \cup {Vhdx(Pair, m, 2, 2, 1, DiffType, TRUE, FALSE) : m \in FaultyMetadata(Metadata(2, 2, 1, DiffType))}

MCFresh == Vhds \cup Vhdxs
=============================================================================
