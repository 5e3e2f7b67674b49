---------------------------- MODULE MCDiskCompare ----------------------------
(* Six filesystems, a neighbour partition, and every way Compare is met.   *)
EXTENDS DiskCompare

NoFile == [live |-> FALSE, isDir |-> FALSE, gen |-> 1, born |-> 5, name |-> 0, dir |-> Root, map |-> <<>>,
           fork |-> 0, lost |-> FALSE, uid |-> 0, dirty |-> {}, forkDirty |-> FALSE]
FileOf(u, n, m) == [NoFile EXCEPT !.live = TRUE, !.name = n, !.map = m, !.uid = u]

VolumeOf(kind, base, len, root, files) ==
  [kind |-> kind, base |-> base, len |-> len, root |-> root, sub |-> root + 1, serial |-> 7,
   readable |-> TRUE, unread |-> {}, files |-> files, journal |-> <<>>, usn |-> 0]

Holes   == {"ntfs", "ext", "xfs"}
FirstMap(kind) == IF kind \in Holes THEN <<4, 0, 6>> ELSE <<4, 6>>
Files(kind) == [s \in 1..3 |-> CASE s = 1 -> FileOf(1, 1, FirstMap(kind))
                                 [] s = 2 -> NoFile
                                 [] s = 3 -> [FileOf(3, 3, <<3>>) EXCEPT !.isDir = TRUE]]
Neighbour   == VolumeOf("ext", 9, 2, 9, [s \in 1..3 |-> IF s = 1 THEN FileOf(1, 1, <<10>>) ELSE NoFile])

\* A volume between a table and a neighbour that shares a grain with it.
Partitioned(kind) ==
  [vols |-> <<VolumeOf(kind, 2, 7, 2, Files(kind)), Neighbour>>,
   table |-> {[base |-> 0, len |-> 2], [base |-> 2, len |-> 7], [base |-> 9, len |-> 2], [base |-> 12, len |-> 4]}]
\* A disk formatted end to end.
Whole(kind) == [vols |-> <<VolumeOf(kind, 0, 12, 2, Files(kind))>>, table |-> {}]

MCLayouts == {Partitioned(k) : k \in {"ntfs", "xfs", "hfs"}} \cup {Whole(k) : k \in {"ext", "fat", "exfat"}}

Default == [maxFiles |-> 0, skipDirectories |-> FALSE, allowMismatch |-> FALSE, skipVolumes |-> FALSE]
Case(fault, opts) == [fault |-> fault, opts |-> opts]
MCCases ==
  {Case("none", o) : o \in {Default, [Default EXCEPT !.maxFiles = 1], [Default EXCEPT !.skipDirectories = TRUE],
                            [Default EXCEPT !.skipVolumes = TRUE]}}
  \cup {Case(f, Default) : f \in {"map lost", "identity unread", "new unreadable", "old unreadable", "partition new",
                                  "partition removed", "other serial", "older gone", "older unnamed", "index beyond",
                                  "older walk failed", "newer walk failed", "older journal unread",
                                  "newer journal unread", "journal unread"}}
  \cup {Case("other serial", [Default EXCEPT !.allowMismatch = TRUE])}
=============================================================================
