# libvhdi, modelled and checked

libvhdi is a Go library that reads VHD and VHDX disk images without ever
writing to them: fixed, dynamic and differencing images, chains of differencing
images, VHDX logs, and the extent maps, checkpoint trees and change reports
built on top. This directory holds TLA+ models of it, the TLC configurations
that check them on small instances, and TLAPS proofs of results that hold for
every instance.

Everything here is translated from the Go source; `PROJECT.json` maps each
definition to its lines. What is not part of the library (a program that writes
an image, a guest that uses a filesystem, a hypervisor that takes checkpoints, a
filesystem parser) is modelled only as far as the library depends on it, and is
marked external there.

    tlc -workers 2 -config MCDeepOpen.cfg MCChainOpen      # one run
    tlapm ChainOpenProofs.tla                              # proofs
    tlapm ChainReadProofs.tla
    tlapm ExtentMapProofs.tla
    tlapm VhdxFileProofs.tla
    tlapm ImageOpenProofs.tla
    tlapm CheckpointTreeProofs.tla
    tlapm DiskCompareProofs.tla                            # ten minutes
    tlapm IndexLemmas.tla                                  # lemmas they share

## 1. Inventory

| Component | State it keeps | Operations | What makes it correct | Modules |
|---|---|---|---|---|
| Read path: `VirtualDisk.ReadAt`, `diff.Resolver`, the block readers | none between calls but the attached parent; during a call, how much of the buffer is filled at every level of the chain | `ReadAt`, `SetParent` | every byte delivered is the byte of the nearest image that owns it; a hole whose parent is missing is an error, never zeroes; a short file gives a correct prefix | `DiskImage`, `ChainRead`, `Device` |
| Block allocation tables: `bat` | decoded tables, immutable | `ReadBAT`, lookups | every block, bitmap and bit lands where the format puts it | `DiskImage`, `VhdOpen`, `VhdxOpen` |
| Extent map and streaming: `reader/extents.go`, `changed.go`, `stream.go` | none; a position while streaming | `Extents`, `AllExtents`, `ChangedExtents`, `VirtualToFileOffset`, `Stream` | the map agrees with reads byte by byte although it is separate code; it tiles the range; chunking is invisible; a change report attributes each range to the right disk; a stream gives its visitor every byte it owes once, up to the gap or the failed read that ends it | `ExtentMap` |
| Chain opening: `reader/open.go`, `SetParent`, `Close` | the parents attached, who owns each handle, why resolution stopped | `Open`, `OpenFile`, `OpenFileWith`, `SetParent`, `Close` | no handle leaks or is closed under a user, on every failure path; a chain called complete is whole and verified; loops and depth are bounded; the walk ends | `ChainOpen` |
| Parent resolvers: `reader/parent.go` | none | `DirParentResolver`, `FSParentResolver` | the recorded paths are tried in a fixed order, and never outside an `fs.FS` | `ParentSearch` |
| Log replay: `internal/vhdxlog` | an immutable overlay of sectors | `Analyze`, `Overlay`, `ReadAt` | the committed sectors and no others, after a crash at any point of a write | `VhdxLog`, `VhdxFile` |
| Format open: footers, headers, region tables, metadata, validation | the decoded image | `OpenVHD`, `openVHDX`, `Probe` | a damaged copy is recovered from another, and says so; what must be refused is refused; a probe agrees with an open | `VhdOpen`, `VhdxOpen`, `ImageOpen`, `VhdxFile` |
| Checkpoint discovery: `reader/checkpoint.go` | a tree of nodes | `DiscoverChain`, `Roots`, `Leaves`, `Lineage` | a lineage is the true ancestry of its leaf although the directory changes while it is scanned; the walk ends | `CheckpointTree` |
| Comparison: `change`, `vhdimap` | inventories of two states | `Diff`, `Compare`, `OpenVolumes`, range arithmetic | every change is found, located and classified by identity; whatever is left out is noted | `RangeSets`, `FileDiff`, `DiskCompare` |
| Filesystem adapters: `change/adapters` | an index of the volume at most | `WalkFiles`, `ExtentsForFile`, `RenamesBetween` | identities that mean the same in both states; extents in units of the volume | `FsVolume` |
| `report.Change` | a document | | what it says of a volume holds | `DiskCompare` |
| Other reports, chain description, geometry, warnings, facade, codecs, examples | none | | outside the models | |

How they interact: an open decodes the tables (through the log overlay when
there is a log), then `resolveChain` asks a `ParentResolver` (a callback) for
each parent, opens it, verifies it and attaches it. A read of a differencing
disk calls its parent's `ReadAt`. The extent map recurses over the same
parents, through code of its own. A change report filters the extent map. The
checkpoint tree finds parents by identity among probed files, where an open
finds them by recorded path: two independent ways to one chain. The comparison
opens the older state a second time, by path, asks an adapter for the files of
each volume in both states, and intersects the change report with their extents.

What is hard here. The library starts no goroutine of its own and an open disk
is immutable apart from `SetParent` and `Close`, so there is no interleaving of
its own steps with each other. The difficulty is in

- sequences of calls: opening, attaching, sharing, closing in any order;
- the many ways one step of an open can fail after others succeeded;
- two pieces of code that must agree: reads and the extent map on who owns a
  byte, a probe and an open on what an image is, identity and path on a chain;
- ranges that cut blocks, sectors, chunks, partitions, file runs and the end;
- the world around it: a writer that lost power inside a log entry or while it
  moved a footer, a directory in use while it is scanned, a guest that reuses
  inodes and slots between two states.

The `hazards` of `PROJECT.json` give each at its line.

## 2. The modules

    DiskImage <- ChainRead -> Device          VhdxLog <- VhdxFile
    DiskImage <- ExtentMap                    VhdOpen, VhdxOpen <- ImageOpen
    ChainOpen                                 FsVolume, RangeSets <- FileDiff <- DiskCompare
    ParentSearch <- CheckpointTree

Each has an MC module where it needs one; `SmallImages` holds the images that
`MCChainRead` and `MCExtentMap` share. The proofs are in modules of their own:

    ChainOpen <- ChainOpenProofs
    IndexLemmas <- ChainReadProofs (of ChainRead)
    IndexLemmas <- ExtentMapProofs (of ExtentMap)
    IndexLemmas <- VhdxFileProofs (of VhdxFile)
    IndexLemmas <- ImageOpenProofs (of ImageOpen)
    IndexLemmas <- CheckpointTreeProofs (of CheckpointTree)
    IndexLemmas <- DiskCompareProofs (of DiskCompare)

`ChainReadProofs` and `ExtentMapProofs` begin with the same few lemmas about the
blocks of `DiskImage`, each for the chain of its own module.

### DiskImage

One open image as a record: format, kind, block and sector size, block states,
sector bitmaps (as sets of bit positions), payload offsets, file length.
`Classify`, `BitPos`, `BitmapIndex` and `HasPayload` are `diff.Resolver`'s and
`vhdxSectorPresent`'s decisions. A bitmap that does not exist is the empty set:
all readers treat the two alike. The second half of the module is not code: it
is `Content`, the byte a chain promises at an offset, written one byte at a
time from the format's rules, with no loop and no block arithmetic shared with
the code. It is the reference for the two modules below.

Abstractions: blocks of two sectors of two bytes stand for megabytes; the bit
order within a bitmap byte and the decoding of the raw table are left out; a cut
file cuts payload, not bitmaps (a bitmap that cannot be read is an error before
any byte is delivered).

### Device and ChainRead

`ChainRead` is `ReadAt` over a chain. A call is a frame `[at, end)`: what it
still has to fill. `frame[i]` is the call on the disk at chain position `i`, and
`top` the innermost. Nested calls get a slice of the caller's buffer and all
disks of a chain share one address space, so the buffer is one function of
virtual offsets.

| Action | Code |
|---|---|
| `ReadNothing`, `BeginRead` | the entry checks and the clamp of `VirtualDisk.ReadAt` |
| `ReadOwn` | a segment or sector run the image answers: `readSegment` and `readPartialBlock` of the block readers, or zeroes |
| `ReadParent`, `Return` | `readParent`: the nested call and the caller going on |
| `ParentMissing` | `ErrParentRequired`, unwinding every call with what was delivered |
| `Finish` | the outermost return, with `io.EOF` when clamped |
| `SetParent` | attaching a parent, between reads |

`SegmentEnd` is the block bound, `RunEnd` the sector run of `readPerSector`,
`ShortOf` what a short file leaves of a run.

`Device` is the abstract specification: a flat array in which some bytes are
unknown, read by atomic calls. `ChainRead` implements it
(`ImplementsDevice`, an INSTANCE with `content`, `pending` and `result`
substituted): all the segmentation, nesting and short counts are invisible, and
attaching a parent only resolves bytes nobody knew.

### ExtentMap

`raw` is `rawExtents` with the recursion into parents (`RunOf`: how far one run
goes, `KindAt`: what it is), `Merge` is `mergeExtents` with `CanMerge` and
`Normalize`; `MapOf`, `MapByChunks` and `ChangedOf` are `Extents`,
`AllExtentsContext` (its 1 GiB chunk is a parameter) and `ChangedExtents`.
`StreamOf` is `Stream`: `RunsOf` is the map in `Pieces` no longer than the buffer,
each with its own file offset, zeroes only when asked for, and the visitor is given
the runs before the first that `EndsWalk`: an unresolved extent if it is to fail
there (it is visited without data if not), or a piece of data that is read in vain
(`ReadFails`, `stream.go:229`), as where the file is cut short. The error is kept
beside the runs. The visitor takes every run; an error of its own, which `Stream`
hands back, is left out. The actions ask one question and keep the answer, which the
caller takes (`Take`) before it asks the next: no call leaves anything behind in a
disk, so none depends on what was asked before, and the runs need not look at one
after every other. A disk's path is a function of its chain index, so extents carry
the index alone. `raw`, `Merge` and the walks are recursive functions, not RECURSIVE
operators, so that they can be proved about.

### ChainOpen

`ChainOpen` is `resolveChain` as a walk with a program counter: `link` (ask for
the parent), `verify`, `attach`. The resolver is any `ParentResolver`: it may
fail or return any file of the library. Each way to stop has the clean-up of its
own branch: `Abandon` is the failed open (the caller of `resolveChain` closes
what was built), `KeepShort` the best-effort one, and both close exactly the
rejected disk. A disk is `[file, closer, parent, owned, err]`, the fields of
`VirtualDisk` that resolution and `Close` use; `handle` says for each opened
file whether it is free, open, closed or closed twice.

| Action | Code |
|---|---|
| `OpenUnreadable`, `OpenSuppressed`, `OpenFile` | `OpenFileWith` |
| `ChainDone`, `ChainTooDeep`, `ParentNotFound`, `ParentUnreadable`, `ParentOpened` | the loop of `resolveChain` up to a parsed candidate |
| `ParentVerified`, `ParentRejected` | `verifyParent` (`Acceptable`) |
| `ParentAttached`, `CycleFound` | `chainKey` and the attachment |
| `HandAttach` | `SetParent` by the caller |
| `Close` | `Close` and its recursion into owned parents |

Abstractions: paths are files (`named` when the disk has a path), identities are
model values; the timestamp check and all warnings are left out, they change no
outcome. `Open` differs from `OpenFileWith` only in a root with no closer, and is
not a separate action; so are, on the resolver's side, sources with no
closer. The `SetParent` inside `resolveChain` cannot fail, its conditions
having been checked (`IsDifferencing`, equal sizes). `Close` again on a disk the
caller already closed is not an action. `ByHand` selects what callers do with
`SetParent`: `"none"`; `"missing"`, the documented use (supply a missing parent,
with a disk opened for it, not leading back to the child); `"any"`.

`byHand` and `searched` are history variables for the properties. So is
`op.outcome`.

### VhdxLog and VhdxFile

`VhdxLog` is the reader: `IsEntry` (what `parseEntry` accepts), `Newest`,
`CollectSequence` (the walk back from the newest entry to its tail, refused when
an entry of it is missing), `Replay` and `Analyze`, and `OverlayRead`, the
`ReadAt` of the overlay over a file that may be too short. The region is a circle
(`At`). Lengths are sectors; a sector has two bytes, the one a writer displaces
into the descriptor and the rest, so that forgetting to put it back shows.

`VhdxFile` puts it under a writer. The writer is external; it follows the
protocol the reader's checks rely on. Power may go between any two of its steps,
and an open (`OpenVHDX`: the current header, its log, the overlay) is an
operator of what is then on disk.

| Action | What happens |
|---|---|
| `StartLog`, `Log(t)` | a writer takes a log GUID of its own; a transaction is laid out as an entry at the head, in the room the recorded tail leaves |
| `WriteLogSector` | one sector of the entry reaches the disk, in any order; the last one commits |
| `ApplySector` | a journalled sector reaches its place in the file, in any order |
| `Close`, `TearHeader`, `WriteHeader` | the header not in use is rewritten, torn first |
| `PowerCut`, `Recover` | memory is lost; the next writer replays what it finds |

`committed` is the file as of the last complete entry, a history variable.
`OpenPresentsCommitted` is the specification of an atomic commit: what an open
presents is that file, at every step of the writer.

Abstractions: a checksum is free of collisions (an entry is valid exactly when
its other sectors are the ones it was written with); field checks of an entry
header are one test; file growth recorded in the header is left out.

### VhdOpen, VhdxOpen and ImageOpen

`VhdOpen` is `OpenVHD` and `Probe`'s VHD branch: the `Attempts` at a footer in
their order (trailing, one byte short as old tools wrote it, the mirror at the
start), which of them is `Usable`, the dynamic header, the checks of both kinds,
and where the table says a block's data is. `VhdxOpen` is the same for VHDX
without a log: the two region tables and what makes one unusable or the whole
image refused (`TableValid`, `NeedsUnknown`, `TableUsed`, `RegionsValid`), the
metadata items (`ItemValid`, `LocatorValid`, `ValueValid`, `ParseMetadata`), and
the interleaved table (`ChunkRatio`, `EntryCount`, `PayloadIndex`,
`BitmapIndex`, `ReadBAT`).

`ImageOpen` composes the two by `detectFormat` and puts images under a writer,
external again:

| Action | What happens |
|---|---|
| `AppendBlock`, `TearFooter`, `WriteFooter`, `LinkBlock` | a VHD grows: the block over the footer, the footer behind it, then the table entry |
| `Crash`, `Repair` | the writer stops; the next one rewrites what is behind the last block |
| `DamageFooter`, `DamageTable` | one copy of something is lost, once |
| `WriteBlock`, `WriteBitmap` | a VHDX block or bitmap is placed, laid out chunk by chunk (`Layout`) rather than by index arithmetic |

`Opened` and `Probed` are what the library makes of the image after every step;
`disk` remembers what the writer stored. `Fresh` holds the images a writer may
start from; `FreshAssumption`, which TLC evaluates for those of the run, says
what all of them must have in common (`VhdSound`, `VhdxSound`): the footers are
the writer's, the blocks lie where the table says, the block table is the one
laid out for what is stored, and a region table that can be used names the
disk's own structures. It says nothing of what a reader makes of them, and leaves
every fault open that the library must detect.

Abstractions: signature, checksum and version of a structure are one bit;
creator, timestamps and geometry are left out; the sector bitmap of a VHD block
takes one sector, regions are not empty, and a VHDX has a length. The model
excludes a fixed VHD whose own data begins with an embedded dynamic image and
whose trailing footer is lost (nothing can tell the two apart). An unknown required metadata item of
length zero is skipped by the parser (`metadata/parser.go:231`), and
`NothingRequiredIgnored` says so by excepting it. The refusal that only wraps
`ErrSizeUnknown` and the lower bound of the metadata region, which is out of
reach in these units, are left out.

### ParentSearch and CheckpointTree

`ParentSearch` has the candidates both resolvers make of the recorded paths, in
order and without repetition: `Absolute`, then `Relative` in each directory for
`DirSearch`; the child's directory, then the root, and nothing outside for
`FsSearch`. A path is the sequence of its names, `..` included.

`CheckpointTree` is `DiscoverChain` over a directory in use.

| Action | Code or event |
|---|---|
| `StartScan`, `ListDir`, `ProbeNext`, `LinkTree`, `Cancel` | the scan: files are listed directory by directory, limited, sorted, probed one by one, and linked by identity (`ParentOf`) |
| `StartWalk`, `WalkUp` | `Lineage`, one parent at a time |
| `TakeCheckpoint`, `Write`, `Copy`, `Rename`, `Delete`, `Damage` | the directory changes, before the scan and between its steps |

`born` remembers what each image was made from, so that properties can ask
whether a lineage is *true*. `Resolved` is the same chain found by recorded
paths, with both resolvers (`OpenAgreesWithTree`).

Abstractions: a directory is listed in one step; images have one size (a size
mismatch is in `ChainOpen`); events stop once the links are made, because a tree
holds nothing that could change later. A VHD keeps its identity when it is
written, so a VHD parent that was written to cannot be told by anyone; the model
writes to VHDX images only. Copies with one identity are alike to the library,
and the first by path is linked. An image that records itself is neither written,
copied nor renamed: there is one of an identity at most, nobody can open it to
write, and of two copies the second by path would be linked to the first, one way:
a lineage no disk ever had, since the record both hold is damaged. `Consistent` says what a
directory is like that a scan may find, whichever way it came to be; new
identities are counted from `FirstNew`, so that none is used twice.
The comment on `Roots` (`checkpoint.go:117`) speaks of images "nothing in the tree
differences from", which are the leaves; the code takes the nodes without a
parent.

### RangeSets, FsVolume, FileDiff and DiskCompare

`RangeSets` is the arithmetic of `vhdimap` (`Coalesce`, `Overlap`, `Clip`).
`FsVolume` is the six adapters (NTFS, ext, XFS, HFS+, FAT, exFAT) over a volume
as its parser would report it: identity with or without a reuse counter
(`Capabilities`), the walk, the extents of a file and of its streams or forks,
the renames of a journal. `FileDiff` is `Diff`: identity of the volume,
inventories, classification by identity, ranges of a file that were written,
journal evidence, ordering and the limit. `DiskCompare` is `Compare`: volumes
found in both states, changed ranges clipped to a partition and moved to its
base, one diff per volume that is in both, notes and warnings for the rest, and
the document of `report.Change`.

| Action | What happens |
|---|---|
| `Create`, `Delete`, `Rename`, `Write`, `WriteFork` | the guest uses the volume (external): slots are reused with a new generation where the filesystem keeps one, NTFS journals what it does |
| `TakeCheckpoint` | the state so far becomes the older one |
| `Compare(c)` | `Compare`, in one of `Cases`: the options and what it meets (an older file gone, a partition new or removed, a volume unreadable in one state, another serial, a lost map, a walk that fails in one state, each of the three readings of a journal failing) |

The range arithmetic works on sets where the order of ranges does not matter to
the code and gives sequences where it does: what `Coalesce` returns is in order,
and its ranges neither overlap nor abut. Extents, changes, notes and partitions
are sets for the same reason. The one place where the order of a list shows is the
limit on it: `Kept` is any choice of that many changes in front of which nothing
left out sorts. `sort.SliceStable` (`diff.go:246`) promises no more here, for the list it
sorts is gathered from maps, whose order is any. `Document(c)` is what a call
in the case `c` returns of the two states as they are. The disks to start from are
what a formatted disk is like (`SoundLayout`), whatever its partitions, slots, maps and
names: `LayoutsAreSound`, `SizesAreNat` and `CasesAreOptions` are all that is assumed of
the constants, and TLC evaluates them.

The guest knows files by `uid`, which the library never sees; `ClassifiedTruly`
compares what it says with what happened to that very file.

Abstractions and limits of the code the model keeps as they are: hard links on
ext and XFS (the last name walked wins) are left out; ranges of a fork are
reported with offsets of their own beside the content's; a file made shorter, or
a hole punched, without a write to its data has no range; a partition deleted in
the newer state leaves no note (`NothingSilent` excepts it); the first directory
slot of a FAT12/16 root has identity 0 and is dropped (no file is in that slot
here); a record of a rename is evidence also for a file that was otherwise
changed; the comment at `diff.go:349` says corroboration "adds the ones identity
alone did not see" while it only upgrades changes already found. The older state
is opened by path with default options.

What fails in a comparison is a choice of the case, one thing at most, at the first
volume. `FileDiff` has the error of either walk (`InventoryFails`), with which `Diff`
refuses and `Compare` warns at that volume (`compare.go:146`), and the three errors of
the journal in the order they are met (`Evidence`, `diff.go:361-376`), each of which
leaves a note of its own and no evidence. `Occurs` keeps a case to the disks on which
it can happen: only NTFS has a journal to fail. Calls that return an error and no
document are left out: `report.Change` failing (`compare.go:58`), the second reading
of the same change map failing (`compare.go:76`), cancellation before the volumes. So
is cancellation between two volumes, which ends the list with a note.

## 3. The runs

| Run | Instance | Shows |
|---|---|---|
| `chain_read` | 3 disks, VHD and VHDX leaves with all states and bitmaps, 3 kinds of base, 7-byte device, 5 requests (unaligned, crossing the end, at the end, empty) | `DeliveredIsContent`, `NestedCalls`, `FailsClosed`, `ReadsReturn`; 131,592 states |
| `cut_chain_read` | 2 disks, all six block states, two layouts, files cut at two places | `ImplementsDevice`; 33,264 states |
| `extent_chains` | the chains of `chain_read`, and chains with one differencing disk in all states, cut short so that payload lies beyond the end of the file; chunks of 3 and 7 bytes, buffers of 2 and 3 | `MapAgreesWithRead`, `MapTilesRange`, `ChunkingInvisible`, `ChangedDataIsExact`, `OneChildClearingIsExact`; 255,476 states |
| `deep_open` | 3 files, 2 identities, images unreadable, of the wrong size or identity, unnamed, without identifiers, in loops; depth limit 3; all options | `CompleteMeansWhole`, `NoFileTwice`, `ParentErrExplains`, `HandlesFollowUse`, `OpenReturns`; 375,136 states |
| `open_attach_close` | two children of one parent, up to 4 opened files, hand-attached parents, closes in any order | `HandlesFollowUse`, `ClosedAtMostOnce`; 315,850 states |
| `vhdx_crash` | a log of 5 sectors, a file of 3 (one variant one sector short), transactions of one sector, of two with descriptors that spill, and of a sector with a run of zeroes; 4 entries a log, 2 logs | `OpenPresentsCommitted`, `ReadsThroughOverlay`; 25,771 states |
| `image_open` | fixed VHDs with either footer and with data that looks like one; a growing VHD of two blocks and up to three cells; VHDX of three blocks in one to three chunks of all types; every pair of ten faulty region tables; eleven faulty metadata regions | `OpensAsWritten`, `OneCopyIsEnough`, `SaysWhenRecovered`, `NothingRequiredIgnored`, `StructuresApart`, `ProbeSeesTheSameDisk`; 15,422 states |
| `checkpoints` | 6 paths in 2 directories, a chain of three, a base with no identity, an image that records itself, 2 events, both formats and both kinds of scan | `LineageIsTrue`, `LineageIsWhole`, `NothingLeftOut`, `OpenAgreesWithTree`, `LineageReturns`; 572,181 states |
| `change_diff` | six filesystems, on a partitioned disk with a neighbour or end to end; 12 units in grains of 2; 3 operations around a checkpoint; 20 ways to be called | `RangesCoverWrites`, `ClassifiedTruly`, `NothingSilent`; 411,750 states |
| `extent_clearing`, `lineage_hang`, `journal_window` | small | the findings of section 6 |

Each run also checks the type invariant of its module, except where another run
of the same module does.

Why the bounds are enough. *Reads and maps*: two blocks per bitmap and two
sectors per block are the least that separate "first of its chunk" from "not
first" and let a run start or stop inside a sector, a block and the device; the
base with blocks of half the size makes parent and child boundaries differ and
puts blocks in a second chunk. Three disks are the least with a middle one that
both overrides and passes on. *Opening*: in `deep_open` three slots admit one
walk of the full depth, and its library holds every reason `verifyParent` and
`chainKey` distinguish. In `open_attach_close` four files are two opens with a
parent each, or three opens and one shared parent, the least that lets a
hand-attached parent outlive or die under one of two users. Symmetry is used
there only, over the two interchangeable children, and no liveness is checked in
that run. *Log*: a region of five sectors wraps after two or three entries, in
the middle of an entry for some of them, so stale sectors of the same log and of
the earlier one lie around a live sequence; four entries let a tail move twice.
*Image files*: three VHDX blocks in chunks of one, two or four put blocks in the
first, a middle and the last chunk, with the bitmap entry that only a
differencing disk has at the end; a VHD cell orphaned by a crash needs a third
cell for the block written again. *Checkpoints*: a lineage of three and one
event before and one during the scan, or two during it, are the least with which
a file is listed, replaced and probed as something else. *Comparison*: delete
and create in one slot, and one more operation on either side of the checkpoint,
is the least for a reused identity; the neighbour shares a grain with the volume,
so clipping matters; the first file has a hole or a gap, so runs matter.

`CHECK_DEADLOCK FALSE` is set where behaviours end: slots used up and everything
closed (`ChainOpen`), bounds of the writer, the directory or the guest reached,
a document made. The read and extent runs check deadlock.

Fairness. `ReadsReturn` assumes `WF(ReadStep)`, `OpenReturns` `WF(OpenStep)`,
`LineageReturns` `WF(Scanning)` and `WF(Walking)`: each is a loop in its
caller's goroutine that waits for no one, and the reader, resolver and directory
it calls return. Nothing is assumed of callers, writers, guests or of what
happens to a directory: no fairness on starting a read, attaching, closing,
recovering a log or taking a checkpoint.

Each property of a passing run has a mutant: a plausible slip in one definition
(marked `Mutant:` beside the definition it mutates), with which the run fails.

## 4. What is proved

Eight modules checked by tlapm. Seven end in theorems about a specification,
`Spec => []P` or `Spec => P`, for every value of its constants; one
(`IndexLemmas`) holds lemmas that several of these use. Every safety property of
every passing run is stated by one of them.

| Module | Theorems | Of the runs' properties |
|---|---|---|
| `ChainOpenProofs` | `TypeCorrect`, `HandlesAlwaysFollowUse`, `HandlesClosedAtMostOnce`, `CompleteChainsAreWhole`, `NamedFilesOnce`, `ParentErrorsExplain` | `TypeOK`, `HandlesFollowUse`, `ClosedAtMostOnce`, `CompleteMeansWhole`, `NoFileTwice`, `ParentErrExplains` |
| `ChainReadProofs` | `TypeCorrect`, `CallsAlwaysNested`, `ReadsDeliverContent`, `ReadsFailClosed`, `ReadsImplementDevice` | `TypeOK`, `NestedCalls`, `DeliveredIsContent`, `FailsClosed`, `ImplementsDevice` |
| `ExtentMapProofs` | `MapTyped`, `MapsTellTheTruth`, `MapsLeaveNoGap`, `ChunksNeverShow`, `ReportsAreExact`, `OneClearingReportsAreExact` | `TypeOK`, `MapAgreesWithRead`, `MapTilesRange`, `ChunkingInvisible`, `ChangedDataIsExact`, `OneChildClearingIsExact` |
| `VhdxFileProofs` | `TypeCorrect`, `OpenFindsCommitted`, `OverlayReadsCommitted` | `TypeOK`, `OpenPresentsCommitted`, `ReadsThroughOverlay` |
| `ImageOpenProofs` | `TypeCorrect`, `OpensPresentWhatWasWritten`, `OneCopySuffices`, `RecoverySaid`, `RequiredNeverIgnored`, `StructuresNeverOverlap`, `ProbesAgree` | `TypeOK`, `OpensAsWritten`, `OneCopyIsEnough`, `SaysWhenRecovered`, `NothingRequiredIgnored`, `StructuresApart`, `ProbeSeesTheSameDisk` |
| `CheckpointTreeProofs` | `TypeCorrect`, `LineagesAreTrue`, `LineagesAreWhole`, `NothingIsLeftOut`, `OpensAgree` | `TypeOK`, `LineageIsTrue`, `LineageIsWhole`, `NothingLeftOut`, `OpenAgreesWithTree` |
| `DiskCompareProofs` | `GuestInvariant`, `TypeCorrect`, `WritesAreCovered`, `ChangesAreClassifiedTruly`, `NothingIsSilent` | `TypeOK`, `RangesCoverWrites`, `ClassifiedTruly`, `NothingSilent` |

Assumptions are the ASSUMEs of the modules proved about, which TLC evaluates on
the runs of those modules, and the hypotheses named below.

### Opening and closing: `ChainOpenProofs`

For every library of images, every number of slots and every depth limit.

`TypeOK` is not inductive: that `next` stays within the slots needs the budget
an open reserves when it starts, and that `depth` stays within the limit needs
what `verify` and `attach` remember of the test in `Seeking`.
`TypeInv == TypeOK /\ Room` adds both.

The handle theorems assume that callers do not use `SetParent` outside its
documented use (`ByHand # "any"`). Their inductive invariant is `HandlesInv`:
`DisksOK` (slots beyond `next` are untouched; a closer is set exactly when the
handle is open; an owned parent has one child; what the caller holds is not
owned) and `WalkOK` (during an open, the root is in nobody's hands and the walk
stands at the end of its chain; the candidate is nobody's parent). The argument
rests on `Along`, the set reached along owned parents, defined as a least closed
set, not by recursion: `AlongIsLeast` gives its induction principle, and
`UseDisjoint` shows that the chains of different users are disjoint, so closing
one chain disturbs no other. Without "one child per owned parent" a Close could
take a shared parent away; that is what `MCLendParent.cfg` shows when callers are
free to break it.

Under the same assumption `CompleteChainsAreWhole` and `NamedFilesOnce`. Neither
property is inductive: the first says nothing while the walk is under way, and
the second does not say that what the walk has met is in `seen`. `WholeInv` adds
what the walk has established: `BuiltOK` (every disk of the chain so far but the
last is `Linked`, its keys are in `seen`, and its size is `depth + 1`, which is
where the depth limit and the bound on the chain meet), `CandOK` (a candidate
about to be attached was verified: the test is made in one step and used in
another), and `RootOK`. Attaching adds one disk to one chain (`AttachedWhole`,
over `AlongIsLeast`), and `KeptLinks` says what every other step leaves alone. It
needs `HandlesInv` throughout, since a chain is only known to stay what it is
while nobody else can close it.

`ParentErrorsExplain` holds when no caller attaches by hand (`ByHand = "none"`,
as in `deep_open`; `MCParentErr.cfg` shows the property fail otherwise). `ErrInv`
says it in the form that steps keep: of the disks a caller holds, exactly those
have an error that were searched for and whose chain ends `Short`, at a disk that
needs a parent and has none. The disk being opened has no error yet, and without
`SetParent` by hand no parent changes afterwards.

### Reading: `ChainReadProofs`

For every chain of `WellFormed` images (what an open has checked: a table entry
for every block, in one of the states of its format, with its data at an offset
of the file), every length of chain, `ChunkRatio`, size and request, and parents
attached between reads.

`IInv` is the type, the nesting of the calls (`CallsNested`), what a running read
still owes its request (`RequestServed`), and that the buffer agrees with
`Content` wherever it is filled and is filled up to where the innermost call
stands. Two facts carry it: a run has one disposition throughout
(`RunHasOneDisposition`), so serving it as a whole is serving it byte by byte;
and the byte of the first image that owns it is the byte of the chain
(`NearestIsFirstSupplier`, of the reference `Content`, whose recursion along
the chain is unfolded once there). `ReadsFailClosed` adds that a read ends in
one of three ways only (`ReadEndsInThreeWays`), and `ReadsImplementDevice` is the
step simulation: steps inside a call stutter, its end is the answer of the
device, and attaching a parent resolves bytes nobody knew
(`AttachingExtends`).

### The extent map: `ExtentMapProofs`

For every chain of well-formed images, range, chunk length and buffer. Nothing
changes but which parents are attached, so the invariant is short: the answer
kept is what the operation computes of the chain as it is (`Answered`). The work
is in what the operations compute, by induction on the length of a range or the
index of an extent:

- `RawTilesHonestly`: `rawExtents` gives extents that tile the range, each
  `Honest`: all its bytes are what it says, lie where it says, and what may be
  attributed is attributed to the owner of its first byte;
- `MergeKeepsTruth`: `mergeExtents` keeps both and leaves no two neighbours that
  could still be joined;
- `OneMap`: there is only one such sequence for a range, so it does not matter
  in which pieces it was made (`ChunksNeverShow`), and a map agrees with itself;
- `WalkHasParts`: filtering, clipping and cutting in pieces make of each extent
  some parts of it, in order, which carries the change report and the runs of a stream;
- `StreamOf` then cuts the runs before the first that ends the walk: all its bytes are
  data of one file, so the first byte that cannot be read is in it and everything in
  front of it was given (`Streamed`, on chains cut short as on whole ones).

For cleared extents `Honest` attributes the first byte only. That is as far as
the code goes: it is why the clearing report is exact with one differencing disk
(`OneClearingReportsAreExact` has that as its condition, in the property) and
wrong with two (`extent_clearing`).

### The log: `VhdxFileProofs`

For every size of the region and of the file, every set of transactions, any
number of entries and logs, and power cuts between any two steps of the writer.
The one hypothesis is `FileSize <= MaxOverlay`: a log that would replay more than
`maxOverlaySectors` sectors is refused, and the image with it.

Positions are counted on without wrapping, so the live log is a `Chain`: entries
one after the other in less than a turn of the region, numbered consecutively,
the newest recording where the first begins. `ChainRead` is about the reader
alone: of any region that holds a chain, with no other entry of its log as new
as the chain's newest, `Analyze` collects exactly that chain and replays what
its descriptors write last. The invariant `Inv` is about the writer:

- `Typed`, with what it needs of its own: no sector in the region is of a log
  that has not been started (`OnlyOlder`: every entry and every data sector was
  written with a smaller number, counted through all logs);
- `InSync`: where the file lags behind what is committed, the writer holds the
  sector; while there is no writer, `Presents` says it instead;
- `Presents`: an open shows what is committed;
- `Phase` and `InLog`: what each phase means for the header and the log. At rest
  the region holds a chain `c` that says what is committed, and an index `m`, so
  that every sector still held is written by an entry from `m` on, which the next
  entry may therefore record as its tail (`AtRest`). While an entry is written
  the same chain stands, and each of the entry's sectors is either in place or
  older (`Journalling`).

A half-written entry is no entry because one of its sectors is older than its
header says (`WritingNewest`); a sector of the next entry meets none of the
chain because the room is measured from the recorded tail (`ChainKept`); the last
sector makes the chain from `m` on, with the new entry behind it, the log
(`Commit`). `Inv` was checked by TLC on the `vhdx_crash` instance, with the chain
read off the log, before it was proved.

### Image files: `ImageOpenProofs`

For every set of images to start from that satisfies `FreshAssumption`, every
size of footers, blocks, chunks and tables, any number of blocks and cells, and a
writer that stops between any two of its steps while one copy of something is
damaged.

The invariant is `ImageInv`: the image is still what `FreshAssumption` asks of a
new one (`VhdSound`, `VhdxSound`: none of it says that anything opens), and the
writer's block, if it has one, is in the last cell (`Busy`). `VhdSound` survives
the steps because it claims a footer only where the writer has one: between
`AppendBlock` and `WriteFooter` none of the two at the end may be readable, and
what is linked lies below the end throughout. What an open makes of such an image
is proved once for each format and read off in every theorem:

- `AttemptsAre` and `SourceIsWriters`: whichever of the three attempts succeeds,
  the footer found is the writer's. For a fixed disk that is where the data
  cannot be told from a mirror, hence the condition in `FootersSound`;
- `CellFound`, `BlocksFound`: no two cells overlap, so a data offset names one
  block;
- `LayoutEntries`, `PayloadFound`, `BitmapFound`: the table laid out chunk by
  chunk has, at `PayloadIndex(b)` and `BitmapIndex(c)`, the entry of block `b` and
  of chunk `c`, for every chunk ratio and any cut of the last chunk. The index
  arithmetic of the code and the layout of the writer share nothing, so this is
  where an error by one would show;
- `UsedIsGood`, `AcceptedParts`, `OwnStructures`: the table an open goes on with
  has passed every check, the other one was rejected for a reason of its own, and
  the metadata and block table that are read are the disk's.

### Checkpoint trees: `CheckpointTreeProofs`

For every set of paths and directories, both formats, any limit on files, and any
number of events before the scan and between any two of its steps. Hypotheses:
the libraries a scan may find are `Consistent` (TLC evaluates it for those of
`checkpoints`; the images of `lineage_hang` that record each other are not, nor is a
second image of an identity that records itself), and for the two
theorems about a walk `MaxFiles <= MaxPath`, so that the model keeps the whole of
the path it walks.

`Inv` has four parts:

- `HistoryInv` is about `Seen`, all that the directory holds and all the scan has
  read of it, which may be two states of one disk: an identity names one contents
  in the history (`BornOK`), an image's `of` is what it was made from (`Known`),
  is older than the image (`Sane`), and an image that names itself is the only one
  of its identity (`Alone`);
- `ScanInv`: nodes stand in path order, what is still to be probed behind them,
  and links are what `ParentOf` gives for the nodes of a finished scan;
- `QuietInv`: while nothing happens, nodes are what is there, and every file is
  probed, or still to be probed, or in a directory still to be read;
- `WalkInv`: a walk goes from younger contents to older ones (`Falling`), which is
  why it is no longer than there are nodes.

That a link joins a disk to what it was made from (`LineageIsTrue`) then follows
although parent and child may have been probed at different times: the identity a
child records names one contents in the history, whatever has become of the file
since. `NothingIsLeftOut` goes up a lineage and down to a leaf by the same order.
`OpensAgree` follows the recorded paths and the links in step.

### The comparison: `DiskCompareProofs`

For every disk of any size, grain and layout, any number of files and of journal
records kept, every sequence of operations of the guest before and after the
checkpoint, and every case `Compare` is called in.

None of the four properties is inductive, and none speaks of what makes it true:
they are about a document, which is computed in one step from two states, so the
invariant (`GuestInv`, theorem `GuestInvariant`) has to say what those states are
like. It was checked by TLC on the instance of `change_diff`'s layouts before it was
proved.

- `SoundVolume`: every unit of a file and of a directory lies in the room of its
  volume, on the disk; no file has the number of another; only some filesystems have holes or
  forks;
- `Written`: what a file is marked as having had written lies in units written
  since the checkpoint;
- `JournalTrue`: a record names a slot and a generation it had, and where that is
  still the slot's generation, the file that is there;
- `Known`: no file has the number the next new one will get;
- `Since`, of a volume and its checkpoint: a slot's counter only rises; where it has
  not, it holds the file it held, and where it has, a file that was in no slot
  then. A volume that is not what it was had something written in its room;
- a document is `Document(c)` for a case `c`, so that the rest is about operators.

`OperationKeeps` is the step: an operation changes one file of one volume and
directories, writes what it touches and logs what it did; each action is shown to be one
(`CreateKeeps` to `WriteForkKeeps`).

The rest follows `Compare` down and up again.

- *Ranges.* `Coalesce` keeps the bytes and is normal; `Overlap` and `Clip` are intersections
  of bytes. With grains and the base of a partition, a byte of a clipped report is a
  unit of the volume in a grain that was written, and conversely.
- *Runs and extents.* A run of a map gives back the units it was made of, for each
  adapter's way of cutting them (holes, forks, data runs). `ChangedWithinIs`: the ranges
  of a file hold every byte whose unit was reported, and no other; a lost
  map is an error, but on NTFS, which passes an unreadable stream over.
- *Files.* Each adapter's walk, in one form for all six (`WalkIs`): an inventory is one entry
  for each live slot (`InventoryIs`), with an identity that tells the slot (`IdTellsSlot`).
- *Changes.* `ChangesAre`, `AllIs`, `AllHas`: what a diff lists is one change for each
  slot that was seen and one for each that is gone, and what corroboration and the
  limit leave of them.
- *Volumes.* What a comparison meets in either state, for each fault, volume by volume
  (`NewerIs`, `OlderIs`); `DocumentIs`: which comparisons a document is made of, and
  for which volumes it has a reason instead.
- *Failures.* `EvidenceIs`, `JournalRead`: what each failed reading of a journal leaves.
  `NotesOfFirst`: those notes are there exactly when that reading failed, and no change
  then has evidence. `FailedWalkIsTold`: a walk that failed on a volume that changed
  left its warning there.
- *Identity.* Where generations are kept, `SameIsSame`: two entries with one identity are
  one file, which is what `Since` is for. So the kind of a change is what happened to that file
  (`KindTells`), and what is called proven rests on a record in the window
  (`RecordTells`). Where they are not kept (HFS+, FAT, exFAT), nothing is said with more than an
  inference.

### Recursion

What a recursive definition computes is proved here by induction stated over
sets (`SetInduction`, `MeasureInduction` in `IndexLemmas`), with the existence of
the function it defines first (`RecursionExists`, `IterationExists`). That is why
the recursion of `ExtentMap`, `DiskImage`, `VhdxLog`, `CheckpointTree` and
`RangeSets` is written as functions.

### Only model-checked

Liveness under fairness, which is out of the prover's reach: `ReadsReturn`,
`OpenReturns` and `LineageReturns`. The properties of the three runs that expect a
violation are false, and the run is the counterexample.

## 5. Plan

Done: reads, the extent map with streaming, opening and closing of chains, the
log, image files, checkpoint trees and the comparison, each with its runs; every
safety property of every passing run as a theorem.

What is left, in order of weight:

1. Hard links, resident content and truncation in `FsVolume`.
2. A bitmap that cannot be read in a cut file (`DiskImage` cuts payload only).

## 6. Disagreements between code and documentation

Three runs expect a violation; each checks one sentence of the documentation,
and each is a bug.

- `extent_clearing`: `canMerge` joins cleared extents of different disks, and
  `ChangedExtents` then filters the joined extent by the first one's index, so it
  reports clearing by the wrong disk or misses it. With a single differencing
  disk the report is exact (`OneChildClearingIsExact`); for data it is exact on
  all chains (`ChangedDataIsExact`).
- `lineage_hang`: `linkTree` guards a node against itself but not two nodes
  against each other. Images that record each other as parent are linked in a
  circle, and `Lineage` follows it for ever.
- `journal_window`: `RenamesBetween` includes the record at its lower marker,
  which is the newest record of the older state; a rename made before the
  checkpoint is then evidence of one after it, and a file only modified is
  reported as renamed, and proven.

Further configurations are kept beside the regular runs; with each TLC
finds a property violated that the documentation says or suggests:

| Configuration | Module | Property | What it shows |
|---|---|---|---|
| `MCBestEffort.cfg` | `MCChainOpen` | `BestEffortOpens` | a chain longer than `MaxChainDepth` fails even an open that does not require its parent chain |
| `MCParentErr.cfg` | `MCChainOpen` | `ParentErrExplains` | once a parent is attached by hand, `ParentResolveError` outlives the reason it reports |
| `MCReplaceParent.cfg` | `MCChainOpen` | `NothingLeaks` | `SetParent` over an automatically opened parent leaks it |
| `MCLendParent.cfg` | `MCChainOpen` | `HandAttachedLeftAlone` | ownership is a flag of the parent, so a disk attached by hand is closed by its second child if it was opened automatically for its first |
| `MCProbe.cfg` | `MCVhdxFile` | `ProbeAgreesWithOpen` | a probe does not replay the log because "it cannot change any field this returns" (`probe.go:202`); a log that holds a metadata sector does |
| `MCUnreadMap.cfg` | `MCDiskCompare` | `UnreadMapsNoted` | an NTFS stream whose runs cannot be read is passed over (`ntfs.go:218`), so a changed file is neither reported nor noted, against `diff.go:195` |

Reproduce one with `tlc -workers 2 -config MCProbe.cfg MCVhdxFile`.

## 7. Not modelled

Byte decoding of footers, headers, metadata text and locators (a structure is
sound or not); checksums beyond that bit; filesystem parsers, which are not in
this repository; content kept inside a filesystem's own records, the read-only
wrapper, and the locks around the FAT and exFAT indexes; JSON reports other than
`report.Change`; descriptions, geometry, warnings and provenance, which are
accessors; cancellation, except of a scan, where it decides whether there is a
tree; the error of a stream's visitor; a comparison that returns an error and no
document; the facade, codecs, build information and examples. `PROJECT.json` lists
each with its reason.
