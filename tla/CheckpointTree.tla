--------------------------- MODULE CheckpointTree ---------------------------
(***************************************************************************)
(* DiscoverChain over a directory that is in use.  A hypervisor takes      *)
(* checkpoints, writes, copies, renames, deletes and damages images while  *)
(* the scan lists the directory, probes one file after another, links      *)
(* children to parents by identity and hands out lineages.  The library    *)
(* also opens a leaf by following recorded paths (ParentSearch): a second, *)
(* independent way to the same chain.                                      *)
(*                                                                         *)
(* An image is [id, gen, diff, want, hints, ok, of]: its own identifier,   *)
(* its data-write identifier, whether it is a differencing image, the      *)
(* parent identity and paths it records, whether it can be probed, and a   *)
(* ghost, the contents it was taken from.  Identity 0 is the zero GUID.    *)
(***************************************************************************)
EXTENDS ParentSearch, Integers, FiniteSets, Functions

CONSTANTS
  PathOrder,      \* every path an image may have, in the order the scan sorts them
  ImageNames,     \* the file names with a disk extension
  Dirs,           \* the directories, in the order WalkDir reads them; the first is the root
  ExtraDirs,      \* the directories a caller adds to DirParentResolver
  Libraries,      \* the directories a scan may find: functions from paths to images
  FirstNew,       \* an identifier that no image of theirs has or records, nor any after it
  MaxFiles,       \* DiscoverOptions.MaxFiles
  MaxEvents,      \* bound: what happens to the directory in one behaviour
  MaxPath         \* bound: names of a lineage the model keeps while it is walked

ASSUME BoundsAssumption ==
  MaxFiles \in Nat \ {0} /\ MaxEvents \in Nat /\ MaxPath \in Nat /\ FirstNew \in Nat \ {0}
\* No file is listed twice, and every file is in one of the directories.
ASSUME PathsAssumption ==
  /\ PathOrder \in Seq(Range(PathOrder))
  /\ \A i, j \in DOMAIN PathOrder : PathOrder[i] = PathOrder[j] => i = j
ASSUME DirsAssumption ==
  /\ Dirs \in Seq(Range(Dirs)) /\ Dirs # <<>> /\ Dirs[1] = <<>>
  /\ \A i \in DOMAIN PathOrder : Dir(PathOrder[i]) \in Range(Dirs)

VARIABLES
  fmt,            \* the format of every image here: a chain has one
  lib,            \* the images, by path
  fresh,          \* the next identifier nobody has used
  events,         \* how many things have happened to the directory
  born,           \* history: the contents each image was made from, by its own
  scan,           \* DiscoverChain
  nodes,          \* Tree.Nodes
  links,          \* Node.Parent by node index, 0 for none
  walk,           \* Tree.Lineage: [at, path], at the node cur, path the nodes so far
  quiet           \* history: nothing has happened since the scan began

dirVars  == <<lib, fresh, events, born, quiet>>
scanVars == <<scan, nodes, links, walk>>
vars     == <<fmt, dirVars, scanVars>>

Paths == Range(PathOrder)
Content(img) == <<img.id, img.gen>>
NoContent == <<0, -1>>

-----------------------------------------------------------------------------
(* Reading one image.                                                       *)

\* Mutant: the identifier stands for the image in both formats.
LinkIdentityById(f, img) == img.id

\* DiskInfo.LinkIdentity: what a child names its parent by.
LinkIdentity(f, img) == IF f = "VHD" THEN img.id ELSE img.gen

\* ProbeFile: a missing or unreadable file is a node that carries the error.
Blank == [id |-> 0, gen |-> 0, diff |-> FALSE, want |-> 0, hints |-> <<>>, ok |-> FALSE,
          of |-> NoContent]
ProbeFile(p) == IF p \in DOMAIN lib /\ lib[p].ok
                  THEN [path |-> p, err |-> FALSE, info |-> lib[p]]
                  ELSE [path |-> p, err |-> TRUE, info |-> Blank]

\* Mutant: an image that names itself is linked to itself.
ParentOfUnguarded(ns, c) ==
  LET named == {n \in DOMAIN ns : ~ns[n].err /\ LinkIdentity(fmt, ns[n].info) = ns[c].info.want}
  IN  IF ns[c].err \/ ~ns[c].info.diff \/ ns[c].info.want = 0 \/ named = {} THEN 0
      ELSE CHOOSE n \in named : \A m \in named : n <= m

\* Mutant: only an image probed before its child can be its parent.
ParentOfBackwards(ns, c) ==
  LET named == {n \in DOMAIN ns : ~ns[n].err /\ n < c /\ LinkIdentity(fmt, ns[n].info) = ns[c].info.want}
  IN  IF ns[c].err \/ ~ns[c].info.diff \/ ns[c].info.want = 0 \/ named = {} THEN 0
      ELSE CHOOSE n \in named : \A m \in named : n <= m

\* byLink and linkTree: the first readable image by path with the identity the
\* child records, unless that is the child; a zero identity names nothing.
ParentOf(ns, c) ==
  LET child == ns[c]
      named == {n \in DOMAIN ns : ~ns[n].err /\ LinkIdentity(fmt, ns[n].info) = child.info.want}
      first == CHOOSE n \in named : \A m \in named : n <= m
  IN  IF \/ child.err \/ ~child.info.diff \/ child.info.want = 0
         \/ named = {} \/ first = c
      THEN 0 ELSE first

-----------------------------------------------------------------------------
(* The tree.                                                                *)

IsLeaf(n) == \A c \in DOMAIN links : links[c] # n

\* The nodes of Lineage(n), n first; only while the links form no circle.
UpFrom(n) ==
  LET up[k \in 0..Len(nodes)] == IF k = 0 THEN n ELSE IF up[k - 1] = 0 THEN 0 ELSE links[up[k - 1]]
  IN  up
Upwards(n) ==
  LET up == UpFrom(n)
      len == CHOOSE k \in 0..Len(nodes) : up[k] = 0 /\ \A j \in 0..(k - 1) : up[j] # 0
  IN  [k \in 1..len |-> up[k - 1]]

\* Lineage.Complete: it starts at a disk that needs no parent.
Complete(path) ==
  LET root == nodes[path[Len(path)]] IN ~root.err /\ ~root.info.diff

-----------------------------------------------------------------------------
(* Opening by path.                                                         *)

\* Mutant: the located file is taken for the parent unverified.
VerifyParentNot(child, parent) == TRUE

\* verifyParent over disks of one size: the recorded identity, when there is one.
VerifyParent(child, parent) ==
  child.want = 0 \/ LinkIdentity(fmt, parent) = child.want

Search(kind, p) == IF kind = "dir" THEN DirSearch(p, lib[p].hints, ExtraDirs)
                                   ELSE FsSearch(p, lib[p].hints)

\* resolveChain: follow the recorded paths from p, p first, until an image that
\* needs no parent or one that cannot be found, opened, verified, or was met.
Deeper(kind, chain) ==
  LET p   == chain[Len(chain)]
      src == FirstFile(Search(kind, p), DOMAIN lib)
  IN  IF /\ lib[p].diff /\ src \in DOMAIN lib
         /\ lib[src].ok /\ VerifyParent(lib[p], lib[src])
         /\ \A i \in DOMAIN chain : chain[i] # src
      THEN Append(chain, src) ELSE chain
Resolved(kind, p) ==
  LET upTo[k \in 0..Len(PathOrder)] == IF k = 0 THEN <<p>> ELSE Deeper(kind, upTo[k - 1])
  IN  upTo[Len(PathOrder)]

-----------------------------------------------------------------------------
(* What happens to the directory meanwhile.                                 *)

\* A tree holds what was probed, so only what happens until then matters to it.
Happens == /\ events < MaxEvents /\ scan.pc \in {"idle", "list"}
           /\ events' = events + 1 /\ quiet' = (scan.pc = "idle")
Identity(f, k) == IF f = "VHD" THEN k[1] ELSE k[2]
Recorded(img) == Identity(fmt, Content(img))
\* A damaged record.  Such an image stays what and where it is: whoever would
\* write to it cannot open it.
Selfish(f, img) == img.diff /\ img.want = Identity(f, Content(img))
NamesItself(img) == Selfish(fmt, img)
Free == Paths \ DOMAIN lib
With(f, x, y) == [z \in DOMAIN f \cup {x} |-> IF z = x THEN y ELSE f[z]]

\* A new differencing image on top of p.  It records p's identity, p's place,
\* and p's place seen from its own.
TakeCheckpoint(p, q) ==
  /\ Happens /\ lib[p].ok /\ q \in Free
  /\ LET up  == [i \in DOMAIN Dir(q) |-> ".."] \o p
         img == [id |-> fresh, gen |-> fresh, diff |-> TRUE, want |-> Recorded(lib[p]),
                 hints |-> <<[absolute |-> TRUE, path |-> p], [absolute |-> FALSE, path |-> up]>>,
                 ok |-> TRUE, of |-> Content(lib[p])]
     IN  /\ lib' = With(lib, q, img)
         /\ born' = With(born, Content(img), img.of)
  /\ fresh' = fresh + 1
  /\ UNCHANGED <<fmt, scanVars>>

\* A VHDX written to gets a new data-write identifier.  A VHD keeps its
\* identifier, so a VHD here is written only before it is a parent or copied,
\* when nobody can tell.
Write(p) ==
  /\ Happens /\ fmt = "VHDX" /\ lib[p].ok /\ ~NamesItself(lib[p])
  /\ lib' = [lib EXCEPT ![p].gen = fresh]
  /\ born' = With(born, <<lib[p].id, fresh>>, lib[p].of)
  /\ fresh' = fresh + 1
  /\ UNCHANGED <<fmt, scanVars>>

Copy(p, q) ==
  /\ Happens /\ q \in Free /\ ~NamesItself(lib[p])
  /\ lib' = With(lib, q, lib[p])
  /\ UNCHANGED <<fmt, fresh, born, scanVars>>

Rename(p, q) ==
  /\ Happens /\ q \in Free /\ ~NamesItself(lib[p])
  /\ lib' = [r \in (DOMAIN lib \ {p}) \cup {q} |-> IF r = q THEN lib[p] ELSE lib[r]]
  /\ UNCHANGED <<fmt, fresh, born, scanVars>>

Delete(p) ==
  /\ Happens /\ lib' = [r \in DOMAIN lib \ {p} |-> lib[r]]
  /\ UNCHANGED <<fmt, fresh, born, scanVars>>

Damage(p) ==
  /\ Happens /\ lib[p].ok /\ lib' = [lib EXCEPT ![p].ok = FALSE]
  /\ UNCHANGED <<fmt, fresh, born, scanVars>>

-----------------------------------------------------------------------------
(* DiscoverChain.                                                           *)

\* A scan begins; dirs are the directories it has yet to read.
StartScan(recursive) ==
  /\ scan.pc = "idle"
  /\ scan' = [pc |-> "list", files |-> {}, recursive |-> recursive,
               dirs |-> IF recursive THEN Dirs ELSE <<Dirs[1]>>]
  /\ quiet' = TRUE
  /\ UNCHANGED <<fmt, lib, fresh, events, born, nodes, links, walk>>

Wanted(p) == p[Len(p)] \in ImageNames

\* Mutant: one file more than the limit is let through.
TooManyOffByOne(n) == n > MaxFiles + 1

TooMany(n) == n > MaxFiles

\* WalkDir reads one directory; one file too many ends the scan.
ListDir ==
  /\ scan.pc = "list" /\ scan.dirs # <<>>
  /\ LET files == scan.files \cup {p \in DOMAIN lib : Dir(p) = Head(scan.dirs) /\ Wanted(p)}
     IN  scan' = IF TooMany(Cardinality(files))
                   THEN [scan EXCEPT !.pc = "failed"]
                   ELSE [scan EXCEPT !.files = files, !.dirs = Tail(@)]
  /\ UNCHANGED <<fmt, dirVars, nodes, links, walk>>

\* sort.Strings: the file that comes first.
FirstOf(files) ==
  PathOrder[CHOOSE i \in DOMAIN PathOrder :
              PathOrder[i] \in files /\ \A j \in DOMAIN PathOrder : PathOrder[j] \in files => i <= j]

\* Mutant: a file that cannot be probed is dropped.
AddNodeReadable(ns, node) == IF node.err THEN ns ELSE Append(ns, node)

\* A node for every file, the unreadable ones too.
AddNode(ns, node) == Append(ns, node)

ProbeNext ==
  /\ scan.pc = "list" /\ scan.dirs = <<>> /\ scan.files # {}
  /\ LET p == FirstOf(scan.files)
     IN  /\ nodes' = AddNode(nodes, ProbeFile(p))
         /\ scan' = [scan EXCEPT !.files = @ \ {p}]
  /\ UNCHANGED <<fmt, dirVars, links, walk>>

LinkTree ==
  /\ scan.pc = "list" /\ scan.dirs = <<>> /\ scan.files = {}
  /\ links' = [c \in DOMAIN nodes |-> ParentOf(nodes, c)]
  /\ scan' = [scan EXCEPT !.pc = "done"]
  /\ UNCHANGED <<fmt, dirVars, nodes, walk>>

\* The context is cancelled between two files: no tree.
Cancel ==
  /\ scan.pc = "list"
  /\ scan' = [scan EXCEPT !.pc = "failed"]
  /\ UNCHANGED <<fmt, dirVars, nodes, links, walk>>

\* Tree.Lineage of any node, one parent at a time.  The code appends without
\* end on a circle; the model keeps the first MaxPath of them.
StartWalk(n) ==
  /\ scan.pc = "done" /\ walk = [at |-> 0, path |-> <<>>]
  /\ walk' = [at |-> n, path |-> <<>>]
  /\ UNCHANGED <<fmt, dirVars, scan, nodes, links>>

WalkUp ==
  /\ walk.at # 0
  /\ walk' = [at   |-> links[walk.at],
              path |-> IF Len(walk.path) < MaxPath THEN Append(walk.path, walk.at) ELSE walk.path]
  /\ UNCHANGED <<fmt, dirVars, scan, nodes, links>>

-----------------------------------------------------------------------------
\* What a directory is like that nobody tampered with, whichever way it came to
\* be, but for damaged records: an identity belongs to one state of one disk,
\* which is older than all that was made from it.
Consistent(f, l) ==
  /\ DOMAIN l \subseteq Paths
  /\ \A p \in DOMAIN l : LET x == l[p] IN
       /\ x = [id |-> x.id, gen |-> x.gen, diff |-> x.diff, want |-> x.want,
               hints |-> x.hints, ok |-> x.ok, of |-> x.of]
       /\ {x.id, x.gen, x.want} \subseteq 0..(FirstNew - 1) /\ {x.diff, x.ok} \subseteq BOOLEAN
       /\ x.gen = 0 => x.id = 0
       /\ IF ~x.diff THEN x.of = NoContent
          ELSE /\ x.of \in Nat \X Nat
               /\ ~Selfish(f, x) => /\ x.want = Identity(f, x.of)
                                    /\ x.of[2] < x.gen /\ (x.of[2] = 0 => x.of[1] = 0)
  /\ \A p, q \in DOMAIN l : LET x == l[p]  y == l[q] IN
       /\ Content(x) = Content(y) => x.of = y.of
       /\ Identity(f, Content(x)) = Identity(f, Content(y)) =>
            Content(x) = Content(y) \/ Identity(f, Content(x)) = 0
       /\ Selfish(f, x) /\ Identity(f, Content(y)) = x.want => p = q
       /\ x.diff /\ ~Selfish(f, x) /\ x.want # 0 /\ Identity(f, Content(y)) = x.want => Content(y) = x.of

Init ==
  /\ fmt \in {"VHD", "VHDX"}
  /\ lib \in Libraries
  /\ fresh = FirstNew
  /\ born = [k \in {Content(lib[p]) : p \in DOMAIN lib} |->
               lib[CHOOSE p \in DOMAIN lib : Content(lib[p]) = k].of]
  /\ events = 0 /\ quiet = TRUE
  /\ scan = [pc |-> "idle", files |-> {}, recursive |-> FALSE, dirs |-> <<>>]
  /\ nodes = <<>> /\ links = <<>> /\ walk = [at |-> 0, path |-> <<>>]

Happening ==
  \/ \E p \in DOMAIN lib : Write(p) \/ Delete(p) \/ Damage(p)
  \/ \E p \in DOMAIN lib, q \in Free : TakeCheckpoint(p, q) \/ Copy(p, q) \/ Rename(p, q)

Scanning == ListDir \/ ProbeNext \/ LinkTree
Walking  == WalkUp

Next ==
  \/ Happening \/ Scanning \/ Walking \/ Cancel
  \/ \E r \in BOOLEAN : StartScan(r)
  \/ \E n \in DOMAIN links : StartWalk(n)

Spec == Init /\ [][Next]_vars /\ WF_vars(Scanning) /\ WF_vars(Walking)

-----------------------------------------------------------------------------
(* Properties.                                                              *)

\* Nodes are files with a disk extension, in path order and at most MaxFiles of
\* them; a link joins two different nodes.
TypeOK ==
  /\ DOMAIN lib \subseteq Paths /\ events \in 0..MaxEvents
  /\ \A p \in DOMAIN lib : Content(lib[p]) \in DOMAIN born
  /\ scan.pc \in {"idle", "list", "done", "failed"}
  /\ \A i, j \in DOMAIN nodes, m, n \in DOMAIN PathOrder :
       nodes[i].path = PathOrder[m] /\ nodes[j].path = PathOrder[n] /\ i < j => m < n
  /\ Len(nodes) <= MaxFiles /\ \A i \in DOMAIN nodes : nodes[i].path \in Paths /\ Wanted(nodes[i].path)
  /\ \A c \in DOMAIN links : links[c] \in 0..Len(nodes) /\ links[c] # c

\* What the disk with contents k was made from, and what a whole ancestry is: it
\* goes on until the contents of a base.
MadeFrom(k) == IF k \in DOMAIN born THEN born[k] ELSE NoContent
Descends(ks) == \A i \in DOMAIN ks : i + 1 \in DOMAIN ks => ks[i + 1] = MadeFrom(ks[i])
ToABase(ks)  == \A i \in DOMAIN ks : i + 1 \notin DOMAIN ks => MadeFrom(ks[i]) = NoContent
ContentsOf(path) == [i \in DOMAIN path |-> Content(nodes[path[i]].info)]
Walked == walk.at = 0 /\ walk.path # <<>> /\ ~nodes[walk.path[1]].err

\* Whatever happens to the directory while it is scanned, a lineage never names
\* an image the disk was not built from, and one that says it is complete is the
\* whole ancestry of its leaf: linkTree joins by identity alone.
LineageIsTrue ==
  Walked => LET got == ContentsOf(walk.path)
            IN  Descends(got) /\ (Complete(walk.path) => ToABase(got))

\* Nor does a lineage end before it must: what its last image was made from is
\* not among the readable ones listed, or has no identity to be named by, or the
\* record of it is damaged.
LineageIsWhole ==
  Walked =>
    LET last  == nodes[walk.path[Len(walk.path)]].info
        next  == MadeFrom(Content(last))
    IN  \/ next = NoContent \/ next[1] = 0 \/ NamesItself(last)
        \/ \A n \in DOMAIN nodes : nodes[n].err \/ Content(nodes[n].info) # next

\* In a directory left alone every image file is a node, unreadable ones too,
\* and every node is on the lineage of some leaf, so Lineages leaves nothing out.
NothingLeftOut ==
  quiet /\ scan.pc = "done" /\ walk.path = <<>> =>
    /\ {nodes[n].path : n \in DOMAIN nodes} =
         {p \in DOMAIN lib : Wanted(p) /\ (scan.recursive \/ Dir(p) = <<>>)}
    /\ \A n \in DOMAIN nodes : nodes[n].err <=> ~lib[nodes[n].path].ok
    /\ \A n \in DOMAIN nodes : \E leaf \in DOMAIN nodes :
         IsLeaf(leaf) /\ n \in Range(Upwards(leaf))

\* Two ways to one chain agree: when an open that follows recorded paths gets to
\* a base, with an identity to check at every step, it has read the ancestry of
\* the leaf, and the tree of a directory that lists those files has the same
\* contents on a complete lineage.  For both resolvers.
OpenAgreesWithTree ==
  quiet /\ scan.pc = "done" /\ walk.path = <<>> =>
    \A n \in DOMAIN nodes, kind \in {"dir", "fs"} : ~nodes[n].err =>
      LET chain   == Resolved(kind, nodes[n].path)
          got     == [i \in DOMAIN chain |-> Content(lib[chain[i]])]
          whole   == ~lib[chain[Len(chain)]].diff
          checked == \A i \in DOMAIN chain : lib[chain[i]].diff => lib[chain[i]].want # 0
          listed  == \A i \in DOMAIN chain : \E m \in DOMAIN nodes : nodes[m].path = chain[i]
      IN  whole /\ checked =>
            /\ Descends(got) /\ ToABase(got)
            /\ listed => ContentsOf(Upwards(n)) = got /\ Complete(Upwards(n))

\* Lineage returns the path from the tree's root down to a node: once asked for,
\* it is there.  The walk is a loop in one goroutine, so it is weakly fair.
LineageReturns == walk.at # 0 ~> walk.at = 0
=============================================================================
