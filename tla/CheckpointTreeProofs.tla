------------------------ MODULE CheckpointTreeProofs ------------------------
(***************************************************************************)
(* Theorems about CheckpointTree: whatever the library held, provided it   *)
(* was Consistent, whatever happens to it during a scan and however much.  *)
(*                                                                         *)
(* What is seen is what the directory holds and what the scan has read of  *)
(* it, at whatever moment; the two may be different states of one disk.    *)
(***************************************************************************)
EXTENDS CheckpointTree, IndexLemmas, SequenceTheorems, FiniteSetTheorems

Readable == {n \in DOMAIN nodes : ~nodes[n].err}
Seen == {<<p, lib[p]>> : p \in DOMAIN lib} \cup {<<nodes[n].path, nodes[n].info>> : n \in Readable}
Key(x) == Identity(fmt, Content(x))
Link(x) == x.diff /\ ~NamesItself(x) /\ x.want # 0

\* What the theorems assume of what a scan may find.
AllConsistent == \A f \in {"VHD", "VHDX"}, l \in Libraries : Consistent(f, l)

-----------------------------------------------------------------------------
(* The inductive invariant.                                                 *)

\* A disk image as the environment makes them.
Sane(x) ==
  /\ x = [id |-> x.id, gen |-> x.gen, diff |-> x.diff, want |-> x.want,
          hints |-> x.hints, ok |-> x.ok, of |-> x.of]
  /\ x.id \in Nat /\ x.gen \in Nat /\ x.want \in Nat /\ x.diff \in BOOLEAN /\ x.ok \in BOOLEAN
  /\ x.id < fresh /\ x.gen < fresh /\ x.want < fresh
  /\ x.gen = 0 => x.id = 0
  /\ ~x.diff => x.of = NoContent
  /\ x.diff => x.of \in Nat \X Nat
  /\ x.diff /\ ~NamesItself(x) =>
       /\ x.want = Identity(fmt, x.of)
       /\ x.of[2] < x.gen /\ (x.of[2] = 0 => x.of[1] = 0)

\* The history knows the image, and at most one of its contents by the
\* identity that the image records.
Known(x) ==
  /\ Content(x) \in DOMAIN born /\ born[Content(x)] = x.of
  /\ Link(x) => \A k \in DOMAIN born : Identity(fmt, k) = x.want => k = x.of

BornOK ==
  /\ \A k \in DOMAIN born : k \in Nat \X Nat /\ Identity(fmt, k) < fresh
  /\ \A j, k \in DOMAIN born : Identity(fmt, j) = Identity(fmt, k) => j = k \/ Identity(fmt, k) = 0

\* An image that names itself is the only one of that identity.
Alone ==
  \A d, e \in Seen : NamesItself(d[2]) /\ Key(e[2]) = d[2].want => d[1] = e[1] /\ NamesItself(e[2])

HistoryInv ==
  /\ fmt \in {"VHD", "VHDX"} /\ fresh \in Nat \ {0}
  /\ DOMAIN lib \subseteq Paths
  /\ BornOK /\ Alone
  /\ \A e \in Seen : Sane(e[2]) /\ Known(e[2])

\* The scan: nodes in path order, the files still to come behind them.
ScanType ==
  /\ scan = [pc |-> scan.pc, files |-> scan.files, recursive |-> scan.recursive, dirs |-> scan.dirs]
  /\ scan.pc \in {"idle", "list", "done", "failed"} /\ scan.recursive \in BOOLEAN
  /\ scan.dirs \in Seq(Range(Dirs)) /\ scan.files \subseteq Paths /\ nodes \in Seq(Range(nodes))
  /\ events \in 0..MaxEvents /\ quiet \in BOOLEAN
ListedOK ==
  /\ Cardinality(scan.files) + Len(nodes) <= MaxFiles
  /\ \A p \in scan.files : Wanted(p)
  /\ \A n \in DOMAIN nodes : /\ nodes[n].path \in Paths /\ Wanted(nodes[n].path)
                             /\ nodes[n].err \in BOOLEAN /\ (nodes[n].err => nodes[n].info = Blank)
Ordered ==
  /\ \A i, j \in DOMAIN nodes, m, n \in DOMAIN PathOrder :
       nodes[i].path = PathOrder[m] /\ nodes[j].path = PathOrder[n] /\ i < j => m < n
  /\ \A i \in DOMAIN nodes, m, n \in DOMAIN PathOrder :
       nodes[i].path = PathOrder[m] /\ PathOrder[n] \in scan.files => m < n
Phases ==
  /\ scan.pc = "idle" => nodes = <<>> /\ scan.files = {}
  /\ scan.pc = "list" /\ scan.dirs # <<>> => nodes = <<>>
  /\ scan.pc = "done" => scan.files = {} /\ scan.dirs = <<>>
  /\ IF scan.pc = "done" THEN links = [c \in DOMAIN nodes |-> ParentOf(nodes, c)] ELSE links = <<>>
ScanInv == ScanType /\ ListedOK /\ Ordered /\ Phases
InScope(p) == scan.recursive \/ Dir(p) = <<>>

\* As long as nothing happens the nodes are what is there, and so is the list.
QuietInv ==
  quiet /\ scan.pc \in {"list", "done"} =>
    /\ \A n \in DOMAIN nodes : nodes[n] = ProbeFile(nodes[n].path)
    /\ \A p \in scan.files \cup {nodes[n].path : n \in DOMAIN nodes} :
         p \in DOMAIN lib /\ Wanted(p) /\ InScope(p)
    /\ \A p \in DOMAIN lib : Wanted(p) /\ InScope(p) =>
         \/ p \in scan.files \cup {nodes[n].path : n \in DOMAIN nodes}
         \/ Dir(p) \in Range(scan.dirs)
    /\ ~scan.recursive => Range(scan.dirs) \subseteq {<<>>}

\* A walk goes up the links, from younger to older states, and all of it is kept
\* when the bound on it leaves room for every node.
Age(n) == nodes[n].info.gen
Falling(s) == \A i, j \in DOMAIN s : i < j => Age(s[j]) < Age(s[i])
Climbing ==
  /\ \A i \in 1..(Len(walk.path) - 1) : links[walk.path[i]] = walk.path[i + 1]
  /\ walk.path # <<>> => links[walk.path[Len(walk.path)]] = walk.at
  /\ Falling(walk.path)
  /\ walk.at # 0 => \A i \in DOMAIN walk.path : Age(walk.at) < Age(walk.path[i])
WalkInv ==
  /\ walk = [at |-> walk.at, path |-> walk.path]
  /\ walk.at \in 0..Len(nodes) /\ walk.path \in Seq(1..Len(nodes))
  /\ scan.pc # "done" => walk = [at |-> 0, path |-> <<>>]
  /\ MaxFiles <= MaxPath => Climbing

Inv == HistoryInv /\ ScanInv /\ QuietInv /\ WalkInv

-----------------------------------------------------------------------------
(* What is seen, and what is known of it.                                   *)

\* What the directory holds is seen, and what is seen is there or was read.
LEMMA SeenThere == \A p \in DOMAIN lib : <<p, lib[p]>> \in Seen
  BY DEF Seen
LEMMA SeenRead == \A n \in Readable : <<nodes[n].path, nodes[n].info>> \in Seen
  BY DEF Seen
LEMMA SeenIs ==
  ASSUME NEW e \in Seen
  PROVE  \/ e[1] \in DOMAIN lib /\ e = <<e[1], lib[e[1]]>>
         \/ \E n \in Readable : e = <<nodes[n].path, nodes[n].info>> /\ e[1] = nodes[n].path
  BY DEF Seen

\* An image but for whether it can be read.
Same(x, y) == x = [y EXCEPT !.ok = x.ok] /\ x.ok \in BOOLEAN

\* Such an image is as good.
LEMMA SameKeeps ==
  ASSUME NEW x, NEW y, Same(x, y), Sane(y)
  PROVE  /\ Sane(x) /\ (Known(y) => Known(x)) /\ Content(x) = Content(y) /\ x.want = y.want
         /\ Key(x) = Key(y) /\ (NamesItself(x) <=> NamesItself(y))
<1>1. /\ x.id = y.id /\ x.gen = y.gen /\ x.diff = y.diff /\ x.want = y.want /\ x.hints = y.hints
      /\ x.of = y.of /\ x.ok \in BOOLEAN
      /\ x = [id |-> x.id, gen |-> x.gen, diff |-> x.diff, want |-> x.want,
              hints |-> x.hints, ok |-> x.ok, of |-> x.of]
  BY DEF Same, Sane
<1>2. Content(x) = Content(y)
  BY <1>1 DEF Content
<1>3. Key(x) = Key(y) /\ (NamesItself(x) <=> NamesItself(y))
  BY <1>1, <1>2 DEF Key, NamesItself, Selfish
<1>4. Sane(x)
  BY <1>1, <1>3 DEF Sane
<1>5. Known(y) => Known(x)
  BY <1>1, <1>2, <1>3 DEF Known, Link
<1> QED
  BY <1>1, <1>2, <1>3, <1>4, <1>5

\* Nothing is lost when no new contents come about, and no image that names
\* itself is put anywhere else.
LEMMA NothingNew ==
  ASSUME HistoryInv, fmt' = fmt, fresh' = fresh, born' = born, DOMAIN lib' \subseteq Paths,
         \A e \in Seen' : \E d \in Seen : Same(e[2], d[2]) /\ (e[1] = d[1] \/ ~NamesItself(d[2]))
  PROVE  HistoryInv'
<1>1. \A x : /\ (Sane(x) <=> Sane(x)') /\ (Known(x) <=> Known(x)') /\ Key(x) = Key(x)'
             /\ (NamesItself(x) <=> NamesItself(x)')
  BY DEF Sane, Known, Key, NamesItself, Link
<1>2. \A e \in Seen' : Sane(e[2])' /\ Known(e[2])'
  BY <1>1, SameKeeps DEF HistoryInv
<1>3. Alone'
  <2> SUFFICES ASSUME NEW e \in Seen', NEW f \in Seen', NamesItself(e[2]), Key(f[2]) = e[2].want
               PROVE  e[1] = f[1] /\ NamesItself(f[2])
    BY <1>1 DEF Alone
  <2>1. PICK c \in Seen : Same(e[2], c[2]) /\ (e[1] = c[1] \/ ~NamesItself(c[2]))
    OBVIOUS
  <2>2. PICK d \in Seen : Same(f[2], d[2]) /\ (f[1] = d[1] \/ ~NamesItself(d[2]))
    OBVIOUS
  <2>3. Sane(c[2]) /\ Sane(d[2])
    BY DEF HistoryInv
  <2>4. /\ NamesItself(c[2]) /\ e[2].want = c[2].want
        /\ Key(f[2]) = Key(d[2]) /\ (NamesItself(f[2]) <=> NamesItself(d[2]))
    BY <2>1, <2>2, <2>3, SameKeeps
  <2>5. c[1] = d[1] /\ NamesItself(d[2])
    BY <2>4 DEF HistoryInv, Alone
  <2> QED
    BY <2>1, <2>2, <2>4, <2>5
<1>4. BornOK'
  BY DEF HistoryInv, BornOK
<1> QED
  BY <1>2, <1>3, <1>4 DEF HistoryInv

\* New contents are told apart from all there were.
LEMMA NewContents ==
  ASSUME HistoryInv, NEW x, fmt' = fmt, fresh' = fresh + 1, DOMAIN lib' \subseteq Paths,
         born' = With(born, Content(x), x.of), Sane(x)', Key(x) = fresh, x.want < fresh,
         Link(x) => \A k \in DOMAIN born : Identity(fmt, k) = x.want => k = x.of,
         \A e \in Seen' : e \in Seen \/ e[2] = x
  PROVE  HistoryInv'
<1>0. fresh \in Nat
  BY DEF HistoryInv
<1>1. /\ Content(x) \notin DOMAIN born /\ Content(x) \in Nat \X Nat
      /\ Identity(fmt, Content(x)) = fresh
  BY <1>0 DEF HistoryInv, BornOK, Key, Sane, Content
<1>2. /\ DOMAIN born' = DOMAIN born \cup {Content(x)} /\ born'[Content(x)] = x.of
      /\ \A k \in DOMAIN born : born'[k] = born[k]
  BY <1>1 DEF With
<1>3. ~NamesItself(x)
  BY <1>0, <1>1 DEF NamesItself, Selfish, Sane
<1>4. \A y : Key(y)' = Key(y) /\ (NamesItself(y)' <=> NamesItself(y)) /\ (Link(y)' <=> Link(y))
  BY DEF Key, NamesItself, Link
<1>5. ASSUME NEW y, Sane(y), Known(y) PROVE Sane(y)' /\ Known(y)'
  <2>1. Sane(y)'
    BY <1>0, <1>4, <1>5 DEF Sane
  <2>2. Link(y) => \A k \in DOMAIN born' : Identity(fmt, k) = y.want => k = y.of
    BY <1>0, <1>1, <1>2, <1>5 DEF Known, Sane
  <2>3. Content(y) \in DOMAIN born' /\ born'[Content(y)] = y.of
    BY <1>2, <1>5 DEF Known
  <2> QED
    BY <1>4, <2>1, <2>2, <2>3 DEF Known
<1>6. Known(x)'
  <2>1. Link(x) => \A k \in DOMAIN born' : Identity(fmt, k) = x.want => k = x.of
    BY <1>0, <1>1, <1>2 DEF Sane
  <2> QED
    BY <1>2, <1>4, <2>1 DEF Known
<1>7. \A e \in Seen' : Sane(e[2])' /\ Known(e[2])'
  BY <1>5, <1>6 DEF HistoryInv
<1>8. Alone'
  <2> SUFFICES ASSUME NEW e \in Seen', NEW f \in Seen', NamesItself(e[2]), Key(f[2]) = e[2].want
               PROVE  e[1] = f[1] /\ NamesItself(f[2])
    BY <1>4 DEF Alone
  <2>1. e \in Seen
    BY <1>3
  <2>2. e[2].want < fresh /\ e[2].want \in Nat
    BY <2>1 DEF HistoryInv, Sane
  <2>3. f \in Seen
    BY <1>0, <1>1, <2>2 DEF Key
  <2> QED
    BY <2>1, <2>3 DEF HistoryInv, Alone
<1>9. BornOK'
  <2>1. \A k \in DOMAIN born' : k \in Nat \X Nat /\ Identity(fmt, k) < fresh + 1
    <3> SUFFICES ASSUME NEW k \in DOMAIN born' PROVE k \in Nat \X Nat /\ Identity(fmt, k) < fresh + 1
      OBVIOUS
    <3>1. CASE k \in DOMAIN born
      <4>1. k \in Nat \X Nat /\ Identity(fmt, k) < fresh /\ Identity(fmt, k) \in Nat
        BY <3>1 DEF HistoryInv, BornOK, Identity
      <4> QED
        BY <1>0, <4>1
    <3>2. CASE k = Content(x)
      BY <1>0, <1>1, <3>2
    <3> QED
      BY <1>2, <3>1, <3>2
  <2>2. \A k \in DOMAIN born : Identity(fmt, k) # fresh
    BY <1>0 DEF HistoryInv, BornOK
  <2>3. \A j, k \in DOMAIN born' : Identity(fmt, j) = Identity(fmt, k) => j = k \/ Identity(fmt, k) = 0
    BY <1>1, <1>2, <2>2 DEF HistoryInv, BornOK
  <2> QED
    BY <2>1, <2>3 DEF BornOK
<1> QED
  BY <1>0, <1>7, <1>8, <1>9 DEF HistoryInv

-----------------------------------------------------------------------------
(* The history through every action.                                        *)

LEMMA HistoryInit == ASSUME Init, AllConsistent PROVE HistoryInv
<1>1. /\ fmt \in {"VHD", "VHDX"} /\ Consistent(fmt, lib) /\ fresh = FirstNew /\ nodes = <<>>
      /\ born = [k \in {Content(lib[p]) : p \in DOMAIN lib} |->
                   lib[CHOOSE p \in DOMAIN lib : Content(lib[p]) = k].of]
  BY DEF Init, AllConsistent
<1>2. \A e \in Seen : e[1] \in DOMAIN lib /\ e[2] = lib[e[1]]
  BY <1>1 DEF Seen, Readable
<1>3. \A p \in DOMAIN lib : Content(lib[p]) \in DOMAIN born /\ born[Content(lib[p])] = lib[p].of
  BY <1>1 DEF Consistent
<1>4. \A k \in DOMAIN born : \E p \in DOMAIN lib : k = Content(lib[p])
  BY <1>1
<1>5. \A p \in DOMAIN lib : Sane(lib[p])
  BY <1>1, BoundsAssumption DEF Consistent, Sane, NamesItself
<1>6. \A p \in DOMAIN lib : Known(lib[p])
  <2> SUFFICES ASSUME NEW p \in DOMAIN lib, Link(lib[p]), NEW k \in DOMAIN born, Identity(fmt, k) = lib[p].want
               PROVE  k = lib[p].of
    BY <1>3 DEF Known
  <2>1. PICK q \in DOMAIN lib : k = Content(lib[q])
    BY <1>4
  <2> QED
    BY <1>1, <2>1 DEF Consistent, Link, NamesItself
<1>7. BornOK
  <2>1. ASSUME NEW k \in DOMAIN born PROVE k \in Nat \X Nat /\ Identity(fmt, k) < fresh
    <3>1. PICK p \in DOMAIN lib : k = Content(lib[p])
      BY <1>4
    <3> QED
      BY <1>5, <3>1 DEF Sane, Content, Identity
  <2>2. ASSUME NEW j \in DOMAIN born, NEW k \in DOMAIN born, Identity(fmt, j) = Identity(fmt, k)
        PROVE  j = k \/ Identity(fmt, k) = 0
    <3>1. PICK p \in DOMAIN lib : j = Content(lib[p])
      BY <1>4
    <3>2. PICK q \in DOMAIN lib : k = Content(lib[q])
      BY <1>4
    <3> QED
      BY <1>1, <2>2, <3>1, <3>2 DEF Consistent
  <2> QED
    BY <2>1, <2>2 DEF BornOK
<1>8. Alone
  BY <1>1, <1>2 DEF Alone, Consistent, NamesItself, Key
<1>9. DOMAIN lib \subseteq Paths
  BY <1>1 DEF Consistent
<1> QED
  BY <1>1, <1>2, <1>5, <1>6, <1>7, <1>8, <1>9, BoundsAssumption DEF HistoryInv

LEMMA CheckpointHistory ==
  ASSUME HistoryInv, NEW p \in DOMAIN lib, NEW q \in Free, TakeCheckpoint(p, q) PROVE HistoryInv'
<1>1. PICK img : /\ lib' = With(lib, q, img) /\ born' = With(born, Content(img), img.of)
                 /\ fresh' = fresh + 1 /\ fmt' = fmt /\ nodes' = nodes
                 /\ img = [id |-> fresh, gen |-> fresh, diff |-> TRUE, want |-> Recorded(lib[p]),
                           hints |-> img.hints, ok |-> TRUE, of |-> Content(lib[p])]
  BY DEF TakeCheckpoint, scanVars
<1>2. <<p, lib[p]>> \in Seen
  BY SeenThere
<1>3. Sane(lib[p]) /\ Known(lib[p])
  BY <1>2 DEF HistoryInv
<1>4. /\ fresh \in Nat \ {0} /\ fmt \in {"VHD", "VHDX"}
      /\ Content(lib[p]) = <<lib[p].id, lib[p].gen>> /\ Recorded(lib[p]) = Identity(fmt, Content(lib[p]))
      /\ Recorded(lib[p]) \in Nat /\ Recorded(lib[p]) < fresh
  BY <1>3 DEF HistoryInv, Sane, Content, Recorded, Identity
<1>5. /\ img = [id |-> img.id, gen |-> img.gen, diff |-> img.diff, want |-> img.want,
                hints |-> img.hints, ok |-> img.ok, of |-> img.of]
      /\ img.id = fresh /\ img.gen = fresh /\ img.diff = TRUE /\ img.want = Recorded(lib[p])
      /\ img.of = Content(lib[p]) /\ img.ok = TRUE
  BY <1>1
<1>6. img.want = Identity(fmt, img.of) /\ Content(img) = <<fresh, fresh>> /\ Key(img) = fresh
  BY <1>4, <1>5 DEF Content, Key, Identity
<1>7. Sane(img)'
  <2>1. img.of \in Nat \X Nat /\ img.of[2] < img.gen /\ (img.of[2] = 0 => img.of[1] = 0)
    BY <1>3, <1>4, <1>5 DEF Sane
  <2>2. img.id \in Nat /\ img.gen \in Nat /\ img.want \in Nat /\ img.gen # 0
    BY <1>4, <1>5
  <2>3. img.id < fresh' /\ img.gen < fresh' /\ img.want < fresh' /\ fmt' = fmt
    BY <1>1, <1>4, <1>5
  <2> QED
    BY <1>5, <1>6, <2>1, <2>2, <2>3 DEF Sane
<1>8. Link(img) => \A k \in DOMAIN born : Identity(fmt, k) = img.want => k = img.of
  <2>1. Content(lib[p]) \in DOMAIN born
    BY <1>3 DEF Known
  <2> QED
    BY <1>5, <1>6, <2>1 DEF HistoryInv, BornOK, Link
<1>9. \A e \in Seen' : e \in Seen \/ e[2] = img
  BY <1>1 DEF Seen, With, Readable
<1>10. DOMAIN lib' \subseteq Paths
  BY <1>1 DEF With, HistoryInv, Free
<1>11. img.want < fresh
  BY <1>4, <1>5
<1> QED
  BY <1>1, <1>6, <1>7, <1>8, <1>9, <1>10, <1>11, NewContents

LEMMA WriteHistory == ASSUME HistoryInv, NEW p \in DOMAIN lib, Write(p) PROVE HistoryInv'
<1>1. PICK img : /\ lib' = [lib EXCEPT ![p] = img] /\ born' = With(born, <<lib[p].id, fresh>>, lib[p].of)
                 /\ fresh' = fresh + 1 /\ fmt' = fmt /\ nodes' = nodes /\ fmt = "VHDX"
                 /\ ~NamesItself(lib[p]) /\ img = [lib[p] EXCEPT !.gen = fresh]
  BY DEF Write, scanVars
<1>2. <<p, lib[p]>> \in Seen
  BY SeenThere
<1>3. Sane(lib[p]) /\ Known(lib[p]) /\ fresh \in Nat \ {0}
  BY <1>2 DEF HistoryInv
<1>4. /\ img = [id |-> img.id, gen |-> img.gen, diff |-> img.diff, want |-> img.want,
                hints |-> img.hints, ok |-> img.ok, of |-> img.of]
      /\ img.id = lib[p].id /\ img.gen = fresh /\ img.diff = lib[p].diff /\ img.want = lib[p].want
      /\ img.of = lib[p].of /\ img.ok = lib[p].ok
  BY <1>1, <1>3 DEF Sane
<1>5. Content(img) = <<lib[p].id, fresh>> /\ Key(img) = fresh
  BY <1>1, <1>4 DEF Content, Key, Identity
<1>6. Sane(img)'
  BY <1>1, <1>3, <1>4 DEF Sane
<1>7. Link(img) => \A k \in DOMAIN born : Identity(fmt, k) = img.want => k = img.of
  BY <1>1, <1>3, <1>4 DEF Link, Known
<1>8. \A e \in Seen' : e \in Seen \/ e[2] = img
  BY <1>1 DEF Seen, Readable
<1>9. DOMAIN lib' \subseteq Paths /\ img.want < fresh
  BY <1>1, <1>3, <1>4 DEF HistoryInv, Sane
<1> QED
  BY <1>1, <1>4, <1>5, <1>6, <1>7, <1>8, <1>9, NewContents

\* An image that is what it was, where it was or somewhere else, adds nothing.
LEMMA SeenSame == ASSUME NEW e \in Seen, Sane(e[2]) PROVE Same(e[2], e[2])
<1>1. e[2] = [id |-> e[2].id, gen |-> e[2].gen, diff |-> e[2].diff, want |-> e[2].want,
              hints |-> e[2].hints, ok |-> e[2].ok, of |-> e[2].of] /\ e[2].ok \in BOOLEAN
  BY DEF Sane
<1> QED
  BY <1>1 DEF Same

LEMMA MovingHistory ==
  ASSUME HistoryInv, fmt' = fmt, fresh' = fresh, born' = born, DOMAIN lib' \subseteq Paths,
         \A e \in Seen' : \E d \in Seen : e[2] = d[2] /\ (e[1] = d[1] \/ ~NamesItself(d[2]))
  PROVE  HistoryInv'
<1>1. \A d \in Seen : Same(d[2], d[2])
  BY SeenSame DEF HistoryInv
<1> QED
  BY <1>1, NothingNew

LEMMA CopyHistory ==
  ASSUME HistoryInv, NEW p \in DOMAIN lib, NEW q \in Free, Copy(p, q) \/ Rename(p, q) PROVE HistoryInv'
<1>1. /\ ~NamesItself(lib[p]) /\ nodes' = nodes
      /\ fmt' = fmt /\ fresh' = fresh /\ born' = born
      /\ DOMAIN lib' \subseteq DOMAIN lib \cup {q}
      /\ \A r \in DOMAIN lib' : lib'[r] = IF r = q THEN lib[p] ELSE lib[r]
  BY DEF Copy, Rename, scanVars, With
<1>2. DOMAIN lib' \subseteq Paths
  BY <1>1 DEF HistoryInv, Free
<1>3. ASSUME NEW e \in Seen' PROVE \E d \in Seen : e[2] = d[2] /\ (e[1] = d[1] \/ ~NamesItself(d[2]))
  <2>1. CASE e \in Seen
    BY <2>1
  <2>2. CASE e[1] \in DOMAIN lib /\ e[2] = lib[e[1]]
    BY <2>2, SeenThere
  <2>3. CASE e[2] = lib[p]
    BY <1>1, <2>3, SeenThere
  <2> QED
    BY <1>1, <2>1, <2>2, <2>3 DEF Seen, Readable
<1> QED
  BY <1>1, <1>2, <1>3, MovingHistory

LEMMA DeleteHistory == ASSUME HistoryInv, NEW p \in DOMAIN lib, Delete(p) PROVE HistoryInv'
<1>1. /\ nodes' = nodes /\ fmt' = fmt /\ fresh' = fresh /\ born' = born
      /\ DOMAIN lib' \subseteq DOMAIN lib /\ \A r \in DOMAIN lib' : lib'[r] = lib[r]
  BY DEF Delete, scanVars
<1>2. \A e \in Seen' : e \in Seen
  BY <1>1 DEF Seen, Readable
<1> QED
  BY <1>1, <1>2, MovingHistory DEF HistoryInv

LEMMA DamageHistory == ASSUME HistoryInv, NEW p \in DOMAIN lib, Damage(p) PROVE HistoryInv'
<1> DEFINE img == [lib[p] EXCEPT !.ok = FALSE]
<1>1. /\ nodes' = nodes /\ fmt' = fmt /\ fresh' = fresh /\ born' = born
      /\ lib' = [lib EXCEPT ![p] = img]
  BY DEF Damage, scanVars
<1>2. <<p, lib[p]>> \in Seen /\ Sane(lib[p])
  BY SeenThere DEF HistoryInv
<1>3. Same(img, lib[p])
  BY <1>2 DEF Same, Sane
<1> HIDE DEF img
<1>4. ASSUME NEW e \in Seen' PROVE \E d \in Seen : Same(e[2], d[2]) /\ e[1] = d[1]
  <2>1. CASE e \in Seen
    BY <2>1, SeenSame DEF HistoryInv
  <2>2. CASE e = <<p, img>>
    BY <1>2, <1>3, <2>2
  <2> QED
    BY <1>1, <2>1, <2>2 DEF Seen, Readable
<1>5. DOMAIN lib' \subseteq Paths
  BY <1>1 DEF HistoryInv
<1> QED
  BY <1>1, <1>4, <1>5, NothingNew

-----------------------------------------------------------------------------
(* The scan.                                                                *)

\* One node more: t is s and then x.
OneMore(s, t, x) ==
  /\ t \in Seq(Range(t)) /\ Len(s) \in Nat /\ Len(t) = Len(s) + 1
  /\ DOMAIN s = 1..Len(s) /\ DOMAIN t = 1..(Len(s) + 1)
  /\ \A i \in 1..Len(s) : t[i] = s[i]
  /\ t[Len(s) + 1] = x

LEMMA Appended ==
  ASSUME NEW s, s \in Seq(Range(s)), NEW x, NEW t, t = Append(s, x) PROVE OneMore(s, t, x)
<1> DEFINE S == Range(s) \cup {x}
<1>1. s \in Seq(S)
  BY SeqMonotonic
<1>2. /\ t \in Seq(S) /\ Len(t) = Len(s) + 1 /\ t[Len(s) + 1] = x
      /\ \A i \in 1..Len(s) : t[i] = s[i]
  <2> HIDE DEF S
  <2>1. x \in S
    BY DEF S
  <2> QED
    BY <1>1, <2>1, AppendProperties
<1>3. Len(s) \in Nat /\ DOMAIN s = 1..Len(s) /\ DOMAIN t = 1..(Len(s) + 1) /\ Len(t) \in Nat
  <2> HIDE DEF S
  <2> QED
    BY <1>1, <1>2
<1>4. t \in Seq(Range(t))
  <2> HIDE DEF S
  <2>1. PICK n \in Nat : t \in [1..n -> S]
    <3>1. Seq(S) = UNION {[1..n -> S] : n \in Nat}
      BY SeqDef
    <3> QED
      BY <1>2, <3>1, Zenon
  <2>2. t \in [1..n -> Range(t)]
    BY <2>1 DEF Range
  <2>3. [1..n -> Range(t)] \in {[1..m -> Range(t)] : m \in Nat}
    OBVIOUS
  <2>4. Seq(Range(t)) = UNION {[1..m -> Range(t)] : m \in Nat}
    BY SeqDef
  <2> QED
    BY <2>2, <2>3, <2>4, Zenon
<1> QED
  BY <1>2, <1>3, <1>4 DEF OneMore

\* The first of some files by path.
LEMMA FirstIs ==
  ASSUME NEW F \in SUBSET Paths, F # {}
  PROVE  \E m \in DOMAIN PathOrder :
           /\ FirstOf(F) = PathOrder[m] /\ PathOrder[m] \in F
           /\ \A n \in DOMAIN PathOrder : PathOrder[n] \in F => m <= n
<1> DEFINE S == {i \in DOMAIN PathOrder : PathOrder[i] \in F}
<1>1. S \in SUBSET Nat /\ S # {}
  <2>1. DOMAIN PathOrder \subseteq Nat
    BY PathsAssumption
  <2> QED
    BY <2>1 DEF Paths, Range
<1>2. PICK m \in S : \A n \in S : m <= n
  <2> HIDE DEF S
  <2> QED
    BY <1>1, LeastExists
<1> DEFINE First(i) == i \in DOMAIN PathOrder /\ PathOrder[i] \in F
                       /\ \A n \in DOMAIN PathOrder : PathOrder[n] \in F => i <= n
<1>3. First(m)
  BY <1>2
<1>4. First(CHOOSE i \in DOMAIN PathOrder : PathOrder[i] \in F
                     /\ \A n \in DOMAIN PathOrder : PathOrder[n] \in F => i <= n)
  BY <1>3
<1> QED
  BY <1>4 DEF FirstOf

LEMMA PathsFinite == IsFiniteSet(Paths)
<1> DEFINE f == [i \in 1..Len(PathOrder) |-> PathOrder[i]]
<1>1. Len(PathOrder) \in Nat /\ DOMAIN PathOrder = 1..Len(PathOrder)
  BY PathsAssumption
<1>2. IsFiniteSet(1..Len(PathOrder))
  BY <1>1, FS_Interval
<1>3. ExistsSurjection(1..Len(PathOrder), Paths)
  <2>1. f \in [1..Len(PathOrder) -> Paths] /\ \A p \in Paths : \E i \in 1..Len(PathOrder) : f[i] = p
    BY <1>1 DEF Paths, Range
  <2> HIDE DEF f
  <2>2. f \in Surjection(1..Len(PathOrder), Paths)
    BY <2>1 DEF Surjection
  <2> QED
    BY <2>2 DEF ExistsSurjection
<1> QED
  BY <1>1, <1>3, FS_NatSurjection

LEMMA FilesFinite == ASSUME NEW F \in SUBSET Paths PROVE IsFiniteSet(F) /\ Cardinality(F) \in Nat
  BY PathsFinite, FS_Subset, FS_CardinalityType

\* Nodes and directory unchanged, and a file probed as it is.
LEMMA StillHistory ==
  ASSUME HistoryInv, UNCHANGED <<fmt, lib, fresh, born, nodes>> PROVE HistoryInv'
<1>1. Seen' = Seen
  BY DEF Seen, Readable
<1> QED
  BY <1>1, MovingHistory DEF HistoryInv

LEMMA ProbeHistory == ASSUME HistoryInv, ScanInv, ProbeNext PROVE HistoryInv'
<1>1. PICK p : nodes' = Append(nodes, ProbeFile(p)) /\ UNCHANGED <<fmt, lib, fresh, born>>
  BY DEF ProbeNext, AddNode, dirVars
<1>2. /\ DOMAIN nodes = 1..Len(nodes) /\ DOMAIN nodes' = 1..(Len(nodes) + 1) /\ Len(nodes) \in Nat
      /\ \A i \in 1..Len(nodes) : nodes'[i] = nodes[i]
      /\ nodes'[Len(nodes) + 1] = ProbeFile(p)
  BY <1>1, Appended DEF ScanInv, ScanType, OneMore
<1>3. ASSUME NEW n \in Readable' PROVE <<nodes'[n].path, nodes'[n].info>> \in Seen
  <2>1. CASE n \in 1..Len(nodes)
    BY <1>2, <1>3, <2>1, SeenRead DEF Readable
  <2>2. CASE n = Len(nodes) + 1
    <3>1. nodes'[n] = ProbeFile(p) /\ ~ProbeFile(p).err
      BY <1>2, <1>3, <2>2 DEF Readable
    <3>2. p \in DOMAIN lib /\ ProbeFile(p).path = p /\ ProbeFile(p).info = lib[p]
      BY <3>1 DEF ProbeFile
    <3> QED
      BY <3>1, <3>2, SeenThere
  <2> QED
    BY <1>2, <1>3, <2>1, <2>2 DEF Readable
<1>4. \A e \in Seen' : e \in Seen
  BY <1>1, <1>3 DEF Seen
<1> QED
  BY <1>1, <1>4, MovingHistory DEF HistoryInv

\* What a step that is not one of the directory's leaves alone.
LEMMA ScanStepsHistory ==
  ASSUME HistoryInv, ScanInv,
         \/ Scanning \/ Walking \/ Cancel
         \/ \E r \in BOOLEAN : StartScan(r)
         \/ \E n \in DOMAIN links : StartWalk(n)
  PROVE  HistoryInv'
<1>1. CASE ProbeNext
  BY <1>1, ProbeHistory
<1>2. CASE ListDir
  BY <1>2, StillHistory DEF ListDir, dirVars
<1>3. CASE LinkTree
  BY <1>3, StillHistory DEF LinkTree, dirVars
<1>4. CASE Walking
  BY <1>4, StillHistory DEF Walking, WalkUp, dirVars
<1>5. CASE Cancel
  BY <1>5, StillHistory DEF Cancel, dirVars
<1>6. ASSUME NEW r \in BOOLEAN, StartScan(r) PROVE HistoryInv'
  BY <1>6, StillHistory DEF StartScan
<1>7. ASSUME NEW n \in DOMAIN links, StartWalk(n) PROVE HistoryInv'
  BY <1>7, StillHistory DEF StartWalk, dirVars
<1> QED
  BY <1>1, <1>2, <1>3, <1>4, <1>5, <1>6, <1>7 DEF Scanning

\* The initial states.
LEMMA ScanInit == ASSUME Init PROVE ScanInv /\ QuietInv /\ WalkInv
<1>1. IsFiniteSet({}) /\ Cardinality({}) = 0
  BY FS_EmptySet
<1>2. /\ scan = [pc |-> "idle", files |-> {}, recursive |-> FALSE, dirs |-> <<>>]
      /\ nodes = <<>> /\ links = <<>> /\ walk = [at |-> 0, path |-> <<>>] /\ events = 0 /\ quiet = TRUE
  BY DEF Init
<1>3. /\ scan.pc = "idle" /\ scan.files = {} /\ scan.recursive = FALSE /\ scan.dirs = <<>>
      /\ DOMAIN nodes = {} /\ Len(nodes) = 0 /\ nodes \in Seq(Range(nodes))
      /\ scan.dirs \in Seq(Range(Dirs))
  BY <1>2
<1>4. ScanType
  BY <1>2, <1>3, BoundsAssumption DEF ScanType
<1>5. ListedOK /\ Ordered /\ Phases
  BY <1>1, <1>2, <1>3, BoundsAssumption DEF ListedOK, Ordered, Phases
<1>6. QuietInv
  BY <1>3 DEF QuietInv
<1>7. WalkInv
  BY <1>2, <1>3 DEF WalkInv, Climbing, Falling
<1> QED
  BY <1>4, <1>5, <1>6, <1>7 DEF ScanInv

\* What happens to the directory is before the nodes are linked and walked.
LEMMA HappeningScan ==
  ASSUME ScanInv, QuietInv, WalkInv, Happening PROVE ScanInv' /\ QuietInv' /\ WalkInv'
<1>1. Happens /\ scanVars' = scanVars
  BY DEF Happening, TakeCheckpoint, Write, Copy, Rename, Delete, Damage
<1>2. /\ scan' = scan /\ nodes' = nodes /\ links' = links /\ walk' = walk
      /\ events < MaxEvents /\ events' = events + 1 /\ scan.pc \in {"idle", "list"}
      /\ quiet' = (scan.pc = "idle")
  BY <1>1 DEF Happens, scanVars
<1>3. ScanType'
  <2>1. events' \in 0..MaxEvents
    BY <1>2, BoundsAssumption DEF ScanInv, ScanType
  <2> QED
    BY <1>2, <2>1 DEF ScanInv, ScanType
<1>4. ListedOK' /\ Ordered'
  BY <1>2 DEF ScanInv, ListedOK, Ordered, Wanted
<1>5. Phases'
  BY <1>2 DEF ScanInv, Phases
<1>6. QuietInv'
  BY <1>2 DEF QuietInv
<1>7. WalkInv'
  BY <1>2 DEF WalkInv, Climbing, Falling, Age
<1> QED
  BY <1>3, <1>4, <1>5, <1>6, <1>7 DEF ScanInv

LEMMA StartScanKeeps ==
  ASSUME HistoryInv, ScanInv, QuietInv, WalkInv, NEW r \in BOOLEAN, StartScan(r)
  PROVE  ScanInv' /\ QuietInv' /\ WalkInv'
<1>1. PICK ds : /\ ds = IF r THEN Dirs ELSE <<Dirs[1]>>
                /\ scan' = [pc |-> "list", files |-> {}, recursive |-> r, dirs |-> ds]
  BY DEF StartScan
<1>2. /\ scan.pc = "idle" /\ quiet' = TRUE /\ UNCHANGED <<fmt, lib, events, nodes, links, walk>>
      /\ nodes = <<>> /\ links = <<>>
  BY DEF StartScan, ScanInv, Phases
<1>3. ds \in Seq(Range(Dirs)) /\ (~r => Range(ds) \subseteq {<<>>})
  <2>1. Dirs[1] = <<>> /\ Dirs[1] \in Range(Dirs)
    BY DirsAssumption DEF Range
  <2>2. CASE r
    BY <1>1, <2>2, DirsAssumption
  <2>3. CASE ~r
    <3>1. ds = <<<<>>>> /\ DOMAIN ds = 1..1 /\ ds[1] = <<>>
      BY <1>1, <2>1, <2>3
    <3>2. ds \in Seq(Range(Dirs))
      BY <2>1, <3>1
    <3> QED
      BY <3>1, <3>2 DEF Range
  <2> QED
    BY <2>2, <2>3
<1>4. IsFiniteSet({}) /\ Cardinality({}) = 0
  BY FS_EmptySet
<1>5. /\ scan'.pc = "list" /\ scan'.files = {} /\ scan'.recursive = r /\ scan'.dirs = ds
      /\ DOMAIN nodes = {} /\ Len(nodes) = 0
  BY <1>1, <1>2
<1>6. ScanType'
  BY <1>1, <1>2, <1>3, <1>5 DEF ScanInv, ScanType
<1>7. ListedOK' /\ Ordered' /\ Phases'
  BY <1>2, <1>4, <1>5, BoundsAssumption DEF ListedOK, Ordered, Phases
<1>8. ASSUME NEW p \in DOMAIN lib, r \/ Dir(p) = <<>> PROVE Dir(p) \in Range(ds)
  <2>1. PICK i \in DOMAIN PathOrder : p = PathOrder[i]
    BY DEF HistoryInv, Paths, Range
  <2>2. CASE r
    BY <1>1, <2>1, <2>2, DirsAssumption
  <2>3. CASE ~r
    BY <1>1, <1>8, <2>3, DirsAssumption DEF Range
  <2> QED
    BY <2>2, <2>3
<1>9. QuietInv'
  BY <1>2, <1>3, <1>5, <1>8 DEF QuietInv, InScope
<1>10. WalkInv'
  BY <1>2, <1>5 DEF WalkInv, Climbing, Falling, Age
<1> QED
  BY <1>6, <1>7, <1>9, <1>10 DEF ScanInv

LEMMA CancelKeeps ==
  ASSUME ScanInv, QuietInv, WalkInv, Cancel PROVE ScanInv' /\ QuietInv' /\ WalkInv'
<1>1. /\ scan.pc = "list" /\ scan' = [scan EXCEPT !.pc = "failed"]
      /\ UNCHANGED <<fmt, lib, quiet, events, nodes, links, walk>>
  BY DEF Cancel, dirVars
<1>2. scan = [pc |-> scan.pc, files |-> scan.files, recursive |-> scan.recursive, dirs |-> scan.dirs]
  BY DEF ScanInv, ScanType
<1>3. /\ scan' = [pc |-> "failed", files |-> scan.files, recursive |-> scan.recursive, dirs |-> scan.dirs]
      /\ scan'.pc = "failed" /\ scan'.files = scan.files /\ scan'.recursive = scan.recursive
      /\ scan'.dirs = scan.dirs
  BY <1>1, <1>2
<1>4. ScanType'
  BY <1>1, <1>3 DEF ScanInv, ScanType
<1>5. ListedOK' /\ Ordered' /\ Phases'
  BY <1>1, <1>3 DEF ScanInv, ListedOK, Ordered, Phases, Wanted
<1>6. QuietInv' /\ WalkInv'
  BY <1>1, <1>3 DEF QuietInv, WalkInv, Climbing, Falling, Age
<1> QED
  BY <1>4, <1>5, <1>6 DEF ScanInv

\* One directory is read, or one file too many is met.
LEMMA ListDirKeeps ==
  ASSUME HistoryInv, ScanInv, QuietInv, WalkInv, ListDir
  PROVE  ScanInv' /\ QuietInv' /\ WalkInv'
<1>1. PICK found : found = {p \in DOMAIN lib : Dir(p) = Head(scan.dirs) /\ Wanted(p)}
  OBVIOUS
<1>2. PICK F : F = scan.files \cup found
  OBVIOUS
<1>3. /\ scan.pc = "list" /\ scan.dirs # <<>>
      /\ scan' = IF TooMany(Cardinality(F)) THEN [scan EXCEPT !.pc = "failed"]
                   ELSE [scan EXCEPT !.files = F, !.dirs = Tail(scan.dirs)]
      /\ UNCHANGED <<fmt, lib, quiet, events, nodes, links, walk>>
  BY <1>1, <1>2 DEF ListDir, dirVars
<1>4. scan = [pc |-> scan.pc, files |-> scan.files, recursive |-> scan.recursive, dirs |-> scan.dirs]
  BY DEF ScanInv, ScanType
<1>5. nodes = <<>> /\ DOMAIN nodes = {} /\ Len(nodes) = 0 /\ links = <<>> /\ nodes \in Seq(Range(nodes))
  BY <1>3 DEF ScanInv, ScanType, Phases
<1>6. F \in SUBSET Paths /\ Cardinality(F) \in Nat
  <2>1. F \in SUBSET Paths
    BY <1>1, <1>2 DEF HistoryInv, ScanInv, ScanType
  <2> QED
    BY <2>1, FilesFinite
<1>7. CASE TooMany(Cardinality(F))
  <2>1. /\ scan' = [pc |-> "failed", files |-> scan.files, recursive |-> scan.recursive,
                    dirs |-> scan.dirs]
        /\ scan'.pc = "failed" /\ scan'.files = scan.files /\ scan'.recursive = scan.recursive
        /\ scan'.dirs = scan.dirs
    BY <1>3, <1>4, <1>7
  <2>2. ScanType'
    BY <1>3, <2>1 DEF ScanInv, ScanType
  <2>3. ListedOK' /\ Ordered' /\ Phases'
    BY <1>3, <1>5, <2>1 DEF ScanInv, ListedOK, Ordered, Phases, Wanted
  <2>4. QuietInv' /\ WalkInv'
    BY <1>3, <2>1 DEF QuietInv, WalkInv, Climbing, Falling, Age
  <2> QED
    BY <2>2, <2>3, <2>4 DEF ScanInv
<1>8. CASE ~TooMany(Cardinality(F))
  <2>1. PICK ds : ds = Tail(scan.dirs)
    OBVIOUS
  <2>2. /\ scan' = [pc |-> "list", files |-> F, recursive |-> scan.recursive, dirs |-> ds]
        /\ scan'.pc = "list" /\ scan'.files = F /\ scan'.recursive = scan.recursive
        /\ scan'.dirs = ds
    BY <1>3, <1>4, <1>8, <2>1
  <2>3. scan.dirs \in Seq(Range(Dirs))
    BY DEF ScanInv, ScanType
  <2>4. ds \in Seq(Range(Dirs)) /\ Range(scan.dirs) = {Head(scan.dirs)} \cup Range(ds)
    <3>1. /\ ds \in Seq(Range(Dirs)) /\ Len(ds) = Len(scan.dirs) - 1 /\ Len(scan.dirs) \in Nat
          /\ \A i \in 1..Len(ds) : ds[i] = scan.dirs[i + 1]
      BY <1>3, <2>1, <2>3, HeadTailProperties
    <3>2. /\ DOMAIN ds = 1..Len(ds) /\ DOMAIN scan.dirs = 1..Len(scan.dirs) /\ Len(scan.dirs) # 0
          /\ Head(scan.dirs) = scan.dirs[1]
      BY <1>3, <2>3, <3>1
    <3>3. ASSUME NEW i \in DOMAIN scan.dirs, i # 1 PROVE i - 1 \in DOMAIN ds /\ scan.dirs[i] = ds[i - 1]
      BY <3>1, <3>2, <3>3
    <3>4. \A i \in DOMAIN ds : i + 1 \in DOMAIN scan.dirs /\ ds[i] = scan.dirs[i + 1]
      BY <3>1, <3>2
    <3>5. 1 \in DOMAIN scan.dirs
      BY <3>1, <3>2
    <3>6. ASSUME NEW d \in Range(scan.dirs) PROVE d \in {Head(scan.dirs)} \cup Range(ds)
      <4>1. PICK i \in DOMAIN scan.dirs : d = scan.dirs[i]
        BY <3>6 DEF Range
      <4> QED
        BY <3>2, <3>3, <4>1 DEF Range
    <3>7. ASSUME NEW d \in {Head(scan.dirs)} \cup Range(ds) PROVE d \in Range(scan.dirs)
      <4>1. CASE d = scan.dirs[1]
        BY <3>5, <4>1 DEF Range
      <4>2. CASE d \in Range(ds)
        <5>1. PICK i \in DOMAIN ds : d = ds[i]
          BY <4>2 DEF Range
        <5> QED
          BY <3>4, <5>1 DEF Range
      <4> QED
        BY <3>2, <3>7, <4>1, <4>2
    <3> QED
      BY <3>1, <3>6, <3>7
  <2>5. ScanType'
    BY <1>3, <1>6, <2>2, <2>4 DEF ScanInv, ScanType
  <2>6. ListedOK' /\ Ordered' /\ Phases'
    <3>1. \A p \in F : Wanted(p)
      BY <1>1, <1>2 DEF ScanInv, ListedOK
    <3>2. Cardinality(F) <= MaxFiles
      BY <1>6, <1>8, BoundsAssumption DEF TooMany
    <3>3. Cardinality(F) + Len(nodes) <= MaxFiles
      BY <1>5, <1>6, <3>2
    <3> QED
      BY <1>3, <1>5, <2>2, <3>1, <3>3 DEF ListedOK, Ordered, Phases, Wanted
  <2>7. ASSUME quiet PROVE QuietInv'
    <3>1. /\ \A p \in scan.files : p \in DOMAIN lib /\ Wanted(p) /\ InScope(p)
          /\ \A p \in DOMAIN lib : Wanted(p) /\ InScope(p) => p \in scan.files \/ Dir(p) \in Range(scan.dirs)
          /\ ~scan.recursive => Range(scan.dirs) \subseteq {<<>>}
      BY <1>3, <1>5, <2>7 DEF QuietInv
    <3>2. \A p \in found : p \in DOMAIN lib /\ Wanted(p) /\ InScope(p)
      BY <1>1, <2>4, <3>1 DEF InScope
    <3>3. \A p \in F : p \in DOMAIN lib /\ Wanted(p) /\ InScope(p)
      BY <1>2, <3>1, <3>2
    <3>4. \A p \in DOMAIN lib : Wanted(p) /\ InScope(p) => p \in F \/ Dir(p) \in Range(ds)
      BY <1>1, <1>2, <2>4, <3>1
    <3>5. ~scan.recursive => Range(ds) \subseteq {<<>>}
      BY <2>4, <3>1
    <3> QED
      BY <1>3, <1>5, <2>2, <3>3, <3>4, <3>5 DEF QuietInv, InScope, Wanted
  <2>8. QuietInv'
    BY <1>3, <2>7 DEF QuietInv
  <2>9. WalkInv'
    BY <1>3, <2>2 DEF WalkInv, Climbing, Falling, Age
  <2> QED
    BY <2>5, <2>6, <2>8, <2>9 DEF ScanInv
<1> QED
  BY <1>7, <1>8

\* The first file that is left becomes the last node.
LEMMA ProbeKeeps ==
  ASSUME HistoryInv, ScanInv, QuietInv, WalkInv, ProbeNext
  PROVE  ScanInv' /\ QuietInv' /\ WalkInv'
<1>1. PICK k \in DOMAIN PathOrder :
         /\ FirstOf(scan.files) = PathOrder[k] /\ PathOrder[k] \in scan.files
         /\ \A n \in DOMAIN PathOrder : PathOrder[n] \in scan.files => k <= n
  BY FirstIs DEF ProbeNext, ScanInv, ScanType
<1>2. PICK p : p = PathOrder[k]
  OBVIOUS
<1>3. PICK F : F = scan.files \ {p}
  OBVIOUS
<1>4. PICK ns : ns = Append(nodes, ProbeFile(p))
  OBVIOUS
<1>5. /\ scan.pc = "list" /\ scan.dirs = <<>> /\ scan' = [scan EXCEPT !.files = F] /\ nodes' = ns
      /\ UNCHANGED <<fmt, lib, quiet, events, links, walk>>
  BY <1>1, <1>2, <1>3, <1>4 DEF ProbeNext, AddNode, dirVars
<1>6. /\ scan' = [pc |-> "list", files |-> F, recursive |-> scan.recursive, dirs |-> <<>>]
      /\ scan'.pc = "list" /\ scan'.files = F /\ scan'.recursive = scan.recursive
      /\ scan'.dirs = <<>>
  BY <1>5 DEF ScanInv, ScanType
<1>7. /\ ns \in Seq(Range(ns)) /\ Len(nodes) \in Nat /\ Len(ns) = Len(nodes) + 1
      /\ DOMAIN nodes = 1..Len(nodes) /\ DOMAIN ns = 1..(Len(nodes) + 1)
      /\ \A i \in 1..Len(nodes) : ns[i] = nodes[i]
      /\ ns[Len(nodes) + 1] = ProbeFile(p)
  <2>1. nodes \in Seq(Range(nodes))
    BY DEF ScanInv, ScanType
  <2>2. OneMore(nodes, ns, ProbeFile(p))
    BY <1>4, <2>1, Appended, Zenon
  <2> QED
    BY <2>2 DEF OneMore
<1>8. /\ ProbeFile(p).path = p /\ ProbeFile(p).err \in BOOLEAN /\ p \in Paths /\ p \in scan.files
      /\ ProbeFile(p).err => ProbeFile(p).info = Blank
  BY <1>1, <1>2 DEF ProbeFile, Paths, Range
<1>9. ScanType'
  <2>1. F \in SUBSET Paths
    BY <1>3 DEF ScanInv, ScanType
  <2> QED
    BY <1>5, <1>6, <1>7, <2>1 DEF ScanInv, ScanType
<1>10. ListedOK'
  <2>1. IsFiniteSet(scan.files) /\ Cardinality(scan.files) \in Nat
    BY FilesFinite DEF ScanInv, ScanType
  <2>2. Cardinality(F) = Cardinality(scan.files) - 1
    BY <1>3, <1>8, <2>1, FS_RemoveElement
  <2>3. Cardinality(F) + Len(ns) <= MaxFiles
    BY <1>7, <2>1, <2>2, BoundsAssumption DEF ScanInv, ListedOK
  <2>4. Wanted(p) /\ \A q \in F : Wanted(q)
    BY <1>3, <1>8 DEF ScanInv, ListedOK
  <2>5. \A n \in DOMAIN ns : /\ ns[n].path \in Paths /\ Wanted(ns[n].path)
                            /\ ns[n].err \in BOOLEAN /\ (ns[n].err => ns[n].info = Blank)
    BY <1>7, <1>8, <2>4 DEF ScanInv, ListedOK
  <2> QED
    BY <1>5, <1>6, <2>3, <2>4, <2>5 DEF ListedOK, Wanted
<1>11. Ordered'
  <2>1. DOMAIN PathOrder \subseteq Nat /\ \A i, j \in DOMAIN PathOrder : PathOrder[i] = PathOrder[j] => i = j
    BY PathsAssumption
  <2>2. ASSUME NEW i \in DOMAIN ns, NEW j \in DOMAIN ns, NEW m \in DOMAIN PathOrder, NEW n \in DOMAIN PathOrder,
               ns[i].path = PathOrder[m], ns[j].path = PathOrder[n], i < j
        PROVE  m < n
    <3>1. i \in DOMAIN nodes /\ ns[i] = nodes[i]
      BY <1>7, <2>2
    <3>2. CASE j \in DOMAIN nodes
      BY <1>7, <2>2, <3>1, <3>2 DEF ScanInv, Ordered
    <3>3. CASE j = Len(nodes) + 1
      BY <1>1, <1>2, <1>7, <1>8, <2>1, <2>2, <3>1, <3>3 DEF ScanInv, Ordered
    <3> QED
      BY <1>7, <3>2, <3>3
  <2>3. ASSUME NEW i \in DOMAIN ns, NEW m \in DOMAIN PathOrder, NEW n \in DOMAIN PathOrder,
               ns[i].path = PathOrder[m], PathOrder[n] \in F
        PROVE  m < n
    <3>1. CASE i \in DOMAIN nodes
      BY <1>3, <1>7, <2>3, <3>1 DEF ScanInv, Ordered
    <3>2. CASE i = Len(nodes) + 1
      <4>1. m = k /\ n # k /\ k <= n
        BY <1>1, <1>2, <1>3, <1>7, <1>8, <2>1, <2>3, <3>2
      <4> QED
        BY <2>1, <4>1
    <3> QED
      BY <1>7, <3>1, <3>2
  <2> QED
    BY <1>5, <1>6, <2>2, <2>3 DEF Ordered
<1>12. Phases'
  BY <1>5, <1>6 DEF ScanInv, Phases
<1>13. ASSUME quiet PROVE QuietInv'
  <2>1. /\ \A n \in DOMAIN nodes : nodes[n] = ProbeFile(nodes[n].path)
        /\ \A q \in scan.files \cup {nodes[n].path : n \in DOMAIN nodes} :
             q \in DOMAIN lib /\ Wanted(q) /\ InScope(q)
        /\ \A q \in DOMAIN lib : Wanted(q) /\ InScope(q) =>
             q \in scan.files \cup {nodes[n].path : n \in DOMAIN nodes}
    BY <1>5, <1>13 DEF QuietInv, Range
  <2>2. F \cup {ns[n].path : n \in DOMAIN ns} = scan.files \cup {nodes[n].path : n \in DOMAIN nodes}
    <3>1. {ns[n].path : n \in DOMAIN ns} = {nodes[n].path : n \in DOMAIN nodes} \cup {p}
      <4>1. DOMAIN ns = DOMAIN nodes \cup {Len(nodes) + 1}
        BY <1>7
      <4> QED
        BY <1>7, <1>8, <4>1
    <3> QED
      BY <1>3, <1>8, <3>1
  <2>3. \A n \in DOMAIN ns : ns[n] = ProbeFile(ns[n].path)
    BY <1>7, <1>8, <2>1
  <2>4. \A x : ProbeFile(x)' = ProbeFile(x) /\ InScope(x)' = InScope(x) /\ Wanted(x)' = Wanted(x)
    BY <1>5, <1>6 DEF ProbeFile, InScope, Wanted
  <2>5. QuietInv' <=>
          /\ \A n \in DOMAIN ns : ns[n] = ProbeFile(ns[n].path)
          /\ \A q \in F \cup {ns[n].path : n \in DOMAIN ns} : q \in DOMAIN lib /\ Wanted(q) /\ InScope(q)
          /\ \A q \in DOMAIN lib : Wanted(q) /\ InScope(q) =>
               q \in F \cup {ns[n].path : n \in DOMAIN ns} \/ Dir(q) \in Range(<<>>)
          /\ ~scan.recursive => Range(<<>>) \subseteq {<<>>}
    BY <1>5, <1>6, <1>13, <2>4 DEF QuietInv
  <2>6. Range(<<>>) \subseteq {<<>>}
    BY DEF Range
  <2> QED
    BY <2>1, <2>2, <2>3, <2>5, <2>6
<1>14. QuietInv'
  BY <1>5, <1>13 DEF QuietInv
<1>15. WalkInv'
  <2>1. walk = [at |-> 0, path |-> <<>>]
    BY <1>5 DEF WalkInv
  <2>2. walk.at = 0 /\ walk.path = <<>> /\ Len(walk.path) = 0
    BY <2>1
  <2> QED
    BY <1>5, <1>6, <1>7, <2>1, <2>2 DEF WalkInv, Climbing, Falling
<1> QED
  BY <1>9, <1>10, <1>11, <1>12, <1>14, <1>15 DEF ScanInv

LEMMA LinkTreeKeeps ==
  ASSUME ScanInv, QuietInv, WalkInv, LinkTree PROVE ScanInv' /\ QuietInv' /\ WalkInv'
<1>1. /\ scan.pc = "list" /\ scan.dirs = <<>> /\ scan.files = {} /\ scan' = [scan EXCEPT !.pc = "done"]
      /\ links' = [c \in DOMAIN nodes |-> ParentOf(nodes, c)]
      /\ UNCHANGED <<fmt, lib, quiet, events, nodes, walk>>
  BY DEF LinkTree, dirVars
<1>2. /\ scan' = [pc |-> "done", files |-> {}, recursive |-> scan.recursive, dirs |-> <<>>]
      /\ scan'.pc = "done" /\ scan'.files = {} /\ scan'.recursive = scan.recursive
      /\ scan'.dirs = <<>>
  BY <1>1 DEF ScanInv, ScanType
<1>3. ScanType'
  BY <1>1, <1>2 DEF ScanInv, ScanType
<1>4. ListedOK' /\ Ordered'
  BY <1>1, <1>2 DEF ScanInv, ListedOK, Ordered, Wanted
<1>5. Phases'
  <2>1. \A c : ParentOf(nodes, c)' = ParentOf(nodes, c)
    BY <1>1 DEF ParentOf
  <2> QED
    BY <1>1, <1>2, <2>1 DEF Phases
<1>6. QuietInv'
  <2>1. \A x : ProbeFile(x)' = ProbeFile(x) /\ InScope(x)' = InScope(x) /\ Wanted(x)' = Wanted(x)
    BY <1>1, <1>2 DEF ProbeFile, InScope, Wanted
  <2> QED
    BY <1>1, <1>2, <2>1 DEF QuietInv
<1>7. WalkInv'
  <2>1. walk = [at |-> 0, path |-> <<>>]
    BY <1>1 DEF WalkInv
  <2>2. walk.at = 0 /\ walk.path = <<>> /\ Len(walk.path) = 0
    BY <2>1
  <2>3. Len(nodes) \in Nat
    BY DEF ScanInv, ScanType
  <2> QED
    BY <1>1, <1>2, <2>1, <2>2, <2>3 DEF WalkInv, Climbing, Falling
<1> QED
  BY <1>3, <1>4, <1>5, <1>6, <1>7 DEF ScanInv

-----------------------------------------------------------------------------
(* What a link says.                                                        *)

LEMMA KeyIsLinkIdentity == \A x : LinkIdentity(fmt, x) = Key(x)
  BY DEF LinkIdentity, Key, Identity, Content

\* No two nodes are one file.
LEMMA NodesDiffer ==
  ASSUME ScanInv, NEW i \in DOMAIN nodes, NEW j \in DOMAIN nodes, nodes[i].path = nodes[j].path
  PROVE  i = j
<1>1. PICK m \in DOMAIN PathOrder : nodes[i].path = PathOrder[m]
  BY DEF ScanInv, ListedOK, Paths, Range
<1>2. m \in Nat /\ i \in Nat /\ j \in Nat
  BY PathsAssumption DEF ScanInv, ScanType
<1>3. ~(m < m)
  BY <1>2
<1>4. ~(i < j) /\ ~(j < i)
  BY <1>1, <1>3 DEF ScanInv, Ordered
<1> QED
  BY <1>2, <1>4

\* The nodes among which linkTree looks for the parent of c.
Named(c) == {n \in Readable : Key(nodes[n].info) = nodes[c].info.want}

LEMMA LinkIs ==
  ASSUME ScanInv, scan.pc = "done", NEW c \in DOMAIN nodes
  PROVE  /\ DOMAIN links = DOMAIN nodes
         /\ links[c] # 0 => /\ links[c] \in Named(c) /\ links[c] # c /\ ~nodes[c].err
                            /\ nodes[c].info.diff /\ nodes[c].info.want # 0
         /\ links[c] = 0 => \/ nodes[c].err \/ ~nodes[c].info.diff \/ nodes[c].info.want = 0
                            \/ Named(c) = {} \/ c \in Named(c)
<1>1. links = [n \in DOMAIN nodes |-> ParentOf(nodes, n)]
  BY DEF ScanInv, Phases
<1>2. PICK S : S = Named(c)
  OBVIOUS
<1>3. S = {n \in DOMAIN nodes : ~nodes[n].err /\ LinkIdentity(fmt, nodes[n].info) = nodes[c].info.want}
  BY <1>2, KeyIsLinkIdentity DEF Named, Readable
<1>4. PICK first : first = CHOOSE n \in S : \A m \in S : n <= m
  OBVIOUS
<1>5. S # {} => first \in S
  <2> SUFFICES ASSUME S # {} PROVE first \in S
    OBVIOUS
  <2>1. S \in SUBSET Nat
    BY <1>2 DEF Named, Readable, ScanInv, ScanType
  <2>2. \E n \in S : \A m \in S : n <= m
    BY <2>1, LeastExists
  <2> QED
    BY <1>4, <2>2
<1>6. links[c] = IF \/ nodes[c].err \/ ~nodes[c].info.diff \/ nodes[c].info.want = 0
                    \/ S = {} \/ first = c
                 THEN 0 ELSE first
  BY <1>1, <1>3, <1>4 DEF ParentOf
<1>7. \A n \in S : n # 0
  BY <1>2 DEF Named, Readable, ScanInv, ScanType
<1> QED
  BY <1>1, <1>2, <1>5, <1>6, <1>7

\* The parent's contents are those that the child was made from, and older.
TrueLink(c, n) ==
  /\ n \in Readable /\ c \in Readable /\ n # c /\ Link(nodes[c].info)
  /\ Content(nodes[n].info) = nodes[c].info.of
  /\ Content(nodes[c].info) \in DOMAIN born
  /\ born[Content(nodes[c].info)] = nodes[c].info.of
  /\ Age(n) \in Nat /\ Age(c) \in Nat /\ Age(n) < Age(c)

LEMMA LinkTrue ==
  ASSUME HistoryInv, ScanInv, scan.pc = "done", NEW c \in DOMAIN nodes, links[c] # 0
  PROVE  TrueLink(c, links[c])
<1>1. PICK n : n = links[c]
  OBVIOUS
<1>2. /\ n \in Named(c) /\ n # c /\ ~nodes[c].err /\ nodes[c].info.diff /\ nodes[c].info.want # 0
  BY <1>1, LinkIs
<1>3. c \in Readable /\ n \in Readable /\ n \in DOMAIN nodes /\ Key(nodes[n].info) = nodes[c].info.want
  BY <1>2 DEF Named, Readable
<1>4. PICK x : x = nodes[c].info
  OBVIOUS
<1>5. PICK y : y = nodes[n].info
  OBVIOUS
<1>6. PICK d \in Seen : d[1] = nodes[c].path /\ d[2] = x
  BY <1>3, <1>4, SeenRead
<1>7. PICK e \in Seen : e[1] = nodes[n].path /\ e[2] = y
  BY <1>3, <1>5, SeenRead
<1>8. Sane(x) /\ Known(x) /\ Sane(y) /\ Known(y)
  BY <1>6, <1>7 DEF HistoryInv
<1>9. ~NamesItself(x)
  <2> SUFFICES ASSUME NamesItself(x) PROVE FALSE
    OBVIOUS
  <2>1. nodes[c].path = nodes[n].path
    BY <1>3, <1>4, <1>5, <1>6, <1>7 DEF HistoryInv, Alone
  <2> QED
    BY <1>2, <1>3, <2>1, NodesDiffer
<1>10. Link(x)
  BY <1>2, <1>4, <1>9 DEF Link
<1>11. Content(y) = x.of
  BY <1>3, <1>4, <1>5, <1>8, <1>10 DEF Known, Key
<1>12. Content(y)[2] = y.gen /\ y.gen \in Nat /\ x.gen \in Nat /\ y.gen < x.gen
  BY <1>8, <1>10, <1>11 DEF Sane, Link, Content
<1> QED
  BY <1>1, <1>2, <1>3, <1>4, <1>5, <1>8, <1>10, <1>11, <1>12 DEF TrueLink, Known, Age

\* And a parent that is listed and can be named is linked.
LEMMA LinkWhole ==
  ASSUME HistoryInv, ScanInv, scan.pc = "done", NEW c \in Readable, links[c] = 0, Link(nodes[c].info)
  PROVE  \A n \in Readable : Content(nodes[n].info) # nodes[c].info.of
<1> SUFFICES ASSUME NEW n \in Readable, Content(nodes[n].info) = nodes[c].info.of PROVE FALSE
  OBVIOUS
<1>1. c \in DOMAIN nodes /\ ~nodes[c].err
  BY DEF Readable
<1>2. PICK x : x = nodes[c].info
  OBVIOUS
<1>3. <<nodes[c].path, x>> \in Seen
  BY <1>2, SeenRead
<1>4. Sane(x)
  BY <1>3 DEF HistoryInv
<1>5. x.diff /\ ~NamesItself(x) /\ x.want # 0 /\ x.want = Identity(fmt, x.of)
  BY <1>2, <1>4 DEF Link, Sane
<1>6. n \in Named(c)
  BY <1>2, <1>5 DEF Named, Key
<1>7. c \notin Named(c)
  BY <1>2, <1>5 DEF Named, NamesItself, Selfish, Key
<1> QED
  BY <1>1, <1>2, <1>5, <1>6, <1>7, LinkIs

-----------------------------------------------------------------------------
(* Walks.                                                                   *)

\* Ages that fall are of different nodes.
LEMMA FallingIsShort ==
  ASSUME NEW N \in Nat, NEW s \in Seq(1..N), Falling(s), \A i \in DOMAIN s : Age(s[i]) \in Nat
  PROVE  Len(s) <= N
<1>1. Len(s) \in Nat /\ DOMAIN s = 1..Len(s) /\ s \in [1..Len(s) -> 1..N]
  OBVIOUS
<1>2. \A k \in Nat : IsFiniteSet(1..k) /\ Cardinality(1..k) = k
  <2> SUFFICES ASSUME NEW k \in Nat PROVE IsFiniteSet(1..k) /\ Cardinality(1..k) = k
    OBVIOUS
  <2>1. IsFiniteSet(1..k) /\ Cardinality(1..k) = IF 1 > k THEN 0 ELSE k - 1 + 1
    BY FS_Interval
  <2> QED
    BY <2>1
<1> SUFFICES ASSUME N < Len(s) PROVE FALSE
  BY <1>1
<1>3. PICK i, j \in 1..Len(s) : i # j /\ s[i] = s[j]
  <2>1. Cardinality(1..N) < Cardinality(1..Len(s)) /\ IsFiniteSet(1..N) /\ IsFiniteSet(1..Len(s))
    BY <1>1, <1>2
  <2> QED
    BY <1>1, <2>1, FS_PigeonHole, Zenon
<1>4. i \in Nat /\ j \in Nat /\ (i < j \/ j < i)
  BY <1>1, <1>3
<1>5. Age(s[i]) \in Nat /\ Age(s[i]) = Age(s[j])
  BY <1>1, <1>3
<1>6. Age(s[j]) < Age(s[i]) \/ Age(s[i]) < Age(s[j])
  BY <1>1, <1>4 DEF Falling
<1> QED
  BY <1>5, <1>6

LEMMA AgeIs == ASSUME HistoryInv, ScanInv, NEW n \in DOMAIN nodes PROVE Age(n) \in Nat
<1>1. CASE nodes[n].err
  BY <1>1 DEF ScanInv, ListedOK, Age, Blank
<1>2. CASE ~nodes[n].err
  <2>1. n \in Readable
    BY <1>2 DEF Readable
  <2>2. PICK e \in Seen : e[2] = nodes[n].info
    BY <2>1, SeenRead
  <2> QED
    BY <2>2 DEF HistoryInv, Sane, Age
<1> QED
  BY <1>1, <1>2

LEMMA StartWalkKeeps ==
  ASSUME ScanInv, QuietInv, WalkInv, NEW n \in DOMAIN links, StartWalk(n)
  PROVE  ScanInv' /\ QuietInv' /\ WalkInv'
<1>1. /\ walk' = [at |-> n, path |-> <<>>] /\ scan.pc = "done"
      /\ UNCHANGED <<fmt, lib, quiet, events, scan, nodes, links>>
  BY DEF StartWalk, dirVars
<1>2. n \in 1..Len(nodes) /\ DOMAIN nodes = 1..Len(nodes) /\ Len(nodes) \in Nat
  BY <1>1 DEF ScanInv, ScanType, Phases
<1>3. walk'.at = n /\ walk'.path = <<>> /\ Len(walk'.path) = 0
  BY <1>1
<1>4. ScanType' /\ ListedOK'
  BY <1>1 DEF ScanInv, ScanType, ListedOK, Wanted
<1>5. Ordered' /\ Phases'
  <2>1. \A c : ParentOf(nodes, c)' = ParentOf(nodes, c)
    BY <1>1 DEF ParentOf
  <2> QED
    BY <1>1, <2>1 DEF ScanInv, Ordered, Phases
<1>6. QuietInv'
  <2>1. \A x : ProbeFile(x)' = ProbeFile(x) /\ InScope(x)' = InScope(x) /\ Wanted(x)' = Wanted(x)
    BY <1>1 DEF ProbeFile, InScope, Wanted
  <2> QED
    BY <1>1, <2>1 DEF QuietInv
<1>7. WalkInv'
  BY <1>1, <1>2, <1>3 DEF WalkInv, Climbing, Falling
<1> QED
  BY <1>4, <1>5, <1>6, <1>7 DEF ScanInv

\* A walk that goes on keeps its nodes, for it cannot have met all of them yet.
LEMMA WalkUpKeeps ==
  ASSUME HistoryInv, ScanInv, QuietInv, WalkInv, WalkUp
  PROVE  ScanInv' /\ QuietInv' /\ WalkInv'
<1>1. PICK a, path : /\ a = walk.at /\ path = walk.path
  OBVIOUS
<1>2. PICK path2 : path2 = IF Len(path) < MaxPath THEN Append(path, a) ELSE path
  OBVIOUS
<1>3. /\ a # 0 /\ walk' = [at |-> links[a], path |-> path2] /\ scan.pc = "done"
      /\ UNCHANGED <<fmt, lib, quiet, events, scan, nodes, links>>
  BY <1>1, <1>2 DEF WalkUp, dirVars, WalkInv
<1>4. PICK N : N = Len(nodes)
  OBVIOUS
<1>5. N \in Nat /\ DOMAIN nodes = 1..N /\ DOMAIN links = 1..N /\ a \in 1..N
  BY <1>1, <1>3, <1>4 DEF ScanInv, ScanType, Phases, WalkInv
<1>6. path \in Seq(1..N) /\ Len(path) \in Nat
  BY <1>1, <1>4 DEF WalkInv
<1>7. links[a] \in 0..N
  BY <1>3, <1>4, <1>5, LinkIs DEF Named, Readable
<1>8. ScanInv' /\ QuietInv'
  <2>1. ScanType' /\ ListedOK'
    BY <1>3 DEF ScanInv, ScanType, ListedOK, Wanted
  <2>2. Ordered' /\ Phases'
    <3>1. \A c : ParentOf(nodes, c)' = ParentOf(nodes, c)
      BY <1>3 DEF ParentOf
    <3> QED
      BY <1>3, <3>1 DEF ScanInv, Ordered, Phases
  <2>3. QuietInv'
    <3>1. \A x : ProbeFile(x)' = ProbeFile(x) /\ InScope(x)' = InScope(x) /\ Wanted(x)' = Wanted(x)
      BY <1>3 DEF ProbeFile, InScope, Wanted
    <3> QED
      BY <1>3, <3>1 DEF QuietInv
  <2> QED
    BY <2>1, <2>2, <2>3 DEF ScanInv
<1>9. PICK q : q = Append(path, a)
  OBVIOUS
<1>10. /\ q \in Seq(1..N) /\ Len(q) = Len(path) + 1 /\ q[Len(path) + 1] = a /\ q # <<>>
       /\ DOMAIN path = 1..Len(path) /\ DOMAIN q = 1..(Len(path) + 1)
       /\ \A i \in 1..Len(path) : q[i] = path[i]
  BY <1>5, <1>6, <1>9, AppendProperties, SMTT(30)
<1>11. /\ walk'.at = links[a] /\ walk'.path = path2 /\ path2 \in Seq(1..N)
       /\ walk' = [at |-> walk'.at, path |-> walk'.path]
  BY <1>2, <1>3, <1>6, <1>9, <1>10
<1>12. ASSUME MaxFiles <= MaxPath PROVE Climbing'
  <2>1. /\ \A i \in 1..(Len(path) - 1) : links[path[i]] = path[i + 1]
        /\ path # <<>> => links[path[Len(path)]] = a
        /\ Falling(path)
        /\ \A i \in DOMAIN path : Age(a) < Age(path[i])
    BY <1>1, <1>3, <1>12 DEF WalkInv, Climbing
  <2>2. Falling(q)
    <3> SUFFICES ASSUME NEW i \in DOMAIN q, NEW j \in DOMAIN q, i < j PROVE Age(q[j]) < Age(q[i])
      BY DEF Falling
    <3>1. i \in 1..Len(path) /\ q[i] = path[i]
      BY <1>6, <1>10
    <3>2. CASE j \in 1..Len(path)
      BY <1>10, <2>1, <3>1, <3>2 DEF Falling
    <3>3. CASE j = Len(path) + 1
      BY <1>10, <2>1, <3>1, <3>3
    <3> QED
      BY <1>10, <3>2, <3>3
  <2>3. \A i \in DOMAIN q : q[i] \in DOMAIN nodes /\ Age(q[i]) \in Nat
    BY <1>5, <1>10, AgeIs
  <2>4. Len(q) <= N
    BY <1>5, <1>10, <2>2, <2>3, FallingIsShort
  <2>5. path2 = q
    <3>1. N <= MaxFiles
      <4>1. Cardinality(scan.files) \in Nat
        BY FilesFinite DEF ScanInv, ScanType
      <4> QED
        BY <1>4, <1>5, <4>1, BoundsAssumption DEF ScanInv, ListedOK
    <3>2. Len(path) + 1 <= MaxPath
      <4>1. Len(path) + 1 <= N
        BY <1>10, <2>4
      <4> QED
        BY <1>5, <1>6, <1>12, <3>1, <4>1, BoundsAssumption
    <3>3. Len(path) < MaxPath
      BY <1>6, <3>2, BoundsAssumption
    <3> QED
      BY <1>2, <1>9, <3>3
  <2>6. \A i \in 1..(Len(q) - 1) : links[q[i]] = q[i + 1]
    <3> SUFFICES ASSUME NEW i \in 1..(Len(q) - 1) PROVE links[q[i]] = q[i + 1]
      OBVIOUS
    <3>1. CASE i = Len(path)
      <4>1. i \in 1..Len(path) /\ path # <<>> /\ q[i] = path[Len(path)]
        BY <1>6, <1>10, <3>1
      <4>2. q[i + 1] = a
        BY <1>10, <3>1
      <4> QED
        BY <2>1, <4>1, <4>2
    <3>2. CASE i \in 1..(Len(path) - 1)
      BY <1>6, <1>10, <2>1, <3>2
    <3>3. i = Len(path) \/ i \in 1..(Len(path) - 1)
      <4>1. Len(q) - 1 = Len(path)
        BY <1>6, <1>10
      <4> QED
        BY <1>6, <4>1
    <3> QED
      BY <3>1, <3>2, <3>3
  <2>7. ASSUME links[a] # 0, NEW i \in DOMAIN q PROVE Age(links[a]) < Age(q[i])
    <3>1. Age(links[a]) < Age(a) /\ Age(links[a]) \in Nat /\ Age(a) \in Nat
      BY <1>3, <1>5, <2>7, LinkTrue DEF TrueLink
    <3>2. CASE i \in 1..Len(path)
      BY <1>10, <2>1, <2>3, <2>7, <3>1, <3>2
    <3>3. CASE i = Len(path) + 1
      BY <1>10, <3>1, <3>3
    <3> QED
      BY <1>10, <2>7, <3>2, <3>3
  <2>8. \A s : Falling(s)' <=> Falling(s)
    BY <1>3 DEF Falling, Age
  <2>9. links[q[Len(q)]] = links[a]
    BY <1>10
  <2> QED
    BY <1>3, <1>11, <2>2, <2>5, <2>6, <2>7, <2>8, <2>9 DEF Climbing, Age
<1>13. WalkInv'
  BY <1>3, <1>4, <1>7, <1>11, <1>12 DEF WalkInv
<1> QED
  BY <1>8, <1>13

-----------------------------------------------------------------------------
(* The theorems.                                                            *)

\* The conjunction of the four parts holds at first, and every step keeps it.
LEMMA InvHolds == ASSUME AllConsistent PROVE Spec => []Inv
<1>1. Init => Inv
  BY HistoryInit, ScanInit DEF Inv
<1>2. Inv /\ [Next]_vars => Inv'
  <2> SUFFICES ASSUME Inv, [Next]_vars PROVE Inv'
    OBVIOUS
  <2>1. HistoryInv /\ ScanInv /\ QuietInv /\ WalkInv
    BY DEF Inv
  <2>2. CASE Happening
    <3>1. HistoryInv'
      <4>1. ASSUME NEW p \in DOMAIN lib, Write(p) \/ Delete(p) \/ Damage(p) PROVE HistoryInv'
        BY <2>1, <4>1, WriteHistory, DeleteHistory, DamageHistory
      <4>2. ASSUME NEW p \in DOMAIN lib, NEW q \in Free, TakeCheckpoint(p, q) \/ Copy(p, q) \/ Rename(p, q)
            PROVE  HistoryInv'
        BY <2>1, <4>2, CheckpointHistory, CopyHistory
      <4> QED
        BY <2>2, <4>1, <4>2 DEF Happening
    <3>2. ScanInv' /\ QuietInv' /\ WalkInv'
      BY <2>1, <2>2, HappeningScan
    <3> QED
      BY <3>1, <3>2 DEF Inv
  <2>3. CASE Scanning
    BY <2>1, <2>3, ScanStepsHistory, ListDirKeeps, ProbeKeeps, LinkTreeKeeps DEF Inv, Scanning
  <2>4. CASE Walking
    BY <2>1, <2>4, ScanStepsHistory, WalkUpKeeps DEF Inv, Walking
  <2>5. CASE Cancel
    BY <2>1, <2>5, ScanStepsHistory, CancelKeeps DEF Inv
  <2>6. ASSUME NEW r \in BOOLEAN, StartScan(r) PROVE Inv'
    BY <2>1, <2>6, ScanStepsHistory, StartScanKeeps DEF Inv
  <2>7. ASSUME NEW n \in DOMAIN links, StartWalk(n) PROVE Inv'
    BY <2>1, <2>7, ScanStepsHistory, StartWalkKeeps DEF Inv
  <2>8. CASE UNCHANGED vars
    <3>1. UNCHANGED <<fmt, lib, fresh, events, born, quiet, scan, nodes, links, walk>>
      BY <2>8 DEF vars, dirVars, scanVars
    <3>2. HistoryInv'
      BY <2>1, <3>1, StillHistory
    <3>3. ScanType' /\ ListedOK'
      BY <2>1, <3>1 DEF ScanInv, ScanType, ListedOK, Wanted
    <3>4. Ordered' /\ Phases'
      <4>1. \A c : ParentOf(nodes, c)' = ParentOf(nodes, c)
        BY <3>1 DEF ParentOf
      <4> QED
        BY <2>1, <3>1, <4>1 DEF ScanInv, Ordered, Phases
    <3>5. QuietInv'
      <4>1. \A x : ProbeFile(x)' = ProbeFile(x) /\ InScope(x)' = InScope(x) /\ Wanted(x)' = Wanted(x)
        BY <3>1 DEF ProbeFile, InScope, Wanted
      <4> QED
        BY <2>1, <3>1, <4>1 DEF QuietInv
    <3>6. WalkInv'
      BY <2>1, <3>1 DEF WalkInv, Climbing, Falling, Age
    <3> QED
      BY <3>2, <3>3, <3>4, <3>5, <3>6 DEF Inv, ScanInv
  <2> QED
    BY <2>2, <2>3, <2>4, <2>5, <2>6, <2>7, <2>8 DEF Next
<1> QED
  BY <1>1, <1>2, PTL DEF Spec

\* Nodes come in path order and not more than MaxFiles of them, and no node is
\* its own parent, whatever happens while the directory is scanned: sort,
\* maxFiles and the guard of linkTree.
THEOREM TypeCorrect == ASSUME AllConsistent PROVE Spec => []TypeOK
<1>1. Inv => TypeOK
  <2> SUFFICES ASSUME Inv PROVE TypeOK
    OBVIOUS
  <2>1. HistoryInv /\ ScanInv
    BY DEF Inv
  <2>2. \A p \in DOMAIN lib : Content(lib[p]) \in DOMAIN born
    BY <2>1, SeenThere DEF HistoryInv, Known
  <2>3. Len(nodes) \in Nat /\ Len(nodes) <= MaxFiles
    <3>1. Cardinality(scan.files) \in Nat /\ Len(nodes) \in Nat
      BY <2>1, FilesFinite DEF ScanInv, ScanType
    <3> QED
      BY <2>1, <3>1, BoundsAssumption DEF ScanInv, ListedOK
  <2>4. \A c \in DOMAIN links : links[c] \in 0..Len(nodes) /\ links[c] # c
    <3> SUFFICES ASSUME NEW c \in DOMAIN links PROVE links[c] \in 0..Len(nodes) /\ links[c] # c
      OBVIOUS
    <3>1. scan.pc = "done" /\ c \in DOMAIN nodes
      BY <2>1 DEF ScanInv, Phases
    <3>2. DOMAIN nodes = 1..Len(nodes)
      BY <2>1 DEF ScanInv, ScanType
    <3> QED
      BY <2>1, <2>3, <3>1, <3>2, LinkIs DEF Named, Readable
  <2> QED
    BY <2>1, <2>2, <2>3, <2>4 DEF TypeOK, HistoryInv, ScanInv, ScanType, ListedOK, Ordered
<1> QED
  BY <1>1, InvHolds, PTL

\* What a walk has collected when it is over.
LEMMA WalkedPath ==
  ASSUME Inv, MaxFiles <= MaxPath, Walked
  PROVE  /\ walk.path \in Seq(1..Len(nodes)) /\ DOMAIN nodes = 1..Len(nodes) /\ scan.pc = "done"
         /\ Len(walk.path) \in Nat \ {0} /\ DOMAIN walk.path = 1..Len(walk.path)
         /\ \A i \in DOMAIN walk.path : walk.path[i] \in Readable
         /\ \A i \in 1..(Len(walk.path) - 1) : TrueLink(walk.path[i], walk.path[i + 1])
         /\ links[walk.path[Len(walk.path)]] = 0
<1>1. HistoryInv /\ ScanInv /\ WalkInv /\ Climbing
  BY DEF Inv, WalkInv
<1>2. walk.at = 0 /\ walk.path # <<>> /\ ~nodes[walk.path[1]].err
  BY DEF Walked
<1>3. scan.pc = "done"
  BY <1>1, <1>2 DEF WalkInv
<1>4. PICK s : s = walk.path
  OBVIOUS
<1>5. /\ s \in Seq(1..Len(nodes)) /\ DOMAIN nodes = 1..Len(nodes)
      /\ Len(s) \in Nat \ {0} /\ DOMAIN s = 1..Len(s) /\ \A i \in 1..Len(s) : s[i] \in DOMAIN nodes
  BY <1>1, <1>2, <1>4 DEF WalkInv, ScanInv, ScanType
<1>6. ASSUME NEW i \in 1..(Len(s) - 1) PROVE TrueLink(s[i], s[i + 1])
  <2>1. i \in 1..Len(s) /\ i + 1 \in 1..Len(s) /\ links[s[i]] = s[i + 1]
    <3>1. \A j \in 1..(Len(s) - 1) : links[s[j]] = s[j + 1]
      BY <1>1, <1>4 DEF Climbing
    <3> QED
      BY <1>5, <3>1
  <2>2. s[i] \in DOMAIN nodes /\ s[i + 1] # 0
    BY <1>5, <2>1
  <2> QED
    BY <1>1, <1>3, <2>1, <2>2, LinkTrue
<1>7. ASSUME NEW i \in 1..Len(s) PROVE s[i] \in Readable
  <2>1. CASE i = 1
    BY <1>2, <1>4, <1>5, <2>1 DEF Readable
  <2>2. CASE i # 1
    <3>1. i - 1 \in 1..(Len(s) - 1) /\ (i - 1) + 1 = i
      BY <1>5, <2>2
    <3> QED
      BY <1>6, <3>1 DEF TrueLink
  <2> QED
    BY <2>1, <2>2
<1>8. links[s[Len(s)]] = 0
  BY <1>1, <1>2, <1>4 DEF Climbing
<1> QED
  BY <1>3, <1>4, <1>5, <1>6, <1>7, <1>8

\* What the history says of a readable node.
LEMMA NodeMadeFrom ==
  ASSUME HistoryInv, NEW n \in Readable, NEW x, x = nodes[n].info
  PROVE  MadeFrom(Content(x)) = x.of /\ Sane(x) /\ Known(x)
<1>1. Sane(x) /\ Known(x)
  BY SeenRead DEF HistoryInv
<1> QED
  BY <1>1 DEF MadeFrom, Known

\* A lineage is a line of descent, and a complete one goes on to a base,
\* whatever happened to the directory while it was scanned: linkTree joins by
\* the identity alone.
THEOREM LineagesAreTrue == ASSUME AllConsistent, MaxFiles <= MaxPath PROVE Spec => []LineageIsTrue
<1>1. Inv => LineageIsTrue
  <2> SUFFICES ASSUME Inv, Walked
               PROVE  LET got == ContentsOf(walk.path)
                      IN  Descends(got) /\ (Complete(walk.path) => ToABase(got))
    BY DEF LineageIsTrue
  <2>1. HistoryInv
    BY DEF Inv
  <2>2. PICK s : s = walk.path
    OBVIOUS
  <2>3. /\ Len(s) \in Nat \ {0} /\ DOMAIN s = 1..Len(s)
        /\ \A i \in 1..Len(s) : s[i] \in Readable
        /\ \A i \in 1..(Len(s) - 1) : TrueLink(s[i], s[i + 1])
    BY <2>2, WalkedPath
  <2>4. PICK got : got = ContentsOf(s)
    OBVIOUS
  <2>5. DOMAIN got = 1..Len(s) /\ \A i \in 1..Len(s) : got[i] = Content(nodes[s[i]].info)
    BY <2>3, <2>4 DEF ContentsOf
  <2>6. Descends(got)
    <3> SUFFICES ASSUME NEW i \in DOMAIN got, i + 1 \in DOMAIN got PROVE got[i + 1] = MadeFrom(got[i])
      BY DEF Descends
    <3>1. i \in 1..Len(s) /\ i + 1 \in 1..Len(s) /\ i \in 1..(Len(s) - 1)
      BY <2>3, <2>5
    <3>2. TrueLink(s[i], s[i + 1]) /\ s[i] \in Readable
      BY <2>3, <3>1
    <3> QED
      BY <2>1, <2>5, <3>1, <3>2, NodeMadeFrom DEF TrueLink
  <2>7. ASSUME Complete(s) PROVE ToABase(got)
    <3> SUFFICES ASSUME NEW i \in DOMAIN got, i + 1 \notin DOMAIN got PROVE MadeFrom(got[i]) = NoContent
      BY DEF ToABase
    <3>1. i = Len(s)
      BY <2>3, <2>5
    <3>2. s[i] \in Readable /\ ~nodes[s[i]].info.diff
      BY <2>3, <2>7, <3>1 DEF Complete
    <3>3. got[i] = Content(nodes[s[i]].info)
      BY <2>5
    <3> QED
      BY <2>1, <3>2, <3>3, NodeMadeFrom DEF Sane
  <2> QED
    BY <2>2, <2>4, <2>6, <2>7
<1> QED
  BY <1>1, InvHolds, PTL

\* A lineage does not end while the parent is listed, readable and can be named:
\* byLink has every readable node, whenever it was probed.
THEOREM LineagesAreWhole == ASSUME AllConsistent, MaxFiles <= MaxPath PROVE Spec => []LineageIsWhole
<1>1. Inv => LineageIsWhole
  <2> SUFFICES ASSUME Inv, Walked
               PROVE  LET last == nodes[walk.path[Len(walk.path)]].info
                          next == MadeFrom(Content(last))
                      IN  \/ next = NoContent \/ next[1] = 0 \/ NamesItself(last)
                          \/ \A n \in DOMAIN nodes : nodes[n].err \/ Content(nodes[n].info) # next
    BY DEF LineageIsWhole
  <2>1. HistoryInv /\ ScanInv
    BY DEF Inv
  <2>2. PICK c : c = walk.path[Len(walk.path)]
    OBVIOUS
  <2>3. c \in Readable /\ links[c] = 0 /\ scan.pc = "done"
    BY <2>2, WalkedPath
  <2>4. PICK x : x = nodes[c].info
    OBVIOUS
  <2>5. MadeFrom(Content(x)) = x.of /\ Sane(x)
    BY <2>1, <2>3, <2>4, NodeMadeFrom
  <2>6. CASE ~x.diff
    BY <2>2, <2>4, <2>5, <2>6 DEF Sane
  <2>7. CASE x.diff /\ ~NamesItself(x) /\ x.want = 0
    <3>1. x.of \in Nat \X Nat /\ Identity(fmt, x.of) = 0 /\ (x.of[2] = 0 => x.of[1] = 0)
      BY <2>5, <2>7 DEF Sane
    <3>2. x.of[1] = 0
      BY <2>1, <3>1 DEF Identity
    <3> QED
      BY <2>2, <2>4, <2>5, <3>2
  <2>8. CASE x.diff /\ ~NamesItself(x) /\ x.want # 0
    <3>1. Link(x)
      BY <2>8 DEF Link
    <3>2. \A n \in Readable : Content(nodes[n].info) # x.of
      BY <2>1, <2>3, <2>4, <3>1, LinkWhole
    <3> QED
      BY <2>2, <2>4, <2>5, <3>2 DEF Readable
  <2>9. CASE NamesItself(x)
    BY <2>2, <2>4, <2>9
  <2>10. x.diff \in BOOLEAN
    BY <2>5 DEF Sane
  <2> QED
    BY <2>6, <2>7, <2>8, <2>9, <2>10
<1> QED
  BY <1>1, InvHolds, PTL

-----------------------------------------------------------------------------
(* Lineages of the tree, whether somebody walks them or not.                *)

\* s goes up the links from m for as long as there are any.
LineageOf(m, s) ==
  /\ s \in Seq(DOMAIN nodes) /\ s # <<>> /\ s[1] = m /\ links[s[Len(s)]] = 0
  /\ \A i \in 1..(Len(s) - 1) : links[s[i]] = s[i + 1]
Tree == HistoryInv /\ ScanInv /\ scan.pc = "done"

LEMMA TreeTypes ==
  ASSUME Tree
  PROVE  /\ Len(nodes) \in Nat /\ DOMAIN nodes = 1..Len(nodes) /\ DOMAIN links = 1..Len(nodes)
         /\ \A c \in DOMAIN nodes : links[c] \in 0..Len(nodes)
         /\ \A c \in DOMAIN nodes : Age(c) \in Nat
         /\ \A c \in DOMAIN nodes : links[c] # 0 => links[c] \in DOMAIN nodes /\ TrueLink(c, links[c])
<1>1. HistoryInv /\ ScanInv /\ scan.pc = "done"
  BY DEF Tree
<1>2. /\ Len(nodes) \in Nat /\ DOMAIN nodes = 1..Len(nodes) /\ DOMAIN links = 1..Len(nodes)
  BY <1>1 DEF ScanInv, ScanType, Phases
<1>3. ASSUME NEW c \in DOMAIN nodes, links[c] # 0 PROVE links[c] \in DOMAIN nodes /\ TrueLink(c, links[c])
  BY <1>1, <1>3, LinkTrue DEF TrueLink, Readable
<1>4. \A c \in DOMAIN nodes : Age(c) \in Nat
  BY <1>1, AgeIs
<1> QED
  BY <1>2, <1>3, <1>4

LEMMA LineageTypes ==
  ASSUME Tree, NEW m, NEW s, LineageOf(m, s)
  PROVE  /\ Len(s) \in Nat \ {0} /\ DOMAIN s = 1..Len(s) /\ \A i \in 1..Len(s) : s[i] \in DOMAIN nodes
         /\ m \in DOMAIN nodes /\ s = [i \in 1..Len(s) |-> s[i]]
         /\ \A i \in 1..(Len(s) - 1) : links[s[i]] # 0 /\ TrueLink(s[i], s[i + 1])
<1>1. s \in Seq(DOMAIN nodes) /\ s # <<>> /\ s[1] = m
  BY DEF LineageOf
<1>2. /\ Len(s) \in Nat \ {0} /\ DOMAIN s = 1..Len(s) /\ \A i \in 1..Len(s) : s[i] \in DOMAIN nodes
      /\ s = [i \in 1..Len(s) |-> s[i]]
  BY <1>1
<1>3. ASSUME NEW i \in 1..(Len(s) - 1) PROVE links[s[i]] # 0 /\ TrueLink(s[i], s[i + 1])
  <2>1. i \in 1..Len(s) /\ i + 1 \in 1..Len(s) /\ links[s[i]] = s[i + 1]
    BY <1>2 DEF LineageOf
  <2>2. s[i] \in DOMAIN nodes /\ s[i + 1] # 0
    BY <1>2, <2>1, TreeTypes
  <2> QED
    BY <2>1, <2>2, TreeTypes
<1> QED
  BY <1>1, <1>2, <1>3

\* It is not longer than there are nodes.
LEMMA LineageShort == ASSUME Tree, NEW m, NEW s, LineageOf(m, s) PROVE Len(s) <= Len(nodes)
<1>1. /\ Len(s) \in Nat \ {0} /\ DOMAIN s = 1..Len(s) /\ \A i \in 1..Len(s) : s[i] \in DOMAIN nodes
      /\ \A i \in 1..(Len(s) - 1) : TrueLink(s[i], s[i + 1])
  BY LineageTypes
<1>2. \A i \in 1..Len(s) : Age(s[i]) \in Nat
  BY <1>1, TreeTypes
<1> DEFINE S == {k \in Nat : \A i \in 1..Len(s) : i + k + 1 \in 1..Len(s) => Age(s[i + k + 1]) < Age(s[i])}
<1>3. 0 \in S
  <2> SUFFICES ASSUME NEW i \in 1..Len(s), i + 0 + 1 \in 1..Len(s) PROVE Age(s[i + 0 + 1]) < Age(s[i])
    OBVIOUS
  <2>1. i \in 1..(Len(s) - 1) /\ i + 0 + 1 = i + 1
    BY <1>1
  <2> QED
    BY <1>1, <2>1 DEF TrueLink
<1>4. ASSUME NEW k \in S PROVE k + 1 \in S
  <2>1. k \in Nat
    OBVIOUS
  <2> SUFFICES ASSUME NEW i \in 1..Len(s), i + (k + 1) + 1 \in 1..Len(s)
               PROVE  Age(s[i + (k + 1) + 1]) < Age(s[i])
    BY <2>1
  <2>2. PICK j : j = i + k + 1
    OBVIOUS
  <2>3. j \in 1..Len(s) /\ j \in 1..(Len(s) - 1) /\ i + (k + 1) + 1 = j + 1 /\ j + 1 \in 1..Len(s)
    BY <1>1, <2>1, <2>2
  <2>4. Age(s[j]) < Age(s[i])
    BY <1>4, <2>2, <2>3
  <2>5. Age(s[j + 1]) < Age(s[j])
    BY <1>1, <2>3 DEF TrueLink
  <2>6. Age(s[i]) \in Nat /\ Age(s[j]) \in Nat /\ Age(s[j + 1]) \in Nat
    BY <1>2, <2>3
  <2> QED
    BY <2>3, <2>4, <2>5, <2>6
<1>5. S = Nat
  <2>1. S \in SUBSET Nat
    OBVIOUS
  <2> HIDE DEF S
  <2> QED
    BY <1>3, <1>4, <2>1, SetInduction
<1>6. Falling(s)
  <2> SUFFICES ASSUME NEW i \in 1..Len(s), NEW j \in 1..Len(s), i < j PROVE Age(s[j]) < Age(s[i])
    BY <1>1 DEF Falling
  <2>1. PICK k : k = j - i - 1
    OBVIOUS
  <2>2. k \in Nat /\ i + k + 1 = j
    BY <1>1, <2>1
  <2>3. k \in S
    BY <1>5, <2>2
  <2> QED
    BY <2>2, <2>3
<1>7. s \in Seq(1..Len(nodes)) /\ Len(nodes) \in Nat
  BY TreeTypes DEF LineageOf
<1> QED
  BY <1>1, <1>2, <1>6, <1>7, FallingIsShort

\* Every node has one, and a node's lineage is the parent's with it in front.
Behind(t, s) == \A i \in 1..Len(t) : i + 1 \in DOMAIN s /\ s[i + 1] = t[i]

LEMMA LineageCons ==
  ASSUME Tree, NEW c \in DOMAIN nodes, links[c] # 0, NEW t, LineageOf(links[c], t)
  PROVE  \E s : LineageOf(c, s) /\ Behind(t, s)
<1>0. PICK s : s = <<c>> \o t
  OBVIOUS
<1>1. /\ Len(t) \in Nat \ {0} /\ DOMAIN t = 1..Len(t) /\ t \in Seq(DOMAIN nodes)
      /\ t[1] = links[c] /\ links[t[Len(t)]] = 0
      /\ \A i \in 1..(Len(t) - 1) : links[t[i]] = t[i + 1]
  BY LineageTypes DEF LineageOf
<1>2. /\ s \in Seq(DOMAIN nodes) /\ Len(s) = Len(t) + 1 /\ s[1] = c
      /\ \A i \in 1..Len(t) : s[i + 1] = t[i]
  <2>1. <<c>> \in Seq(DOMAIN nodes) /\ Len(<<c>>) = 1 /\ <<c>>[1] = c
    OBVIOUS
  <2> QED
    BY <1>0, <1>1, <2>1, ConcatProperties
<1>3. DOMAIN s = 1..(Len(t) + 1) /\ s # <<>> /\ s[Len(s)] = t[Len(t)]
  BY <1>1, <1>2
<1>4. ASSUME NEW i \in 1..(Len(s) - 1) PROVE links[s[i]] = s[i + 1]
  <2>1. CASE i = 1
    BY <1>1, <1>2, <2>1
  <2>2. CASE i # 1
    <3>1. PICK j : j = i - 1
      OBVIOUS
    <3>2. j \in 1..(Len(t) - 1) /\ j \in 1..Len(t) /\ j + 1 \in 1..Len(t) /\ i = j + 1
      BY <1>1, <1>2, <2>2, <3>1
    <3> QED
      BY <1>1, <1>2, <3>2
  <2> QED
    BY <2>1, <2>2
<1>5. LineageOf(c, s)
  BY <1>1, <1>2, <1>3, <1>4 DEF LineageOf
<1>6. Behind(t, s)
  BY <1>1, <1>2, <1>3 DEF Behind
<1> QED
  BY <1>5, <1>6

LEMMA LineageExists == ASSUME Tree PROVE \A m \in DOMAIN nodes : \E s : LineageOf(m, s)
<1> DEFINE D == DOMAIN nodes
           S == {m \in D : \E s : LineageOf(m, s)}
           f == [m \in D |-> Age(m)]
<1>1. f \in [D -> Nat] /\ S \in SUBSET D
  BY TreeTypes
<1>2. ASSUME NEW m \in D, \A x \in D : f[x] < f[m] => x \in S PROVE m \in S
  <2>1. CASE links[m] = 0
    <3>1. LineageOf(m, <<m>>)
      BY <2>1 DEF LineageOf
    <3> QED
      BY <3>1
  <2>2. CASE links[m] # 0
    <3>1. links[m] \in D /\ Age(links[m]) < Age(m)
      BY <2>2, TreeTypes DEF TrueLink
    <3>2. PICK t : LineageOf(links[m], t)
      BY <1>2, <3>1
    <3> QED
      BY <2>2, <3>2, LineageCons
  <2> QED
    BY <2>1, <2>2
<1>3. S = D
  <2> HIDE DEF S, D, f
  <2> QED
    BY <1>1, <1>2, MeasureInduction
<1> QED
  BY <1>3

\* UpFrom, step by step.
LEMMA UpUnfolds ==
  ASSUME Tree, NEW n \in DOMAIN nodes
  PROVE  /\ UpFrom(n)[0] = n
         /\ \A k \in 1..Len(nodes) :
              UpFrom(n)[k] = IF UpFrom(n)[k - 1] = 0 THEN 0 ELSE links[UpFrom(n)[k - 1]]
<1> DEFINE N == Len(nodes)
           V == 0..N
           F == [k \in 1..N |-> [v \in V |-> IF v = 0 THEN 0 ELSE links[v]]]
           Is(f) == f = [k \in 0..N |-> IF k = 0 THEN n ELSE IF f[k - 1] = 0 THEN 0 ELSE links[f[k - 1]]]
<1>1. N \in Nat /\ n \in V /\ DOMAIN nodes = 1..N /\ \A c \in 1..N : links[c] \in V
  BY TreeTypes
<1>2. F \in [1..N -> [V -> V]]
  <2> SUFFICES ASSUME NEW k \in 1..N, NEW v \in V PROVE (IF v = 0 THEN 0 ELSE links[v]) \in V
    OBVIOUS
  <2> QED
    BY <1>1
<1>3. PICK f \in [0..N -> V] : f = [k \in 0..N |-> IF k = 0 THEN n ELSE F[k][f[k - 1]]]
  <2> HIDE DEF F, V, N
  <2>1. Iteration(N, V, n, F)
    BY <1>1, <1>2 DEF Iteration
  <2> QED
    BY <2>1, IterationExists
<1>4. Is(f)
  <2> SUFFICES ASSUME NEW k \in 0..N, k # 0
               PROVE  F[k][f[k - 1]] = IF f[k - 1] = 0 THEN 0 ELSE links[f[k - 1]]
    BY <1>3
  <2>1. k \in 1..N /\ k - 1 \in 0..N
    BY <1>1
  <2>2. f[k - 1] \in V
    BY <1>3, <2>1
  <2> QED
    BY <2>1, <2>2
<1> DEFINE up == CHOOSE f1 : Is(f1)
<1>5. Is(up)
  <2> HIDE DEF Is
  <2> QED
    BY <1>4
<1>6. UpFrom(n) = up
  BY DEF UpFrom
<1> HIDE DEF up
<1>7. up[0] = n /\ \A k \in 1..N : up[k] = IF up[k - 1] = 0 THEN 0 ELSE links[up[k - 1]]
  BY <1>1, <1>5
<1> QED
  BY <1>6, <1>7

\* Upwards gives the lineage.
LEMMA UpwardsIs == ASSUME Tree, NEW m, NEW s, LineageOf(m, s) PROVE Upwards(m) = s
<1>1. /\ Len(s) \in Nat \ {0} /\ DOMAIN s = 1..Len(s) /\ \A i \in 1..Len(s) : s[i] \in DOMAIN nodes
      /\ m \in DOMAIN nodes /\ s = [i \in 1..Len(s) |-> s[i]] /\ s[1] = m /\ links[s[Len(s)]] = 0
      /\ \A i \in 1..(Len(s) - 1) : links[s[i]] = s[i + 1]
  BY LineageTypes DEF LineageOf
<1>2. Len(s) <= Len(nodes) /\ Len(nodes) \in Nat /\ DOMAIN nodes = 1..Len(nodes)
  BY LineageShort, TreeTypes
<1>3. PICK up : up = UpFrom(m)
  OBVIOUS
<1>4. up[0] = m /\ \A k \in 1..Len(nodes) : up[k] = IF up[k - 1] = 0 THEN 0 ELSE links[up[k - 1]]
  BY <1>1, <1>3, UpUnfolds
<1> DEFINE S == {k \in Nat : k < Len(s) => up[k] = s[k + 1]}
<1>5. 0 \in S
  BY <1>1, <1>4
<1>6. ASSUME NEW k \in S PROVE k + 1 \in S
  <2>1. k \in Nat
    OBVIOUS
  <2> SUFFICES ASSUME k + 1 < Len(s) PROVE up[k + 1] = s[k + 1 + 1]
    BY <2>1
  <2>2. k < Len(s) /\ k + 1 \in 1..(Len(s) - 1) /\ k + 1 \in 1..Len(s) /\ k + 1 \in 1..Len(nodes)
        /\ (k + 1) - 1 = k
    BY <1>1, <1>2, <2>1
  <2>3. up[k] = s[k + 1]
    BY <1>6, <2>2
  <2>4. s[k + 1] # 0
    BY <1>1, <1>2, <2>2
  <2> QED
    BY <1>1, <1>4, <2>2, <2>3, <2>4
<1>7. S = Nat
  <2>1. S \in SUBSET Nat
    OBVIOUS
  <2> HIDE DEF S
  <2> QED
    BY <1>5, <1>6, <2>1, SetInduction
<1>8. \A k \in 0..(Len(s) - 1) : up[k] = s[k + 1] /\ up[k] # 0
  <2> SUFFICES ASSUME NEW k \in 0..(Len(s) - 1) PROVE up[k] = s[k + 1] /\ up[k] # 0
    OBVIOUS
  <2>1. k \in Nat /\ k < Len(s) /\ k + 1 \in 1..Len(s)
    BY <1>1
  <2>2. k \in S
    BY <1>7, <2>1
  <2> QED
    BY <1>1, <1>2, <2>1, <2>2
<1>9. up[Len(s)] = 0
  <2>1. Len(s) \in 1..Len(nodes) /\ Len(s) - 1 \in 0..(Len(s) - 1) /\ (Len(s) - 1) + 1 = Len(s)
    BY <1>1, <1>2
  <2>2. up[Len(s) - 1] = s[Len(s)] /\ up[Len(s) - 1] # 0
    BY <1>8, <2>1
  <2>3. up[Len(s)] = IF up[Len(s) - 1] = 0 THEN 0 ELSE links[up[Len(s) - 1]]
    BY <1>4, <2>1
  <2> QED
    BY <1>1, <2>2, <2>3
<1> HIDE DEF S
<1> DEFINE Ends(k) == up[k] = 0 /\ \A j \in 0..(k - 1) : up[j] # 0
<1>10. Len(s) \in 0..Len(nodes) /\ Ends(Len(s))
  BY <1>1, <1>2, <1>8, <1>9
<1>11. \A k \in 0..Len(nodes) : Ends(k) => k = Len(s)
  <2> SUFFICES ASSUME NEW k \in 0..Len(nodes), Ends(k) PROVE k = Len(s)
    OBVIOUS
  <2>1. ~(k < Len(s))
    <3> SUFFICES ASSUME k < Len(s) PROVE FALSE
      OBVIOUS
    <3>1. k \in 0..(Len(s) - 1)
      BY <1>1, <1>2
    <3> QED
      BY <1>8, <3>1
  <2>2. ~(Len(s) < k)
    <3> SUFFICES ASSUME Len(s) < k PROVE FALSE
      OBVIOUS
    <3>1. Len(s) \in 0..(k - 1)
      BY <1>1, <1>2
    <3> QED
      BY <1>9, <3>1
  <2> QED
    BY <1>1, <1>2, <2>1, <2>2
<1>12. PICK len : len = CHOOSE k \in 0..Len(nodes) : Ends(k)
  OBVIOUS
<1>13. len = Len(s)
  <2> HIDE DEF Ends
  <2> QED
    BY <1>10, <1>11, <1>12
<1>14. Upwards(m) = [k \in 1..len |-> up[k - 1]]
  BY <1>3, <1>12 DEF Upwards
<1>15. \A k \in 1..Len(s) : up[k - 1] = s[k]
  <2> SUFFICES ASSUME NEW k \in 1..Len(s) PROVE up[k - 1] = s[k]
    OBVIOUS
  <2>1. k - 1 \in 0..(Len(s) - 1) /\ (k - 1) + 1 = k
    BY <1>1
  <2> QED
    BY <1>8, <2>1
<1> QED
  BY <1>1, <1>13, <1>14, <1>15

-----------------------------------------------------------------------------
(* A directory left alone.                                                  *)

\* Every node is on the lineage of a leaf: that of the youngest below it.
LEMMA OnSomeLeaf ==
  ASSUME Tree, NEW n \in DOMAIN nodes
  PROVE  \E leaf \in DOMAIN nodes : IsLeaf(leaf) /\ n \in Range(Upwards(leaf))
<1> DEFINE Below == {m \in DOMAIN nodes : n \in Range(Upwards(m))}
           Ages == {Age(m) : m \in Below}
<1>1. n \in Below
  <2>1. PICK s : LineageOf(n, s)
    BY LineageExists
  <2>2. 1 \in DOMAIN s /\ s[1] = n
    BY <2>1, LineageTypes DEF LineageOf
  <2> QED
    BY <2>1, <2>2, UpwardsIs DEF Range
<1>2. ASSUME NEW m \in Below, NEW c \in DOMAIN nodes, links[c] = m PROVE c \in Below /\ Age(m) < Age(c)
  <2>1. m \in DOMAIN nodes /\ n \in Range(Upwards(m)) /\ m # 0
    BY TreeTypes
  <2>2. PICK t : LineageOf(m, t)
    BY <2>1, LineageExists
  <2>3. PICK i \in DOMAIN t : t[i] = n
    BY <2>1, <2>2, UpwardsIs DEF Range
  <2>4. PICK s : LineageOf(c, s) /\ Behind(t, s)
    <3>1. links[c] # 0 /\ LineageOf(links[c], t)
      BY <1>2, <2>1, <2>2
    <3> QED
      BY <3>1, LineageCons
  <2>5. i + 1 \in DOMAIN s /\ s[i + 1] = n
    <3>1. i \in 1..Len(t)
      BY <2>1, <2>2, <2>3, LineageTypes
    <3> QED
      BY <2>3, <2>4, <3>1 DEF Behind
  <2>6. n \in Range(Upwards(c))
    BY <2>4, <2>5, UpwardsIs DEF Range
  <2> QED
    BY <1>2, <2>1, <2>6, TreeTypes DEF TrueLink
<1>3. PICK m \in Below : \A c \in Below : ~(Age(m) < Age(c))
  <2>1. \E b \in Nat : \A c \in DOMAIN nodes : Age(c) < b
    <3>1. fresh \in Nat /\ \A c \in DOMAIN nodes : Age(c) < fresh
      <4> SUFFICES ASSUME NEW c \in DOMAIN nodes PROVE Age(c) < fresh
        BY DEF Tree, HistoryInv
      <4>0. fresh \in Nat \ {0}
        BY DEF Tree, HistoryInv
      <4>1. CASE nodes[c].err
        BY <4>0, <4>1 DEF Tree, ScanInv, ListedOK, Age, Blank
      <4>2. CASE ~nodes[c].err
        <5>1. c \in Readable
          BY <4>2 DEF Readable
        <5>2. PICK e \in Seen : e[2] = nodes[c].info
          BY <5>1, SeenRead
        <5> QED
          BY <5>2 DEF Tree, HistoryInv, Sane, Age
      <4> QED
        BY <4>1, <4>2
    <3> QED
      BY <3>1
  <2>2. PICK b \in Nat : \A c \in DOMAIN nodes : Age(c) < b
    BY <2>1
  <2>3. Ages \in SUBSET (0..b) /\ Ages # {}
    <3>1. \A c \in Below : c \in DOMAIN nodes /\ Age(c) \in Nat /\ Age(c) < b
      BY <2>2, TreeTypes
    <3> HIDE DEF Below
    <3> QED
      BY <1>1, <3>1
  <2>4. PICK a \in Ages : \A x \in Ages : x <= a
    <3> HIDE DEF Ages
    <3> QED
      BY <2>3, GreatestExists
  <2>5. PICK m \in Below : a = Age(m)
    OBVIOUS
  <2>6. \A c \in Below : Age(c) <= Age(m) /\ Age(c) \in Nat
    BY <2>4, <2>5, TreeTypes
  <2>7. Age(m) \in Nat
    BY <2>6
  <2> HIDE DEF Below, Ages
  <2>8. \A c \in Below : ~(Age(m) < Age(c))
    BY <2>6, <2>7
  <2> QED
    BY <2>8
<1>4. IsLeaf(m)
  <2> SUFFICES ASSUME NEW c \in DOMAIN links, links[c] = m PROVE FALSE
    BY DEF IsLeaf
  <2>1. c \in DOMAIN nodes
    BY TreeTypes
  <2> QED
    BY <1>2, <1>3, <2>1
<1> QED
  BY <1>3, <1>4

\* In a directory left alone every image file is a node, the unreadable ones
\* too, and every node is on some leaf's lineage: what Lineages hands out leaves
\* nothing out.
THEOREM NothingIsLeftOut == ASSUME AllConsistent PROVE Spec => []NothingLeftOut
<1>1. Inv => NothingLeftOut
  <2> SUFFICES ASSUME Inv, quiet, scan.pc = "done"
               PROVE  /\ {nodes[n].path : n \in DOMAIN nodes} =
                           {p \in DOMAIN lib : Wanted(p) /\ (scan.recursive \/ Dir(p) = <<>>)}
                      /\ \A n \in DOMAIN nodes : nodes[n].err <=> ~lib[nodes[n].path].ok
                      /\ \A n \in DOMAIN nodes : \E leaf \in DOMAIN nodes :
                           IsLeaf(leaf) /\ n \in Range(Upwards(leaf))
    BY DEF NothingLeftOut
  <2>1. Tree /\ ScanInv /\ QuietInv
    BY DEF Inv, Tree
  <2>2. scan.files = {} /\ scan.dirs = <<>> /\ Range(scan.dirs) = {}
    BY <2>1 DEF ScanInv, Phases, Range
  <2>3. PICK P : P = {nodes[n].path : n \in DOMAIN nodes}
    OBVIOUS
  <2>4. /\ \A n \in DOMAIN nodes : nodes[n] = ProbeFile(nodes[n].path)
        /\ \A p \in P : p \in DOMAIN lib /\ Wanted(p) /\ InScope(p)
        /\ \A p \in DOMAIN lib : Wanted(p) /\ InScope(p) => p \in P
    BY <2>1, <2>2, <2>3 DEF QuietInv
  <2>5. P = {p \in DOMAIN lib : Wanted(p) /\ (scan.recursive \/ Dir(p) = <<>>)}
    BY <2>4 DEF InScope
  <2>6. \A n \in DOMAIN nodes : nodes[n].err <=> ~lib[nodes[n].path].ok
    <3> SUFFICES ASSUME NEW n \in DOMAIN nodes PROVE nodes[n].err <=> ~lib[nodes[n].path].ok
      OBVIOUS
    <3>1. PICK p : p = nodes[n].path
      OBVIOUS
    <3>2. nodes[n] = ProbeFile(p) /\ p \in DOMAIN lib
      BY <2>3, <2>4, <3>1
    <3> QED
      BY <3>1, <3>2 DEF ProbeFile
  <2> QED
    BY <2>1, <2>3, <2>5, <2>6, OnSomeLeaf
<1> QED
  BY <1>1, InvHolds, PTL

-----------------------------------------------------------------------------
(* Opening by path.                                                         *)

\* Different files from p on, each verified as the parent of the one before.
ChainOf(p, ch) ==
  /\ ch \in Seq(DOMAIN lib) /\ ch # <<>> /\ ch[1] = p
  /\ \A i, j \in DOMAIN ch : ch[i] = ch[j] => i = j
  /\ \A i \in DOMAIN ch : lib[ch[i]].ok
  /\ \A i \in DOMAIN ch : i + 1 \in DOMAIN ch =>
       lib[ch[i]].diff /\ VerifyParent(lib[ch[i]], lib[ch[i + 1]])

LEMMA DeeperKeeps ==
  ASSUME NEW p, NEW kind, NEW ch, ChainOf(p, ch) PROVE ChainOf(p, Deeper(kind, ch))
<1>1. PICK src : src = FirstFile(Search(kind, ch[Len(ch)]), DOMAIN lib)
  OBVIOUS
<1>2. PICK up : up = Append(ch, src)
  OBVIOUS
<1>3. PICK last : last = ch[Len(ch)]
  OBVIOUS
<1>4. CASE ~(/\ lib[last].diff /\ src \in DOMAIN lib
             /\ lib[src].ok /\ VerifyParent(lib[last], lib[src])
             /\ \A i \in DOMAIN ch : ch[i] # src)
  BY <1>1, <1>3, <1>4 DEF Deeper
<1>5. CASE /\ lib[last].diff /\ src \in DOMAIN lib
           /\ lib[src].ok /\ VerifyParent(lib[last], lib[src])
           /\ \A i \in DOMAIN ch : ch[i] # src
  <2>1. Deeper(kind, ch) = up
    BY <1>1, <1>2, <1>3, <1>5 DEF Deeper
  <2>2. ch \in Seq(DOMAIN lib) /\ ch # <<>> /\ Len(ch) \in Nat \ {0} /\ DOMAIN ch = 1..Len(ch)
    BY DEF ChainOf
  <2>3. /\ up \in Seq(DOMAIN lib) /\ up # <<>> /\ Len(up) = Len(ch) + 1 /\ up[Len(ch) + 1] = src
        /\ \A i \in 1..Len(ch) : up[i] = ch[i]
        /\ DOMAIN up = 1..(Len(ch) + 1)
    BY <1>2, <1>5, <2>2, AppendProperties
  <2>4. up[1] = p
    BY <2>2, <2>3 DEF ChainOf
  <2>5. ASSUME NEW i \in DOMAIN up, NEW j \in DOMAIN up, up[i] = up[j] PROVE i = j
    <3>1. CASE i \in 1..Len(ch) /\ j \in 1..Len(ch)
      BY <2>2, <2>3, <2>5, <3>1 DEF ChainOf
    <3>2. CASE i = Len(ch) + 1 \/ j = Len(ch) + 1
      BY <1>5, <2>2, <2>3, <2>5, <3>2
    <3> QED
      BY <2>2, <2>3, <3>1, <3>2
  <2>6. \A i \in DOMAIN up : lib[up[i]].ok
    BY <1>5, <2>2, <2>3 DEF ChainOf
  <2>7. ASSUME NEW i \in DOMAIN up, i + 1 \in DOMAIN up
        PROVE  lib[up[i]].diff /\ VerifyParent(lib[up[i]], lib[up[i + 1]])
    <3>1. CASE i = Len(ch)
      BY <1>3, <1>5, <2>2, <2>3, <3>1
    <3>2. CASE i # Len(ch)
      <4>1. i \in 1..Len(ch) /\ i + 1 \in 1..Len(ch)
        BY <2>2, <2>3, <2>7, <3>2
      <4> QED
        BY <2>2, <2>3, <4>1 DEF ChainOf
    <3> QED
      BY <3>1, <3>2
  <2> QED
    BY <2>1, <2>3, <2>4, <2>5, <2>6, <2>7 DEF ChainOf
<1> QED
  BY <1>4, <1>5

LEMMA ResolvedIs ==
  ASSUME NEW kind, NEW p \in DOMAIN lib, lib[p].ok PROVE ChainOf(p, Resolved(kind, p))
<1> DEFINE N == Len(PathOrder)
           V == {ch \in Seq(DOMAIN lib) : ChainOf(p, ch)}
           F == [k \in 1..N |-> [ch \in V |-> Deeper(kind, ch)]]
           Is(f) == f = [k \in 0..N |-> IF k = 0 THEN <<p>> ELSE Deeper(kind, f[k - 1])]
<1>1. N \in Nat
  BY PathsAssumption
<1>2. <<p>> \in V
  <2>1. <<p>> \in Seq(DOMAIN lib) /\ DOMAIN <<p>> = {1} /\ <<p>>[1] = p /\ <<p>> # <<>>
    OBVIOUS
  <2> QED
    BY <2>1 DEF ChainOf
<1>3. F \in [1..N -> [V -> V]]
  <2> SUFFICES ASSUME NEW ch \in V PROVE Deeper(kind, ch) \in V
    OBVIOUS
  <2>1. ChainOf(p, Deeper(kind, ch))
    BY DeeperKeeps
  <2> QED
    BY <2>1 DEF ChainOf
<1>4. PICK f \in [0..N -> V] : f = [k \in 0..N |-> IF k = 0 THEN <<p>> ELSE F[k][f[k - 1]]]
  <2> HIDE DEF F, V, N
  <2>1. Iteration(N, V, <<p>>, F)
    BY <1>1, <1>2, <1>3 DEF Iteration
  <2> QED
    BY <2>1, IterationExists
<1>5. Is(f)
  <2> SUFFICES ASSUME NEW k \in 0..N, k # 0 PROVE F[k][f[k - 1]] = Deeper(kind, f[k - 1])
    BY <1>4
  <2>1. k \in 1..N /\ k - 1 \in 0..N
    BY <1>1
  <2>2. f[k - 1] \in V
    <3> HIDE DEF V
    <3> QED
      BY <2>1
  <2> HIDE DEF V
  <2> QED
    BY <2>1, <2>2
<1> DEFINE upTo == CHOOSE f1 : Is(f1)
<1>6. Is(upTo)
  <2> HIDE DEF Is
  <2> QED
    BY <1>5
<1>7. Resolved(kind, p) = upTo[N]
  BY DEF Resolved
<1> HIDE DEF upTo
<1> DEFINE S == {k \in Nat : k \in 0..N => upTo[k] \in V}
<1>8. 0 \in S
  <2> HIDE DEF V
  <2>1. upTo[0] = <<p>>
    BY <1>1, <1>6
  <2> QED
    BY <1>2, <2>1
<1>9. ASSUME NEW k \in S PROVE k + 1 \in S
  <2>1. k \in Nat
    OBVIOUS
  <2> SUFFICES ASSUME k + 1 \in 0..N PROVE upTo[k + 1] \in V
    BY <2>1
  <2>2. k \in 0..N /\ k + 1 # 0 /\ (k + 1) - 1 = k
    BY <1>1, <2>1
  <2>3. upTo[k + 1] = Deeper(kind, upTo[k])
    BY <1>6, <2>2
  <2>4. upTo[k] \in V
    <3> HIDE DEF V
    <3> QED
      BY <1>9, <2>2
  <2>5. ChainOf(p, Deeper(kind, upTo[k]))
    BY <2>4, DeeperKeeps
  <2> QED
    BY <2>3, <2>5 DEF ChainOf
<1>10. S = Nat
  <2>1. S \in SUBSET Nat
    OBVIOUS
  <2> HIDE DEF S
  <2> QED
    BY <1>8, <1>9, <2>1, SetInduction
<1>11. upTo[N] \in V
  <2>1. N \in S /\ N \in 0..N
    <3> HIDE DEF S
    <3> QED
      BY <1>1, <1>10
  <2> HIDE DEF V
  <2> QED
    BY <2>1
<1> QED
  BY <1>7, <1>11

\* Where there is an identity to check, each file holds what the one before it
\* was made from; the record of none is damaged.
LEMMA CheckedChain ==
  ASSUME HistoryInv, NEW p, NEW ch, ChainOf(p, ch),
         \A i \in DOMAIN ch : lib[ch[i]].diff => lib[ch[i]].want # 0,
         NEW i \in DOMAIN ch, NEW x, x = lib[ch[i]]
  PROVE  /\ Sane(x) /\ Known(x) /\ MadeFrom(Content(x)) = x.of
         /\ i + 1 \in DOMAIN ch =>
              Link(x) /\ Content(lib[ch[i + 1]]) = x.of
<1>1. /\ ch \in Seq(DOMAIN lib) /\ DOMAIN ch = 1..Len(ch) /\ Len(ch) \in Nat
      /\ \A k \in DOMAIN ch : ch[k] \in DOMAIN lib
  BY DEF ChainOf
<1>2. PICK d \in Seen : d[1] = ch[i] /\ d[2] = x
  BY <1>1, SeenThere
<1>3. Sane(x) /\ Known(x) /\ MadeFrom(Content(x)) = x.of
  BY <1>2 DEF HistoryInv, Known, MadeFrom
<1>4. ASSUME i + 1 \in DOMAIN ch PROVE Link(x) /\ Content(lib[ch[i + 1]]) = x.of
  <2>1. PICK y : y = lib[ch[i + 1]]
    OBVIOUS
  <2>2. PICK e \in Seen : e[1] = ch[i + 1] /\ e[2] = y
    BY <1>1, <1>4, <2>1, SeenThere
  <2>3. x.diff /\ VerifyParent(x, y) /\ x.want # 0
    BY <1>4, <2>1 DEF ChainOf
  <2>4. Key(y) = x.want
    BY <2>3, KeyIsLinkIdentity DEF VerifyParent
  <2>5. ~NamesItself(x)
    <3> SUFFICES ASSUME NamesItself(x) PROVE FALSE
      OBVIOUS
    <3>1. d[1] = e[1]
      BY <1>2, <2>2, <2>4 DEF HistoryInv, Alone
    <3>2. i = i + 1
      BY <1>2, <1>4, <2>2, <3>1 DEF ChainOf
    <3> QED
      BY <1>1, <3>2
  <2>6. Link(x)
    BY <2>3, <2>5 DEF Link
  <2>7. Known(y)
    BY <2>2 DEF HistoryInv
  <2> QED
    BY <1>3, <2>1, <2>4, <2>6, <2>7 DEF Known, Key
<1> QED
  BY <1>3, <1>4

\* Two readings of one disk go on to one parent, or end together.
LEMMA SameContents ==
  ASSUME Tree, NEW c \in Readable, NEW x, x = nodes[c].info,
         NEW q \in DOMAIN lib, NEW y, y = lib[q], Content(x) = Content(y)
  PROVE  /\ Link(y) /\ (\E m \in Readable : Content(nodes[m].info) = y.of) =>
              links[c] # 0 /\ links[c] \in Readable /\ Content(nodes[links[c]].info) = y.of
         /\ ~y.diff => links[c] = 0 /\ ~x.diff
<1>1. HistoryInv /\ ScanInv /\ scan.pc = "done" /\ c \in DOMAIN nodes /\ ~nodes[c].err
  BY DEF Tree, Readable
<1>2. PICK d \in Seen : d[1] = nodes[c].path /\ d[2] = x
  BY SeenRead
<1>3. PICK e \in Seen : e[1] = q /\ e[2] = y
  BY SeenThere
<1>4. Sane(x) /\ Known(x) /\ Sane(y) /\ Known(y)
  BY <1>1, <1>2, <1>3 DEF HistoryInv
<1>5. x.of = y.of
  BY <1>4 DEF Known
<1>6. x.diff <=> y.diff
  <2>1. NoContent \notin Nat \X Nat
    BY DEF NoContent
  <2> QED
    BY <1>4, <1>5, <2>1 DEF Sane
<1>7. NamesItself(x) => NamesItself(y)
  <2> SUFFICES ASSUME NamesItself(x) PROVE NamesItself(y)
    OBVIOUS
  <2>1. Key(y) = x.want
    BY DEF Key, NamesItself, Selfish
  <2> QED
    BY <1>1, <1>2, <1>3, <2>1 DEF HistoryInv, Alone
<1>8. ASSUME Link(y), NEW m \in Readable, Content(nodes[m].info) = y.of
      PROVE  links[c] # 0 /\ links[c] \in Readable /\ Content(nodes[links[c]].info) = y.of
  <2>1. Link(x)
    BY <1>4, <1>5, <1>6, <1>7, <1>8 DEF Link, Sane
  <2>2. links[c] # 0
    BY <1>1, <1>5, <1>8, <2>1, LinkWhole
  <2>3. TrueLink(c, links[c])
    BY <1>1, <2>2, LinkTrue
  <2> QED
    BY <1>5, <2>2, <2>3 DEF TrueLink
<1>9. ASSUME ~y.diff PROVE links[c] = 0 /\ ~x.diff
  <2>1. ~Link(nodes[c].info)
    BY <1>6, <1>9 DEF Link
  <2> QED
    BY <1>1, <1>6, <1>9, <2>1, LinkTrue DEF TrueLink
<1> QED
  BY <1>8, <1>9

Checked(ch)  == \A i \in DOMAIN ch : lib[ch[i]].diff => lib[ch[i]].want # 0
Listed(ch)   == \A i \in DOMAIN ch : \E m \in Readable : nodes[m].info = lib[ch[i]]
Alike(t, ch) == \A i \in 1..Len(ch) : Content(nodes[t[i]].info) = Content(lib[ch[i]])

\* Of a chain whose files are all listed the tree has the contents.
LEMMA ListedChain ==
  ASSUME Tree, NEW n \in Readable, NEW ch, ChainOf(nodes[n].path, ch),
         nodes[n].info = lib[nodes[n].path],
         Checked(ch), ~lib[ch[Len(ch)]].diff, Listed(ch), NEW t, LineageOf(n, t)
  PROVE  Len(t) = Len(ch) /\ Complete(t) /\ Alike(t, ch)
<1>1. HistoryInv /\ ScanInv /\ scan.pc = "done"
  BY DEF Tree
<1>2. /\ Len(t) \in Nat \ {0} /\ DOMAIN t = 1..Len(t) /\ \A i \in 1..Len(t) : t[i] \in DOMAIN nodes
      /\ t[1] = n /\ links[t[Len(t)]] = 0
      /\ \A i \in 1..(Len(t) - 1) : links[t[i]] = t[i + 1] /\ links[t[i]] # 0
  BY LineageTypes DEF LineageOf
<1>3. /\ Len(ch) \in Nat \ {0} /\ DOMAIN ch = 1..Len(ch) /\ ch[1] = nodes[n].path
      /\ \A k \in 1..Len(ch) : ch[k] \in DOMAIN lib
  BY DEF ChainOf
<1> DEFINE Agree(i) == /\ i \in 1..Len(t) /\ t[i] \in Readable
                       /\ Content(nodes[t[i]].info) = Content(lib[ch[i]])
           S == {k \in Nat : k < Len(ch) => Agree(k + 1)}
<1>4. 0 \in S
  BY <1>2, <1>3
<1>5. ASSUME NEW k \in S PROVE k + 1 \in S
  <2>1. k \in Nat
    OBVIOUS
  <2> SUFFICES ASSUME k + 1 < Len(ch) PROVE Agree(k + 1 + 1)
    BY <2>1
  <2>2. PICK i : i = k + 1
    OBVIOUS
  <2>3. i \in 1..Len(ch) /\ i + 1 \in 1..Len(ch) /\ k < Len(ch)
    BY <1>3, <2>1, <2>2
  <2>4. Agree(i)
    BY <1>5, <2>2, <2>3
  <2> HIDE DEF S
  <2>5. PICK c, q : c = t[i] /\ q = ch[i]
    OBVIOUS
  <2>6. /\ c \in Readable /\ q \in DOMAIN lib /\ i \in 1..Len(t)
        /\ Content(nodes[c].info) = Content(lib[q])
    BY <1>3, <2>3, <2>4, <2>5
  <2>7. Link(lib[q]) /\ Content(lib[ch[i + 1]]) = lib[q].of
    BY <1>1, <1>3, <2>3, <2>5, CheckedChain DEF Checked
  <2>8. PICK m \in Readable : nodes[m].info = lib[ch[i + 1]]
    BY <1>3, <2>3 DEF Listed
  <2>9. links[c] # 0 /\ links[c] \in Readable /\ Content(nodes[links[c]].info) = lib[q].of
    BY <2>6, <2>7, <2>8, SameContents
  <2>10. i \in 1..(Len(t) - 1)
    BY <1>2, <2>5, <2>6, <2>9
  <2>11. t[i + 1] = links[c] /\ i + 1 \in 1..Len(t)
    BY <1>2, <2>5, <2>10
  <2>12. Agree(i + 1)
    BY <2>7, <2>9, <2>11
  <2> QED
    BY <2>2, <2>12
<1>6. S = Nat
  <2>1. S \in SUBSET Nat
    OBVIOUS
  <2> HIDE DEF S
  <2> QED
    BY <1>4, <1>5, <2>1, SetInduction
<1>7. ASSUME NEW i \in 1..Len(ch) PROVE Agree(i)
  <2>1. PICK k : k = i - 1
    OBVIOUS
  <2>2. k \in Nat /\ k < Len(ch) /\ k + 1 = i
    BY <1>3, <2>1
  <2>3. k \in S
    <3> HIDE DEF S
    <3> QED
      BY <1>6, <2>2
  <2> HIDE DEF Agree
  <2> QED
    BY <2>2, <2>3
<1> HIDE DEF S
<1>8. PICK c, q : c = t[Len(ch)] /\ q = ch[Len(ch)]
  OBVIOUS
<1>9. /\ Len(ch) \in 1..Len(t) /\ c \in Readable /\ q \in DOMAIN lib /\ ~lib[q].diff
      /\ Content(nodes[c].info) = Content(lib[q])
  BY <1>3, <1>7, <1>8
<1>10. links[c] = 0 /\ ~nodes[c].info.diff
  BY <1>9, SameContents
<1>11. Len(t) = Len(ch)
  <2>1. ~(Len(ch) \in 1..(Len(t) - 1))
    BY <1>2, <1>8, <1>10
  <2>2. PICK a, b : a = Len(t) /\ b = Len(ch)
    OBVIOUS
  <2>3. a \in Nat \ {0} /\ b \in 1..a /\ ~(b \in 1..(a - 1))
    BY <1>2, <1>9, <2>1, <2>2
  <2>4. a = b
    BY <2>3
  <2> QED
    BY <2>2, <2>4
<1>12. Complete(t)
  BY <1>8, <1>9, <1>10, <1>11 DEF Complete, Readable
<1>13. Alike(t, ch)
  BY <1>7 DEF Alike
<1> QED
  BY <1>11, <1>12, <1>13

\* An open that follows recorded paths to a base, with an identity to check at
\* every step, has read the ancestry of the leaf, and the tree of a directory
\* that lists those files has the same contents on a complete lineage:
\* resolveChain with either resolver, and linkTree.
THEOREM OpensAgree == ASSUME AllConsistent PROVE Spec => []OpenAgreesWithTree
<1>1. Inv => OpenAgreesWithTree
  <2> SUFFICES ASSUME Inv, quiet, scan.pc = "done", NEW n \in DOMAIN nodes, NEW kind \in {"dir", "fs"},
                      ~nodes[n].err, NEW ch, ch = Resolved(kind, nodes[n].path),
                      ~lib[ch[Len(ch)]].diff,
                      \A i \in DOMAIN ch : lib[ch[i]].diff => lib[ch[i]].want # 0,
                      NEW got, got = [i \in DOMAIN ch |-> Content(lib[ch[i]])]
               PROVE  /\ Descends(got) /\ ToABase(got)
                      /\ (\A i \in DOMAIN ch : \E m \in DOMAIN nodes : nodes[m].path = ch[i]) =>
                           ContentsOf(Upwards(n)) = got /\ Complete(Upwards(n))
    BY DEF OpenAgreesWithTree
  <2>1. Tree /\ HistoryInv /\ QuietInv
    BY DEF Inv, Tree
  <2>2. PICK p : p = nodes[n].path
    OBVIOUS
  <2>3. \A m \in DOMAIN nodes : nodes[m] = ProbeFile(nodes[m].path) /\ nodes[m].path \in DOMAIN lib
    BY <2>1 DEF QuietInv
  <2>4. p \in DOMAIN lib /\ lib[p].ok /\ nodes[n].info = lib[p] /\ n \in Readable
    BY <2>2, <2>3 DEF ProbeFile, Readable
  <2>5. ChainOf(p, ch)
    BY <2>2, <2>4, ResolvedIs
  <2>6. /\ Len(ch) \in Nat \ {0} /\ DOMAIN ch = 1..Len(ch) /\ DOMAIN got = 1..Len(ch)
        /\ \A i \in 1..Len(ch) : got[i] = Content(lib[ch[i]])
    BY <2>5 DEF ChainOf
  <2>7. Descends(got)
    <3> SUFFICES ASSUME NEW i \in DOMAIN got, i + 1 \in DOMAIN got PROVE got[i + 1] = MadeFrom(got[i])
      BY DEF Descends
    <3>1. PICK x : x = lib[ch[i]]
      OBVIOUS
    <3>2. i \in DOMAIN ch /\ i + 1 \in DOMAIN ch
      BY <2>6
    <3>3. MadeFrom(Content(x)) = x.of /\ Content(lib[ch[i + 1]]) = x.of
      BY <2>1, <2>5, <3>1, <3>2, CheckedChain
    <3> QED
      BY <2>6, <3>1, <3>2, <3>3
  <2>8. ToABase(got)
    <3> SUFFICES ASSUME NEW i \in DOMAIN got, i + 1 \notin DOMAIN got PROVE MadeFrom(got[i]) = NoContent
      BY DEF ToABase
    <3>1. PICK x : x = lib[ch[i]]
      OBVIOUS
    <3>2. i \in DOMAIN ch /\ i = Len(ch)
      BY <2>6
    <3>3. MadeFrom(Content(x)) = x.of /\ Sane(x)
      BY <2>1, <2>5, <3>1, <3>2, CheckedChain
    <3> QED
      BY <2>6, <3>1, <3>2, <3>3 DEF Sane
  <2>9. ASSUME \A i \in DOMAIN ch : \E m \in DOMAIN nodes : nodes[m].path = ch[i]
        PROVE  ContentsOf(Upwards(n)) = got /\ Complete(Upwards(n))
    <3>1. PICK t : LineageOf(n, t)
      BY <2>1, LineageExists
    <3>2. Upwards(n) = t
      BY <2>1, <3>1, UpwardsIs
    <3>3. Listed(ch) /\ Checked(ch)
      <4> SUFFICES ASSUME NEW i \in DOMAIN ch PROVE \E m \in Readable : nodes[m].info = lib[ch[i]]
        BY DEF Listed, Checked
      <4>1. PICK m \in DOMAIN nodes : nodes[m].path = ch[i]
        BY <2>9
      <4>2. lib[ch[i]].ok /\ ch[i] \in DOMAIN lib /\ nodes[m] = ProbeFile(ch[i])
        BY <2>3, <2>5, <4>1 DEF ChainOf
      <4> QED
        BY <4>1, <4>2 DEF ProbeFile, Readable
    <3>4. Len(t) = Len(ch) /\ Complete(t) /\ Alike(t, ch)
      BY <2>1, <2>2, <2>4, <2>5, <3>1, <3>3, ListedChain
    <3>5. DOMAIN t = 1..Len(ch)
      BY <2>1, <3>1, <3>4, LineageTypes
    <3>6. ContentsOf(t) = got
      BY <2>6, <3>4, <3>5 DEF ContentsOf, Alike
    <3> QED
      BY <3>2, <3>4, <3>6
  <2> QED
    BY <2>7, <2>8, <2>9
<1> QED
  BY <1>1, InvHolds, PTL
=============================================================================
