-------------------------- MODULE ChainOpenProofs --------------------------
(***************************************************************************)
(* What is proved of ChainOpen for every library of images, every number   *)
(* of opens and every depth limit.  First its type correctness, and that   *)
(* handles follow use as long as callers attach parents the documented     *)
(* way.  Then what an open reports: a chain called complete is whole, no   *)
(* named file is in a chain twice, and where a chain stops short the error *)
(* kept says why; chains stay what they are while other slots change.      *)
(***************************************************************************)
EXTENDS ChainOpen, FiniteSetTheorems, TLAPS

-----------------------------------------------------------------------------
(* Reaching along an edge: facts about Along, for any edge at all.          *)

Edges == [Slot -> Slot \cup {Nobody}]
ClosedBy(edge, S) == \A y \in S : edge[y] # Nobody => edge[y] \in S

\* What is reached from d holds d, is closed under the edge, and is the least
\* such set: what Close walks is exactly the disk and what it leads to.
LEMMA AlongIsLeast ==
  ASSUME NEW edge \in Edges, NEW d \in Slot
  PROVE  /\ Along(edge, d) \subseteq Slot
         /\ d \in Along(edge, d)
         /\ ClosedBy(edge, Along(edge, d))
         /\ \A S \in SUBSET Slot : d \in S /\ ClosedBy(edge, S) => Along(edge, d) \subseteq S
<1>1. Along(edge, d) \subseteq Slot /\ d \in Along(edge, d)
  BY DEF Along
<1>2. ClosedBy(edge, Along(edge, d))
  <2> SUFFICES ASSUME NEW y \in Along(edge, d), edge[y] # Nobody
               PROVE  edge[y] \in Along(edge, d)
    BY DEF ClosedBy
  <2>1. y \in Slot /\ edge[y] \in Slot
    BY <1>1 DEF Edges
  <2>2. ASSUME NEW S \in SUBSET Slot, d \in S, \A z \in S : edge[z] # Nobody => edge[z] \in S
        PROVE  edge[y] \in S
    BY <2>2 DEF Along
  <2> QED
    BY <2>1, <2>2 DEF Along
<1>3. \A S \in SUBSET Slot : d \in S /\ ClosedBy(edge, S) => Along(edge, d) \subseteq S
  BY DEF Along, ClosedBy
<1> QED
  BY <1>1, <1>2, <1>3

\* A disk with no parent reaches only itself: a new disk is a chain of its own.
LEMMA AlongAlone ==
  ASSUME NEW edge \in Edges, NEW d \in Slot, edge[d] = Nobody
  PROVE  Along(edge, d) = {d}
<1>1. {d} \in SUBSET Slot /\ ClosedBy(edge, {d})
  BY DEF ClosedBy
<1> QED
  BY <1>1, AlongIsLeast

\* A disk that no edge leads to is reached from itself alone: a candidate, or a
\* disk the caller holds, is in no other disk's chain.
LEMMA AlongMisses ==
  ASSUME NEW edge \in Edges, NEW d \in Slot, NEW x \in Slot,
         x # d, \A y \in Slot : edge[y] # x
  PROVE  x \notin Along(edge, d)
<1>1. ClosedBy(edge, Slot \ {x})
  BY DEF ClosedBy, Edges
<1> QED
  BY <1>1, AlongIsLeast

\* Two disks no edge leads to reach nothing in common when every slot has at
\* most one edge leading to it: closing one chain leaves the other alone.
LEMMA AlongDisjoint ==
  ASSUME NEW edge \in Edges, NEW d \in Slot, NEW e \in Slot, d # e,
         \A y \in Slot : edge[y] # d /\ edge[y] # e,
         \A x, y \in Slot : edge[x] # Nobody /\ edge[x] = edge[y] => x = y
  PROVE  Along(edge, d) \cap Along(edge, e) = {}
<1> DEFINE S == Along(edge, d) \ Along(edge, e)
<1>1. S \in SUBSET Slot /\ d \in S
  BY AlongIsLeast, AlongMisses
<1>2. ClosedBy(edge, S)
  <2> SUFFICES ASSUME NEW y \in S, edge[y] # Nobody, edge[y] \notin S
               PROVE  FALSE
    BY DEF ClosedBy
  <2>1. y \in Slot /\ edge[y] \in Along(edge, d) /\ edge[y] \in Along(edge, e)
    BY AlongIsLeast DEF ClosedBy
  <2> DEFINE T == Along(edge, e) \ {edge[y]}
  <2>2. T \in SUBSET Slot /\ e \in T
    BY <2>1, AlongIsLeast
  <2>3. ClosedBy(edge, T)
    <3> SUFFICES ASSUME NEW z \in T, edge[z] # Nobody
                 PROVE  edge[z] \in T
      BY DEF ClosedBy
    <3>1. z \in Slot /\ edge[z] \in Along(edge, e)
      BY AlongIsLeast DEF ClosedBy
    <3>2. edge[z] # edge[y]
      BY <2>1, <3>1
    <3> QED
      BY <3>1, <3>2
  <2> QED
    BY <2>1, <2>2, <2>3, AlongIsLeast
<1> QED
  BY <1>1, <1>2, AlongIsLeast

\* Giving c, which had no edge, an edge to a disk that has none extends what
\* reaches c by that disk, and changes nothing for those that do not reach c:
\* attaching a parent lengthens the child's chain only.
LEMMA AlongExtended ==
  ASSUME NEW edge \in Edges, NEW d \in Slot, NEW c \in Slot, NEW p \in Slot,
         edge[c] = Nobody, edge[p] = Nobody, p # c, Nobody \notin Slot,
         NEW wider \in Edges, \A y \in Slot : wider[y] = IF y = c THEN p ELSE edge[y]
  PROVE  /\ c \notin Along(edge, d) => Along(wider, d) = Along(edge, d)
         /\ c \in Along(edge, d) => Along(wider, d) = Along(edge, d) \cup {p}
<1> DEFINE A == Along(edge, d)
           W == Along(wider, d)
<1>1. A \subseteq Slot /\ d \in A /\ ClosedBy(edge, A)
  BY AlongIsLeast
<1>2. W \subseteq Slot /\ d \in W /\ ClosedBy(wider, W)
  BY AlongIsLeast
<1>3. A \subseteq W
  <2>1. ClosedBy(edge, W)
    BY <1>2 DEF ClosedBy
  <2> HIDE DEF W
  <2> QED
    BY <1>2, <2>1, AlongIsLeast
<1>4. ASSUME c \notin A PROVE W = A
  <2>1. ClosedBy(wider, A)
    BY <1>1, <1>4 DEF ClosedBy
  <2>2. W \subseteq A
    BY <1>1, <2>1, AlongIsLeast
  <2> QED
    BY <1>3, <2>2
<1>5. ASSUME c \in A PROVE W = A \cup {p}
  <2>1. ClosedBy(wider, A \cup {p})
    BY <1>1, <1>5 DEF ClosedBy
  <2>2. W \subseteq A \cup {p}
    BY <1>1, <2>1, AlongIsLeast
  <2>3. p \in W
    BY <1>2, <1>3, <1>5 DEF ClosedBy
  <2> QED
    BY <1>3, <2>2, <2>3
<1> QED
  BY <1>4, <1>5

-----------------------------------------------------------------------------
(* Type correctness.                                                        *)

\* Why an open never runs out of slots: what it may still open fits.
Room ==
  /\ pc = "link" => next + MaxChainDepth <= Slots + 2 + op.depth
  /\ pc \in {"verify", "attach"} =>
       /\ op.depth + 2 <= MaxChainDepth
       /\ next + MaxChainDepth <= Slots + 3 + op.depth
       /\ op.cand \in Slot /\ disk[op.cand].file \in Images
  /\ pc # "idle" => op.root \in Slot /\ op.cur \in Slot

TypeInv == TypeOK /\ Room

\* Slots are positive integers and Nobody is none of them.
LEMMA SlotsAreNumbers == Slot \subseteq Nat /\ Nobody \notin Slot
BY SlotsAssumption, NobodyAssumption DEF Slot

\* A new disk is a disk, whatever image was parsed.
LEMMA NewDiskTyped ==
  ASSUME NEW f \in Images, NEW owned \in BOOLEAN
  PROVE  NewDisk(f, owned) \in Disks
BY DEF NewDisk, Disks

\* Closing disks keeps the handles and disks well typed.
LEMMA ClosingTyped ==
  ASSUME TypeOK, NEW ds, NEW hs \in [Slot -> HandleStates]
  PROVE  /\ Closing(hs, ds) \in [Slot -> HandleStates]
         /\ Spent(ds) \in [Slot -> Disks]
<1>1. Closing(hs, ds) \in [Slot -> HandleStates]
  BY DEF Closing, CloseHandle, HandleStates
<1>2. \A x \in Slot : [disk[x] EXCEPT !.closer = FALSE] \in Disks
  BY DEF TypeOK, Disks
<1> QED
  BY <1>1, <1>2 DEF TypeOK, Spent

\* An open that ended is a well typed one.
LEMMA EndedTyped ==
  ASSUME TypeOK, NEW o \in {"complete", "error", "stopped"}
  PROVE  Ended(o) \in Opens
<1>1. 0 \in 0..MaxChainDepth
  BY DepthAssumption
<1> QED
  BY <1>1 DEF TypeOK, Ended, Opens

\* However a walk stops, the state stays well typed.
LEMMA StopTyped ==
  ASSUME TypeInv, pc # "idle", lib' = lib, UNCHANGED <<searched, byHand>>, pc' = "idle",
         next' \in 1..(Slots + 1),
         NEW hs \in [Slot -> HandleStates],
         NEW rejected, Abandon(hs, rejected) \/ KeepShort(hs, rejected)
  PROVE  TypeInv'
<1>1. TypeOK /\ op.root \in Slot
  BY DEF TypeInv, Room
<1>2. AllKeys' = AllKeys /\ Opens' = Opens
  BY DEF AllKeys, ChainKeys, Opens
<1>3. handle' \in [Slot -> HandleStates] /\ held' \subseteq Slot /\ op' \in Opens
  BY <1>1, ClosingTyped, EndedTyped DEF Abandon, KeepShort, TypeOK
<1>4. disk' \in [Slot -> Disks]
  <2>1. CASE Abandon(hs, rejected)
    BY <1>1, <2>1, ClosingTyped DEF Abandon
  <2>2. CASE KeepShort(hs, rejected)
    <3>1. \A d \in Disks : [d EXCEPT !.err = TRUE] \in Disks
      BY DEF Disks
    <3>2. Spent(rejected) \in [Slot -> Disks]
      BY <1>1, ClosingTyped
    <3> DEFINE sp == Spent(rejected)
    <3>3. disk' = [sp EXCEPT ![op.root] = [sp[op.root] EXCEPT !.err = TRUE]]
      BY <2>2 DEF KeepShort
    <3> HIDE DEF sp
    <3> QED
      BY <1>1, <3>1, <3>2, <3>3 DEF sp
  <2> QED
    BY <2>1, <2>2
<1>5. TypeOK'
  BY <1>1, <1>2, <1>3, <1>4 DEF TypeOK
<1> QED
  BY <1>5 DEF TypeInv, Room

\* An open that has not begun, or that ended at once, is well typed.
LEMMA NoOpTyped == NoOp \in Opens /\ \A o \in {"unreadable", "suppressed"} : [NoOp EXCEPT !.outcome = o] \in Opens
<1>1. NoOp \in Opens
  BY DepthAssumption DEF NoOp, Opens
<1>2. \A x \in Opens : \A o \in {"unreadable", "suppressed"} : [x EXCEPT !.outcome = o] \in Opens
  BY DEF Opens
<1> QED
  BY <1>1, <1>2

\* The first state is well typed and has room.
LEMMA TypeInit == Init => TypeInv
<1> SUFFICES ASSUME Init PROVE TypeInv
  OBVIOUS
<1>1. NoDisk \in Disks /\ NoOp \in Opens
  BY NoOpTyped DEF NoDisk, Disks
<1>2. next \in 1..(Slots + 1)
  BY SlotsAssumption DEF Init
<1> QED
  BY <1>1, <1>2 DEF Init, TypeInv, TypeOK, Room, HandleStates

\* A new disk in the next slot keeps handles and disks well typed.
LEMMA OpenedTyped ==
  ASSUME TypeOK, next <= Slots, NEW f \in Images, NEW owned \in BOOLEAN
  PROVE  /\ next \in Slot /\ next + 1 \in 1..(Slots + 1)
         /\ [handle EXCEPT ![next] = "open"] \in [Slot -> HandleStates]
         /\ [handle EXCEPT ![next] = "closed"] \in [Slot -> HandleStates]
         /\ [disk EXCEPT ![next] = NewDisk(f, owned)] \in [Slot -> Disks]
<1>1. next \in Slot /\ next + 1 \in 1..(Slots + 1)
  BY SlotsAssumption DEF TypeOK, Slot
<1> QED
  BY <1>1, NewDiskTyped DEF TypeOK, HandleStates

\* Every action keeps the types and the room an open in progress still needs.
LEMMA TypeStep == TypeInv /\ [Next]_vars => TypeInv'
<1> SUFFICES ASSUME TypeInv, [Next]_vars PROVE TypeInv'
  OBVIOUS
<1>t. TypeOK /\ Room
  BY DEF TypeInv
<1>k. ASSUME lib' = lib PROVE AllKeys' = AllKeys /\ Opens' = Opens
  BY <1>k DEF AllKeys, ChainKeys, Opens
<1>n. next \in Nat /\ MaxChainDepth \in Nat \ {0} /\ Slots \in Nat \ {0} /\ op.depth \in Nat
  BY <1>t, SlotsAssumption, DepthAssumption DEF TypeOK, Opens
<1>1. ASSUME NEW f \in Images, OpenUnreadable(f) PROVE TypeInv'
  <2>1. [NoOp EXCEPT !.outcome = "unreadable"] \in Opens
    BY NoOpTyped
  <2>2. TypeOK'
    BY <1>t, <1>k, <1>1, <2>1, OpenedTyped DEF OpenUnreadable, TypeOK
  <2> QED
    BY <1>1, <2>2 DEF OpenUnreadable, TypeInv, Room
<1>2. ASSUME NEW f \in Images, OpenSuppressed(f) PROVE TypeInv'
  <2>1. [NoOp EXCEPT !.outcome = "suppressed"] \in Opens
    BY NoOpTyped
  <2>2. TypeOK'
    BY <1>t, <1>k, <1>2, <2>1, OpenedTyped DEF OpenSuppressed, TypeOK
  <2> QED
    BY <1>2, <2>2 DEF OpenSuppressed, TypeInv, Room
<1>3. ASSUME NEW f \in Images, NEW options \in OptionSets, OpenFile(f, options) PROVE TypeInv'
  <2>1. next <= Slots
    BY <1>3, <1>n DEF OpenFile
  <2>2. next \in Slot /\ options.require \in BOOLEAN /\ options.allow \in BOOLEAN
    BY <1>t, <2>1, OpenedTyped, OptionsAssumption
  <2>3. op' = [root |-> next, cur |-> next, cand |-> Nobody, depth |-> 0, seen |-> ChainKeys(f),
               require |-> options.require, allow |-> options.allow, outcome |-> "none"]
    BY <1>3 DEF OpenFile, NoOp
  <2>4. op' \in Opens
    BY <2>2, <2>3, DepthAssumption DEF Opens, AllKeys
  <2>5. TypeOK'
    BY <1>t, <1>k, <1>3, <2>1, <2>4, OpenedTyped DEF OpenFile, TypeOK
  <2>6. op'.depth = 0 /\ op'.root = next /\ op'.cur = next
    BY <2>3
  <2>7. next' = next + 1 /\ next + MaxChainDepth <= Slots + 1 /\ pc' = "link"
    BY <1>3 DEF OpenFile
  <2>8. Room'
    BY <1>n, <2>2, <2>6, <2>7 DEF Room
  <2> QED
    BY <2>5, <2>8 DEF TypeInv
<1>4. CASE ChainDone
  <2>1. TypeOK'
    BY <1>t, <1>k, <1>4, EndedTyped DEF ChainDone, TypeOK, Room
  <2> QED
    BY <1>4, <2>1 DEF ChainDone, TypeInv, Room
<1>5. CASE ChainTooDeep
  BY <1>t, <1>5, StopTyped DEF ChainTooDeep, TypeOK, Abandon
<1>s. Seeking => next <= Slots /\ next + 1 \in 1..(Slots + 1)
  BY <1>t, <1>n DEF Seeking, Room
<1>6. CASE ParentNotFound
  BY <1>t, <1>6, StopTyped DEF ParentNotFound, Seeking, StopShort, TypeOK
<1>7. ASSUME NEW f \in Images, ParentUnreadable(f) PROVE TypeInv'
  BY <1>t, <1>s, <1>7, StopTyped, OpenedTyped DEF ParentUnreadable, Seeking, StopShort
<1>8. ASSUME NEW f \in Images, ParentOpened(f) PROVE TypeInv'
  <2>1. next <= Slots /\ next \in Slot
    BY <1>t, <1>s, <1>8, OpenedTyped DEF ParentOpened
  <2>2. op' \in Opens
    BY <1>t, <1>k, <1>8, <2>1 DEF ParentOpened, TypeOK, Opens
  <2>3. TypeOK'
    BY <1>t, <1>k, <1>8, <2>1, <2>2, OpenedTyped DEF ParentOpened, TypeOK
  <2>4. disk'[next].file \in Images
    BY <1>t, <1>8, <2>1 DEF ParentOpened, TypeOK, NewDisk
  <2>5. op'.cand = next /\ op'.depth = op.depth /\ op'.root = op.root /\ op'.cur = op.cur
    BY <1>t, <1>8 DEF ParentOpened, TypeOK, Opens
  <2>6. /\ pc' = "verify" /\ next' = next + 1 /\ op.depth + 2 <= MaxChainDepth
        /\ next + MaxChainDepth <= Slots + 2 + op.depth
        /\ op.root \in Slot /\ op.cur \in Slot
    BY <1>t, <1>8 DEF ParentOpened, Seeking, Room
  <2>7. Room'
    BY <1>n, <2>1, <2>4, <2>5, <2>6 DEF Room
  <2> QED
    BY <2>3, <2>7 DEF TypeInv
<1>9. CASE ParentRejected
  BY <1>t, <1>9, StopTyped DEF ParentRejected, StopShort, TypeOK
<1>10. CASE ParentVerified
  BY <1>t, <1>k, <1>10 DEF ParentVerified, TypeInv, TypeOK, Room
<1>11. CASE CycleFound
  BY <1>t, <1>11, StopTyped DEF CycleFound, StopShort, TypeOK
<1>12. CASE ParentAttached
  <2>1. op.cur \in Slot /\ op.cand \in Slot /\ op.root \in Slot /\ disk[op.cand].file \in Images
    BY <1>t, <1>12 DEF ParentAttached, Room
  <2>2. disk' \in [Slot -> Disks]
    <3>1. \A d \in Disks : \A p \in Slot : [d EXCEPT !.parent = p] \in Disks
      BY DEF Disks
    <3> QED
      BY <1>t, <1>12, <2>1, <3>1 DEF ParentAttached, TypeOK
  <2>3. op' = [op EXCEPT !.cur = op.cand, !.cand = Nobody, !.depth = op.depth + 1,
                         !.seen = op.seen \cup ChainKeys(disk[op.cand].file)]
    BY <1>12 DEF ParentAttached
  <2>4. ChainKeys(disk[op.cand].file) \subseteq AllKeys
    BY <2>1 DEF AllKeys
  <2>5. op.depth + 1 \in 0..MaxChainDepth
    BY <1>t, <1>n, <1>12 DEF ParentAttached, Room
  <2>6. op.seen \cup ChainKeys(disk[op.cand].file) \in SUBSET AllKeys
    BY <1>t, <2>4 DEF TypeOK, Opens
  <2>7. op' \in Opens /\ op'.depth = op.depth + 1 /\ op'.root = op.root /\ op'.cur = op.cand
    BY <1>t, <2>1, <2>3, <2>5, <2>6 DEF TypeOK, Opens
  <2>8. TypeOK'
    BY <1>t, <1>k, <1>12, <2>2, <2>7 DEF ParentAttached, TypeOK
  <2>9. Room'
    BY <1>t, <1>n, <1>12, <2>1, <2>7 DEF ParentAttached, Room
  <2> QED
    BY <2>8, <2>9 DEF TypeInv
<1>13. ASSUME NEW d \in Slot, NEW p \in Slot, HandAttach(d, p) PROVE TypeInv'
  <2>1. \A x \in Disks : [x EXCEPT !.parent = p] \in Disks
    BY DEF Disks
  <2>2. disk' \in [Slot -> Disks]
    BY <1>t, <1>13, <2>1 DEF HandAttach, TypeOK
  <2>3. TypeOK'
    BY <1>t, <1>k, <1>13, <2>2 DEF HandAttach, TypeOK
  <2> QED
    BY <1>13, <2>3 DEF HandAttach, TypeInv, Room
<1>14. ASSUME NEW d \in Slot, Close(d) PROVE TypeInv'
  <2>1. TypeOK'
    BY <1>t, <1>k, <1>14, ClosingTyped DEF Close, TypeOK
  <2> QED
    BY <1>14, <2>1 DEF Close, TypeInv, Room
<1>15. CASE UNCHANGED vars
  BY <1>t, <1>k, <1>15 DEF vars, TypeInv, TypeOK, Room
<1> QED
  BY <1>1, <1>2, <1>3, <1>4, <1>5, <1>6, <1>7, <1>8, <1>9, <1>10, <1>11, <1>12, <1>13, <1>14, <1>15
     DEF Next, OpenStep

\* Every state the program reaches is well typed; in particular an open that
\* starts always has slots for every parent MaxChainDepth lets it look at.
THEOREM TypeCorrect == Spec => []TypeOK
<1>1. TypeInv => TypeOK
  BY DEF TypeInv
<1> QED
  BY TypeInit, TypeStep, <1>1, PTL DEF Spec

-----------------------------------------------------------------------------
(* Handles follow use.                                                      *)

\* Slots are handed out in order, a disk's closer is its open handle, a disk is
\* the automatically opened parent of at most one other, and what the caller
\* holds was never opened as a parent.
DisksOK ==
  /\ \A x \in Slot : x >= next => disk[x] = NoDisk /\ handle[x] = "free"
  /\ \A x \in Slot : disk[x].closer <=> handle[x] = "open"
  /\ \A x \in Slot : disk[x].parent # Nobody => disk[x].parent < next
  /\ \A x, y \in Slot : OwnedEdge[x] # Nobody /\ OwnedEdge[x] = OwnedEdge[y] => x = y
  /\ \A d \in held : d < next /\ ~disk[d].owned

\* During an open: the root is the caller's to be, the walk stands at the end of
\* the root's chain, and the candidate is nobody's parent yet.
WalkOK ==
  /\ pc # "idle" =>
       /\ op.root < next /\ op.root \notin held /\ ~disk[op.root].owned
       /\ op.cur \in Closes(op.root) /\ disk[op.cur].parent = Nobody
  /\ pc = "link" => op.cand = Nobody
  /\ pc \in {"verify", "attach"} =>
       /\ op.cand < next /\ disk[op.cand].owned /\ disk[op.cand].parent = Nobody
       /\ \A x \in Slot : disk[x].parent # op.cand

HandlesInv == DisksOK /\ WalkOK /\ HandlesFollowUse /\ ClosedAtMostOnce

\* The edges Close follows lead from a disk to its parent, and only to a parent
\* that automatic resolution opened.
LEMMA OwnedEdgeTyped ==
  ASSUME TypeOK
  PROVE  /\ OwnedEdge \in Edges
         /\ \A x, y \in Slot : OwnedEdge[x] = y => disk[y].owned /\ disk[x].parent = y
         /\ \A x \in Slot : disk[x].parent = Nobody => OwnedEdge[x] = Nobody
BY SlotsAreNumbers DEF TypeOK, Disks, OwnedEdge, OwnedParent, Edges

\* The chains of what the caller holds, and the one being built, are disjoint,
\* and a candidate is in none of them.
LEMMA UseDisjoint ==
  ASSUME TypeInv, DisksOK, WalkOK
  PROVE  /\ \A d, e \in held : d # e => Closes(d) \cap Closes(e) = {}
         /\ pc # "idle" => Named \cap Closes(op.root) = {}
         /\ pc \in {"verify", "attach"} => op.cand \notin Named /\ op.cand \notin Closes(op.root)
<1>1. TypeOK /\ Room /\ held \subseteq Slot
  BY DEF TypeInv, TypeOK
<1>2. OwnedEdge \in Edges
  BY <1>1, OwnedEdgeTyped
<1>3. ASSUME NEW d \in Slot, ~disk[d].owned
      PROVE  \A y \in Slot : OwnedEdge[y] # d
  BY <1>1, <1>3, OwnedEdgeTyped
<1>4. \A x, y \in Slot : OwnedEdge[x] # Nobody /\ OwnedEdge[x] = OwnedEdge[y] => x = y
  BY DEF DisksOK
<1>5. ASSUME NEW d \in Slot, NEW e \in Slot, d # e, ~disk[d].owned, ~disk[e].owned
      PROVE  Closes(d) \cap Closes(e) = {}
  <2>1. \A y \in Slot : OwnedEdge[y] # d /\ OwnedEdge[y] # e
    BY <1>3, <1>5
  <2> QED
    BY <1>2, <1>4, <1>5, <2>1, AlongDisjoint DEF Closes
<1>6. \A d \in held : d \in Slot /\ ~disk[d].owned
  BY <1>1 DEF DisksOK
<1>7. ASSUME pc # "idle"
      PROVE  op.root \in Slot /\ ~disk[op.root].owned /\ op.root \notin held
  BY <1>1, <1>7 DEF WalkOK, Room
<1>8. ASSUME pc # "idle" PROVE Named \cap Closes(op.root) = {}
  BY <1>5, <1>6, <1>7, <1>8 DEF Named
<1>9. ASSUME pc \in {"verify", "attach"}
      PROVE  op.cand \notin Named /\ op.cand \notin Closes(op.root)
  <2>1. op.cand \in Slot /\ disk[op.cand].owned
    BY <1>1, <1>9 DEF WalkOK, Room
  <2>2. \A x \in Slot : OwnedEdge[x] # op.cand
    BY <1>1, <1>9, <2>1, OwnedEdgeTyped DEF WalkOK
  <2>3. ASSUME NEW d \in Slot, ~disk[d].owned PROVE op.cand \notin Closes(d)
    BY <1>2, <2>1, <2>2, <2>3, AlongMisses DEF Closes
  <2> QED
    BY <1>6, <1>7, <1>9, <2>3 DEF Named
<1> QED
  BY <1>5, <1>6, <1>8, <1>9

\* What a chain closes depends on the owned edges only.
LEMMA SameEdgeSameUse ==
  ASSUME OwnedEdge' = OwnedEdge
  PROVE  \A d : Closes(d)' = Closes(d)
BY DEF Closes, Along, Slot

\* A disk in a new slot is a chain of its own and changes no other.
LEMMA NewDiskEdge ==
  ASSUME TypeInv, DisksOK, next <= Slots, NEW f \in Images, NEW owned \in BOOLEAN,
         disk' = [disk EXCEPT ![next] = NewDisk(f, owned)]
  PROVE  /\ next \in Slot /\ disk[next] = NoDisk /\ handle[next] = "free"
         /\ OwnedEdge' = OwnedEdge
         /\ \A d : Closes(d)' = Closes(d)
         /\ Closes(next) = {next}
         /\ \A x \in Slot : disk[x].parent # next
<1>1. TypeOK /\ next \in Slot /\ next \in Nat
  BY OpenedTyped DEF TypeInv, TypeOK
<1>2. disk[next] = NoDisk /\ handle[next] = "free"
  BY <1>1 DEF DisksOK
<1>3. \A x \in Slot : disk[x].parent # next
  BY <1>1, SlotsAreNumbers DEF DisksOK
<1>4. disk[next].parent = Nobody /\ disk'[next].parent = Nobody
  BY <1>1, <1>2 DEF NoDisk, NewDisk, TypeOK
<1>5. \A x \in Slot : x # next => disk'[x] = disk[x]
  BY <1>1 DEF TypeOK
<1>6. \A x \in Slot : disk[x].parent \in Slot \cup {Nobody}
  BY <1>1 DEF TypeOK, Disks
<1>7. \A x \in Slot : OwnedEdge'[x] = OwnedEdge[x]
  BY <1>1, <1>3, <1>4, <1>5, <1>6 DEF OwnedEdge, OwnedParent
<1>8. OwnedEdge' = OwnedEdge
  BY <1>7 DEF OwnedEdge, Slot
<1>9. Closes(next) = {next}
  BY <1>1, <1>4, OwnedEdgeTyped, AlongAlone DEF Closes
<1> QED
  BY <1>1, <1>2, <1>3, <1>8, <1>9, SameEdgeSameUse

\* Closing ds, with the handles as hs, closes the handles of ds and only those,
\* and leaves the disks' parents and owners alone.
ClosesExactly(hs, ds) ==
  /\ \A x \in Slot : Closing(hs, ds)[x] = "open" <=> hs[x] = "open" /\ x \notin ds
  /\ \A x \in Slot : Closing(hs, ds)[x] # "closed twice"
  /\ \A x \in Slot : hs[x] = "free" => Closing(hs, ds)[x] = "free"
  /\ \A x \in Slot : Spent(ds)[x].closer <=> disk[x].closer /\ x \notin ds
  /\ \A x \in Slot : Spent(ds)[x].parent = disk[x].parent /\ Spent(ds)[x].owned = disk[x].owned
  /\ \A x \in Slot : disk[x] = NoDisk => Spent(ds)[x] = NoDisk

\* Closing a set of disks leaves open exactly the handles that were open outside
\* it, closes none twice, and keeps closers and handles in step.
LEMMA ClosingHandles ==
  ASSUME TypeInv, NEW ds, NEW hs \in [Slot -> HandleStates],
         \A x \in Slot : disk[x].closer <=> hs[x] = "open",
         \A x \in Slot : hs[x] # "closed twice"
  PROVE  ClosesExactly(hs, ds)
<1>1. \A x \in Slot : disk[x] \in Disks
  BY DEF TypeInv, TypeOK
<1>2. \A x \in Slot : Closing(hs, ds)[x] =
        IF x \in ds /\ disk[x].closer THEN CloseHandle(hs[x]) ELSE hs[x]
  BY DEF Closing
<1>3. \A x \in Slot : Spent(ds)[x] =
        IF x \in ds /\ disk[x].closer THEN [disk[x] EXCEPT !.closer = FALSE] ELSE disk[x]
  BY DEF Spent
<1>4. \A x \in Slot : disk[x] = NoDisk => Spent(ds)[x] = NoDisk
  <2>1. ~NoDisk.closer
    BY DEF NoDisk
  <2> QED
    BY <1>3, <2>1
<1>5. \A d \in Disks : /\ [d EXCEPT !.closer = FALSE].closer = FALSE
                        /\ [d EXCEPT !.closer = FALSE].parent = d.parent
                        /\ [d EXCEPT !.closer = FALSE].owned = d.owned
  BY DEF Disks
<1>6. \A x \in Slot : /\ Spent(ds)[x].closer <=> disk[x].closer /\ x \notin ds
                      /\ Spent(ds)[x].parent = disk[x].parent
                      /\ Spent(ds)[x].owned = disk[x].owned
  BY <1>1, <1>3, <1>5 DEF Disks
<1> QED
  BY <1>2, <1>4, <1>6 DEF CloseHandle, ClosesExactly

\* Disks that keep their parents and owners keep what they close.
LEMMA SameParentsSameUse ==
  ASSUME TypeOK, \A x \in Slot : disk'[x].parent = disk[x].parent /\ disk'[x].owned = disk[x].owned
  PROVE  OwnedEdge' = OwnedEdge /\ \A d : Closes(d)' = Closes(d)
<1>1. \A x \in Slot : disk[x].parent \in Slot \cup {Nobody}
  BY DEF TypeOK, Disks
<1>2. \A x \in Slot : OwnedEdge'[x] = OwnedEdge[x]
  BY <1>1 DEF OwnedEdge, OwnedParent
<1>3. OwnedEdge' = OwnedEdge
  BY <1>2 DEF OwnedEdge, Slot
<1> QED
  BY <1>3, SameEdgeSameUse

\* A step that keeps parents and owners, keeps closer and handle together, and
\* gives the caller only disks not opened as parents, keeps the disks in order.
LEMMA KeptDisks ==
  ASSUME TypeInv, DisksOK, next' \in Nat, next' >= next,
         \A x \in Slot : disk'[x].parent = disk[x].parent /\ disk'[x].owned = disk[x].owned,
         \A x \in Slot : disk'[x].closer <=> handle'[x] = "open",
         \A x \in Slot : x >= next' => disk'[x] = NoDisk /\ handle'[x] = "free",
         \A d \in held' : d \in held \/ (d \in Slot /\ d < next /\ ~disk[d].owned)
  PROVE  DisksOK' /\ OwnedEdge' = OwnedEdge /\ \A d : Closes(d)' = Closes(d)
<1>1. TypeOK /\ next \in Nat /\ held \subseteq Slot
  BY SlotsAssumption DEF TypeInv, TypeOK
<1>2. OwnedEdge' = OwnedEdge /\ \A d : Closes(d)' = Closes(d)
  BY <1>1, SameParentsSameUse
<1>3. \A x \in Slot : x < next => x < next'
  BY <1>1, SlotsAreNumbers
<1>4. \A x \in Slot : disk[x].parent # Nobody => disk[x].parent \in Slot /\ disk[x].parent < next
  BY <1>1 DEF DisksOK, TypeOK, Disks
<1>5. \A x \in Slot : disk'[x].parent # Nobody => disk'[x].parent < next'
  BY <1>3, <1>4
<1>6. \A d \in held' : d \in Slot /\ d < next /\ ~disk[d].owned
  BY <1>1 DEF DisksOK
<1>7. \A d \in held' : d < next' /\ ~disk'[d].owned
  BY <1>3, <1>6
<1>8. \A x, y \in Slot : OwnedEdge'[x] # Nobody /\ OwnedEdge'[x] = OwnedEdge'[y] => x = y
  BY <1>2 DEF DisksOK
<1> QED
  BY <1>2, <1>5, <1>7, <1>8 DEF DisksOK, Slot

\* The handles a walk stops with: those it had, and at most one more slot, closed.
StoppingWith(hs) ==
  /\ next' \in Nat /\ next' >= next
  /\ hs \in [Slot -> HandleStates]
  /\ \A x \in Slot : hs[x] = "open" <=> handle[x] = "open"
  /\ \A x \in Slot : hs[x] # "closed twice"
  /\ \A x \in Slot : x >= next' => hs[x] = "free"

\* However a walk stops, exactly the right handles are closed: everything the
\* open opened when it fails, only the rejected candidate when it does not.
LEMMA StopHandles ==
  ASSUME TypeInv, HandlesInv, pc # "idle", pc' = "idle",
         NEW hs, StoppingWith(hs), NEW rejected, rejected = {op.cand} \ {Nobody},
         Abandon(hs, rejected) \/ KeepShort(hs, rejected)
  PROVE  HandlesInv'
<1>1. TypeOK /\ Room /\ DisksOK /\ WalkOK
  BY DEF TypeInv, HandlesInv
<1>2. /\ op.root \in Slot /\ op.root < next /\ op.root \notin held /\ ~disk[op.root].owned
      /\ held \subseteq Slot /\ next \in Nat
  <2>1. op.root < next /\ op.root \notin held /\ ~disk[op.root].owned
    BY <1>1, Zenon DEF WalkOK
  <2>2. op.root \in Slot
    BY <1>1 DEF Room
  <2>3. held \subseteq Slot /\ next \in Nat
    BY <1>1, SlotsAssumption DEF TypeOK
  <2> QED
    BY <2>1, <2>2, <2>3
<1>h. /\ hs \in [Slot -> HandleStates]
      /\ \A x \in Slot : hs[x] = "open" <=> handle[x] = "open"
      /\ \A x \in Slot : hs[x] # "closed twice"
  BY DEF StoppingWith
<1>n. next' \in Nat /\ next' >= next
  BY DEF StoppingWith
<1>3. {x \in Slot : hs[x] = "open"} = Named \cup Closes(op.root) \cup rejected
  BY <1>h DEF HandlesInv, HandlesFollowUse, InUse
<1>4. /\ Named \cap Closes(op.root) = {}
      /\ rejected \cap (Named \cup Closes(op.root)) = {}
  <2>1. pc \in {"link", "verify", "attach"}
    BY <1>1 DEF TypeOK
  <2>2. CASE pc = "link"
    BY <1>1, <2>2, UseDisjoint DEF WalkOK
  <2>3. CASE pc \in {"verify", "attach"}
    BY <1>1, <2>3, UseDisjoint
  <2> QED
    BY <2>1, <2>2, <2>3
<1>5. \A x \in Slot : disk[x].closer <=> hs[x] = "open"
  BY <1>1, <1>h DEF DisksOK
<1>6. op.root \in Closes(op.root) /\ Closes(op.root) \subseteq Slot
  BY <1>1, <1>2, OwnedEdgeTyped, AlongIsLeast DEF Closes
<1>7. \A x \in Slot : x >= next' => x >= next /\ x # op.root /\ disk[x] = NoDisk /\ hs[x] = "free"
  <2>1. op.root \in Nat /\ next \in Nat /\ op.root < next
    BY <1>2, SlotsAreNumbers
  <2>2. \A x \in Slot : x >= next' => x >= next /\ x # op.root
    BY <1>n, <2>1, SlotsAreNumbers
  <2> QED
    BY <1>1, <2>2 DEF DisksOK, StoppingWith
<1>8. CASE Abandon(hs, rejected)
  <2> DEFINE ds == Closes(op.root) \cup rejected
  <2>1. ClosesExactly(hs, ds)
    BY <1>5, <1>h, ClosingHandles
  <2>2. handle' = Closing(hs, ds) /\ disk' = Spent(ds) /\ held' = held
    BY <1>8 DEF Abandon
  <2>3. DisksOK' /\ \A d : Closes(d)' = Closes(d)
    <3>1. \A x \in Slot : disk'[x].parent = disk[x].parent /\ disk'[x].owned = disk[x].owned
      BY <2>1, <2>2 DEF ClosesExactly
    <3>2. \A x \in Slot : disk'[x].closer <=> handle'[x] = "open"
      BY <1>5, <2>1, <2>2 DEF ClosesExactly
    <3>3. \A x \in Slot : x >= next' => disk'[x] = NoDisk /\ handle'[x] = "free"
      BY <1>7, <2>1, <2>2 DEF ClosesExactly
    <3> QED
      BY <1>1, <1>n, <2>2, <3>1, <3>2, <3>3, KeptDisks
  <2>4. InUse' = Named
    BY <2>2, <2>3 DEF InUse, Named
  <2>5. {x \in Slot : handle'[x] = "open"} = Named
    BY <1>3, <1>4, <2>1, <2>2 DEF ClosesExactly
  <2>6. ClosedAtMostOnce'
    BY <2>1, <2>2 DEF ClosedAtMostOnce, Slot, ClosesExactly
  <2> QED
    BY <2>3, <2>4, <2>5, <2>6 DEF HandlesInv, HandlesFollowUse, WalkOK, Slot
<1>9. CASE KeepShort(hs, rejected)
  <2> DEFINE sp == Spent(rejected)
  <2>1. ClosesExactly(hs, rejected)
    BY <1>5, <1>h, ClosingHandles
  <2>2. handle' = Closing(hs, rejected) /\ held' = held \cup {op.root}
    BY <1>9 DEF KeepShort
  <2>d. disk' = [sp EXCEPT ![op.root] = [sp[op.root] EXCEPT !.err = TRUE]]
    BY <1>9 DEF KeepShort
  <2>3. sp \in [Slot -> Disks]
    BY <1>1, <1>h, ClosingTyped
  <2>4. \A x \in Slot : sp[x].parent = disk[x].parent /\ sp[x].owned = disk[x].owned
    BY <2>1 DEF ClosesExactly
  <2>5. \A d \in Disks : /\ [d EXCEPT !.err = TRUE].parent = d.parent
                         /\ [d EXCEPT !.err = TRUE].owned = d.owned
                         /\ [d EXCEPT !.err = TRUE].closer = d.closer
    BY DEF Disks
  <2>6. \A x \in Slot : /\ disk'[x].parent = disk[x].parent /\ disk'[x].owned = disk[x].owned
                        /\ disk'[x].closer = sp[x].closer
                        /\ x # op.root => disk'[x] = sp[x]
    <3> HIDE DEF sp
    <3> QED
      BY <1>2, <2>d, <2>3, <2>4, <2>5
  <2>7. DisksOK' /\ \A d : Closes(d)' = Closes(d)
    <3>1. \A x \in Slot : disk'[x].closer <=> handle'[x] = "open"
      <4>1. \A x \in Slot : sp[x].closer <=> Closing(hs, rejected)[x] = "open"
        BY <1>5, <2>1 DEF ClosesExactly
      <4> HIDE DEF sp
      <4> QED
        BY <2>2, <2>6, <4>1
    <3>2. \A x \in Slot : x >= next' => disk'[x] = NoDisk /\ handle'[x] = "free"
      <4>1. \A x \in Slot : x >= next' => sp[x] = NoDisk /\ Closing(hs, rejected)[x] = "free"
        BY <1>7, <2>1 DEF ClosesExactly
      <4> HIDE DEF sp
      <4> QED
        BY <1>7, <2>2, <2>6, <4>1
    <3>3. \A d \in held' : d \in held \/ (d \in Slot /\ d < next /\ ~disk[d].owned)
      BY <1>2, <2>2
    <3> QED
      BY <1>1, <1>n, <2>6, <3>1, <3>2, <3>3, KeptDisks
  <2>8. InUse' = Named \cup Closes(op.root)
    BY <2>2, <2>7 DEF InUse, Named
  <2>9. {x \in Slot : handle'[x] = "open"} = Named \cup Closes(op.root)
    BY <1>3, <1>4, <2>1, <2>2 DEF ClosesExactly
  <2>10. ClosedAtMostOnce'
    BY <2>1, <2>2 DEF ClosedAtMostOnce, Slot, ClosesExactly
  <2> QED
    BY <2>7, <2>8, <2>9, <2>10 DEF HandlesInv, HandlesFollowUse, WalkOK, Slot
<1> QED
  BY <1>8, <1>9

\* The first state satisfies the invariant: no handle is open and none is used.
LEMMA HandlesInit == Init => HandlesInv
<1> SUFFICES ASSUME Init PROVE HandlesInv
  OBVIOUS
<1>1. \A x \in Slot : /\ disk[x] = NoDisk /\ disk[x].closer = FALSE /\ disk[x].parent = Nobody
                      /\ handle[x] = "free"
  BY DEF Init, NoDisk
<1>2. \A x \in Slot : OwnedEdge[x] = Nobody
  BY <1>1 DEF OwnedEdge, OwnedParent
<1>3. DisksOK
  BY <1>1, <1>2 DEF Init, DisksOK
<1>4. InUse = {}
  BY DEF Init, InUse, Named
<1>5. WalkOK
  BY DEF Init, WalkOK
<1> QED
  BY <1>1, <1>3, <1>4, <1>5 DEF HandlesInv, HandlesFollowUse, ClosedAtMostOnce

\* Opening a disk in the next slot: the disks stay in order, and the new handle
\* is the only one that opens.
LEMMA OpenedHandles ==
  ASSUME TypeInv, HandlesInv, next <= Slots, NEW f \in Images, NEW owned \in BOOLEAN,
         disk' = [disk EXCEPT ![next] = NewDisk(f, owned)],
         handle' = [handle EXCEPT ![next] = "open"], next' = next + 1,
         held' = held \/ (held' = held \cup {next} /\ ~owned)
  PROVE  /\ DisksOK' /\ ClosedAtMostOnce'
         /\ {x \in Slot : handle'[x] = "open"} = InUse \cup {next}
         /\ disk'[next] = NewDisk(f, owned) /\ \A x \in Slot : x # next => disk'[x] = disk[x]
         /\ next \notin held
<1>1. TypeOK /\ DisksOK /\ next \in Nat /\ held \subseteq Slot
  BY SlotsAssumption DEF TypeInv, TypeOK, HandlesInv
<1>2. /\ next \in Slot /\ disk[next] = NoDisk /\ handle[next] = "free"
      /\ OwnedEdge' = OwnedEdge /\ \A x \in Slot : disk[x].parent # next
  BY <1>1, NewDiskEdge
<1>3. /\ disk'[next] = NewDisk(f, owned) /\ \A x \in Slot : x # next => disk'[x] = disk[x]
      /\ handle'[next] = "open" /\ \A x \in Slot : x # next => handle'[x] = handle[x]
  BY <1>1, <1>2 DEF TypeOK
<1>4. /\ disk'[next].closer = TRUE /\ disk'[next].parent = Nobody /\ disk'[next].owned = owned
  BY <1>3 DEF NewDisk
<1>5. \A d \in held : d # next
  BY <1>1, <1>2, SlotsAreNumbers DEF DisksOK
<1>6. \A x \in Slot : x < next \/ x = next => x < next'
  BY <1>1, SlotsAreNumbers
<1>7. \A x \in Slot : x >= next' => x >= next /\ x # next
  BY <1>1, SlotsAreNumbers
<1>8. \A x \in Slot : x >= next' => disk'[x] = NoDisk /\ handle'[x] = "free"
  BY <1>1, <1>3, <1>7 DEF DisksOK
<1>9. \A x \in Slot : disk'[x].closer <=> handle'[x] = "open"
  BY <1>1, <1>3, <1>4 DEF DisksOK
<1>10. \A x \in Slot : disk'[x].parent # Nobody => disk'[x].parent < next'
  <2>1. \A x \in Slot : disk[x].parent # Nobody => disk[x].parent \in Slot /\ disk[x].parent < next
    BY <1>1 DEF DisksOK, TypeOK, Disks
  <2> QED
    BY <1>3, <1>4, <1>6, <2>1
<1>11. \A d \in held' : d < next' /\ ~disk'[d].owned
  <2>1. \A d \in held : d \in Slot /\ d < next /\ ~disk[d].owned
    BY <1>1 DEF DisksOK
  <2>2. \A d \in held : d < next' /\ ~disk'[d].owned
    BY <1>3, <1>5, <1>6, <2>1
  <2>3. next < next'
    BY <1>1
  <2> QED
    BY <1>4, <2>2, <2>3
<1>12. \A x, y \in Slot : OwnedEdge'[x] # Nobody /\ OwnedEdge'[x] = OwnedEdge'[y] => x = y
  BY <1>1, <1>2 DEF DisksOK
<1>13. DisksOK'
  BY <1>8, <1>9, <1>10, <1>11, <1>12 DEF DisksOK, Slot
<1>14. ClosedAtMostOnce'
  BY <1>3 DEF HandlesInv, ClosedAtMostOnce, Slot
<1>15. {x \in Slot : handle'[x] = "open"} = InUse \cup {next}
  BY <1>2, <1>3 DEF HandlesInv, HandlesFollowUse
<1> QED
  BY <1>3, <1>5, <1>13, <1>14, <1>15

\* Attaching a verified candidate adds it to what closing the root closes, and to
\* nothing else.
LEMMA AttachedUse ==
  ASSUME TypeInv, HandlesInv, ParentAttached
  PROVE  /\ \A d : d = op.root => Closes(d)' = Closes(d) \cup {op.cand}
         /\ \A d \in held : Closes(d)' = Closes(d)
         /\ op.cand \notin Named /\ op.cand \notin Closes(op.root) /\ op.cur # op.cand
         /\ OwnedEdge \in Edges /\ \A x \in Slot : OwnedEdge[x] # op.cand
         /\ \A x \in Slot : OwnedEdge'[x] = IF x = op.cur THEN op.cand ELSE OwnedEdge[x]
<1>1. /\ TypeOK /\ Room /\ DisksOK /\ WalkOK /\ next \in Nat
      /\ op.root \in Slot /\ op.cur \in Slot /\ op.cand \in Slot
  BY SlotsAssumption DEF TypeInv, TypeOK, HandlesInv, ParentAttached, Room
<1>2. /\ pc = "attach" /\ pc' = "link"
      /\ disk' = [disk EXCEPT ![op.cur].parent = op.cand]
      /\ next' = next /\ handle' = handle /\ held' = held
  BY DEF ParentAttached
<1>3. /\ op.cand < next /\ disk[op.cand].owned /\ disk[op.cand].parent = Nobody
      /\ \A x \in Slot : disk[x].parent # op.cand
  BY <1>1, <1>2, Zenon DEF WalkOK
<1>4. /\ op.root < next /\ op.root \notin held /\ ~disk[op.root].owned
      /\ op.cur \in Closes(op.root) /\ disk[op.cur].parent = Nobody
  BY <1>1, <1>2, Zenon DEF WalkOK
<1>5. /\ op.cand \notin Named /\ op.cand \notin Closes(op.root) /\ op.cur # op.cand
      /\ Named \cap Closes(op.root) = {}
  BY <1>1, <1>2, <1>4, UseDisjoint
<1>6. /\ \A x \in Slot : x # op.cur => disk'[x] = disk[x]
      /\ disk'[op.cur] = [disk[op.cur] EXCEPT !.parent = op.cand]
      /\ disk[op.cur] \in Disks
  BY <1>1, <1>2 DEF TypeOK
<1>7. /\ disk'[op.cur].parent = op.cand /\ disk'[op.cur].owned = disk[op.cur].owned
      /\ disk'[op.cur].closer = disk[op.cur].closer
  BY <1>6 DEF Disks
<1>8. \A x \in Slot : disk'[x].owned = disk[x].owned /\ disk'[x].closer = disk[x].closer
  BY <1>6, <1>7
<1> DEFINE edge == OwnedEdge
<1>9. edge \in Edges /\ edge[op.cur] = Nobody /\ edge[op.cand] = Nobody
       /\ \A x \in Slot : edge[x] # op.cand
  BY <1>1, <1>3, <1>4, OwnedEdgeTyped
<1>10. OwnedEdge' \in Edges /\ \A x \in Slot : OwnedEdge'[x] = IF x = op.cur THEN op.cand ELSE edge[x]
  <2>1. \A x \in Slot : x # op.cur => OwnedEdge'[x] = OwnedEdge[x]
    <3> SUFFICES ASSUME NEW x \in Slot, x # op.cur PROVE OwnedEdge'[x] = OwnedEdge[x]
      OBVIOUS
    <3>1. disk'[x] = disk[x] /\ disk[x].parent \in Slot \cup {Nobody}
      BY <1>1, <1>6 DEF TypeOK, Disks
    <3> QED
      BY <1>8, <3>1 DEF OwnedEdge, OwnedParent
  <2>2. OwnedEdge'[op.cur] = op.cand
    BY <1>1, <1>3, <1>7, <1>8, SlotsAreNumbers DEF OwnedEdge, OwnedParent
  <2>3. \A x \in Slot : OwnedEdge'[x] = IF x = op.cur THEN op.cand ELSE edge[x]
    BY <2>1, <2>2
  <2>4. OwnedEdge' \in Edges
    BY <1>1, <1>9, <2>3 DEF OwnedEdge, Edges, Slot
  <2> QED
    BY <2>3, <2>4
<1> HIDE DEF edge
<1>11. \A d \in Slot : /\ op.cur \notin Along(edge, d) => Along(OwnedEdge', d) = Along(edge, d)
                       /\ op.cur \in Along(edge, d) => Along(OwnedEdge', d) = Along(edge, d) \cup {op.cand}
  <2> TAKE d \in Slot
  <2>1. /\ op.cur \in Slot /\ op.cand \in Slot /\ op.cand # op.cur /\ Nobody \notin Slot
        /\ edge \in Edges /\ edge[op.cur] = Nobody /\ edge[op.cand] = Nobody
    BY <1>1, <1>5, <1>9, SlotsAreNumbers
  <2> QED
    BY ONLY <1>10, <2>1, d \in Slot, AlongExtended
<1>12. \A d : Closes(d) = Along(edge, d) /\ Closes(d)' = Along(OwnedEdge', d)
  BY DEF edge, Closes, Along, Slot
<1>13. held \subseteq Slot
  BY <1>1 DEF TypeOK
<1>14. \A d : d = op.root => Closes(d)' = Closes(d) \cup {op.cand}
  BY <1>1, <1>4, <1>11, <1>12
<1>15. \A d \in held : Closes(d)' = Closes(d)
  <2>1. \A d \in held : op.cur \notin Closes(d)
    BY <1>4, <1>5 DEF Named
  <2> QED
    BY <1>11, <1>12, <1>13, <2>1
<1> QED
  BY <1>5, <1>9, <1>10, <1>14, <1>15 DEF edge

\* Attaching a verified candidate adds it to the root's chain and to no other.
LEMMA AttachedHandles ==
  ASSUME TypeInv, HandlesInv, ParentAttached
  PROVE  HandlesInv'
<1>1. /\ TypeOK /\ Room /\ DisksOK /\ WalkOK /\ next \in Nat
      /\ op.root \in Slot /\ op.cur \in Slot /\ op.cand \in Slot
  BY SlotsAssumption DEF TypeInv, TypeOK, HandlesInv, ParentAttached, Room
<1>2. /\ pc = "attach" /\ pc' = "link"
      /\ disk' = [disk EXCEPT ![op.cur].parent = op.cand]
      /\ next' = next /\ handle' = handle /\ held' = held
  BY DEF ParentAttached
<1>3. /\ op.cand < next /\ disk[op.cand].owned /\ disk[op.cand].parent = Nobody
      /\ \A x \in Slot : disk[x].parent # op.cand
  BY <1>1, <1>2, Zenon DEF WalkOK
<1>4. /\ op.root < next /\ op.root \notin held /\ ~disk[op.root].owned
      /\ op.cur \in Closes(op.root) /\ disk[op.cur].parent = Nobody
  BY <1>1, <1>2, Zenon DEF WalkOK
<1>5. op'.root = op.root /\ op'.cur = op.cand /\ op'.cand = Nobody
  BY <1>1 DEF ParentAttached, TypeOK, Opens
<1>6. /\ op.cand \notin Named /\ op.cand \notin Closes(op.root) /\ op.cur # op.cand
      /\ Named \cap Closes(op.root) = {}
  BY <1>1, <1>2, <1>4, UseDisjoint
<1>7. /\ \A x \in Slot : x # op.cur => disk'[x] = disk[x]
      /\ disk'[op.cur] = [disk[op.cur] EXCEPT !.parent = op.cand]
      /\ disk[op.cur] \in Disks
  BY <1>1, <1>2 DEF TypeOK
<1>8. /\ disk'[op.cur].parent = op.cand /\ disk'[op.cur].owned = disk[op.cur].owned
      /\ disk'[op.cur].closer = disk[op.cur].closer
  BY <1>7 DEF Disks
<1>9. \A x \in Slot : disk'[x].owned = disk[x].owned /\ disk'[x].closer = disk[x].closer
  BY <1>7, <1>8
<1>10. /\ \A d : d = op.root => Closes(d)' = Closes(d) \cup {op.cand}
       /\ \A d \in held : Closes(d)' = Closes(d)
       /\ \A x \in Slot : OwnedEdge[x] # op.cand
       /\ \A x \in Slot : OwnedEdge'[x] = IF x = op.cur THEN op.cand ELSE OwnedEdge[x]
  BY AttachedUse
<1>11. held \subseteq Slot
  BY <1>1 DEF TypeOK
<1>12. InUse' = InUse
  <2>1. Named' = Named
    BY <1>2, <1>10 DEF Named
  <2>2. (Closes(op.root))' = Closes(op.root) \cup {op.cand}
    BY <1>5, <1>10
  <2> QED
    BY <1>1, <1>2, <1>5, <2>1, <2>2, SlotsAreNumbers DEF InUse
<1>13. DisksOK'
  <2>1. \A x \in Slot : x >= next => x # op.cur
    <3>1. disk[op.cur].closer \/ op.cur < next
      BY <1>1, <1>2, <1>4 DEF HandlesInv, HandlesFollowUse, InUse, DisksOK
    <3>2. op.cur \in Nat
      BY <1>1, SlotsAreNumbers
    <3>3. op.cur < next
      <4>1. NoDisk.closer = FALSE
        BY DEF NoDisk
      <4> QED
        BY <1>1, <3>1, <3>2, <4>1 DEF DisksOK
    <3> QED
      BY <1>1, <3>2, <3>3
  <2>2. \A x \in Slot : x >= next' => disk'[x] = NoDisk /\ handle'[x] = "free"
    BY <1>1, <1>2, <1>7, <2>1 DEF DisksOK
  <2>3. \A x \in Slot : disk'[x].closer <=> handle'[x] = "open"
    BY <1>1, <1>2, <1>9 DEF DisksOK
  <2>4. \A x \in Slot : disk'[x].parent # Nobody => disk'[x].parent < next'
    BY <1>1, <1>2, <1>3, <1>7, <1>8 DEF DisksOK
  <2>5. \A d \in held' : d < next' /\ ~disk'[d].owned
    BY <1>1, <1>2, <1>9, <1>11 DEF DisksOK
  <2>6. \A x, y \in Slot : OwnedEdge[x] # Nobody /\ OwnedEdge[x] = OwnedEdge[y] => x = y
    BY <1>1 DEF DisksOK
  <2>7. \A x, y \in Slot : OwnedEdge'[x] # Nobody /\ OwnedEdge'[x] = OwnedEdge'[y] => x = y
    BY <1>1, <1>10, <2>6, SlotsAreNumbers
  <2> QED
    BY <2>2, <2>3, <2>4, <2>5, <2>7 DEF DisksOK, Slot
<1>14. WalkOK'
  <2>1. op'.cur \in (Closes(op.root))'
    BY <1>5, <1>10
  <2>2. disk'[op.cand].parent = Nobody
    BY <1>1, <1>3, <1>6, <1>7
  <2> QED
    BY <1>2, <1>4, <1>5, <1>9, <1>1, <2>1, <2>2 DEF WalkOK
<1> QED
  BY <1>2, <1>12, <1>13, <1>14 DEF HandlesInv, HandlesFollowUse, ClosedAtMostOnce, Slot

\* The documented SetParent changes nothing that Close does: the parent it
\* attaches was not opened for the child.
LEMMA HandAttachHandles ==
  ASSUME TypeInv, HandlesInv, ByHand # "any", NEW d \in Slot, NEW p \in Slot, HandAttach(d, p)
  PROVE  HandlesInv'
<1>1. /\ TypeOK /\ DisksOK /\ next \in Nat /\ next' = next
      /\ handle' = handle /\ held' = held /\ pc = "idle" /\ pc' = "idle"
  BY SlotsAssumption DEF TypeInv, TypeOK, HandlesInv, HandAttach
<1>2. disk[d].parent = Nobody /\ p \in held
  BY DEF HandAttach, MayAttach
<1>3. p < next /\ ~disk[p].owned
  BY <1>1, <1>2, Zenon DEF DisksOK
<1>4. /\ disk' = [disk EXCEPT ![d].parent = p] /\ disk[d] \in Disks
  BY <1>1 DEF HandAttach, TypeOK
<1>5. \A x \in Slot : x # d => disk'[x] = disk[x]
  BY <1>1, <1>4 DEF TypeOK
<1>6. /\ disk'[d].parent = p /\ disk'[d].owned = disk[d].owned /\ disk'[d].closer = disk[d].closer
  BY <1>1, <1>4 DEF TypeOK, Disks
<1>7. \A x \in Slot : disk'[x].owned = disk[x].owned /\ disk'[x].closer = disk[x].closer
  BY <1>5, <1>6
<1>8. OwnedEdge' = OwnedEdge
  <2>1. \A x \in Slot : disk[x].parent \in Slot \cup {Nobody}
    BY <1>1 DEF TypeOK, Disks
  <2>2. \A x \in Slot : x # d => OwnedEdge'[x] = OwnedEdge[x]
    BY <1>5, <1>7, <2>1 DEF OwnedEdge, OwnedParent
  <2>3. OwnedEdge'[d] = Nobody /\ OwnedEdge[d] = Nobody
    BY <1>2, <1>3, <1>6, <1>7 DEF OwnedEdge, OwnedParent
  <2> QED
    BY <2>2, <2>3 DEF OwnedEdge, Slot
<1>9. InUse' = InUse
  BY <1>1, <1>8, SameEdgeSameUse DEF InUse, Named
<1>10. DisksOK'
  <2>1. \A x \in Slot : x >= next => x # d
    <3>1. d \in Named
      BY DEF HandAttach, MayAttach
    <3>2. disk[d].closer
      BY <1>1, <3>1 DEF HandlesInv, HandlesFollowUse, InUse, DisksOK
    <3>3. NoDisk.closer = FALSE
      BY DEF NoDisk
    <3> QED
      BY <1>1, <3>2, <3>3 DEF DisksOK
  <2>2. \A x \in Slot : x >= next' => disk'[x] = NoDisk /\ handle'[x] = "free"
    BY <1>1, <1>5, <2>1 DEF DisksOK
  <2>3. \A x \in Slot : disk'[x].closer <=> handle'[x] = "open"
    BY <1>1, <1>7 DEF DisksOK
  <2>4. \A x \in Slot : disk'[x].parent # Nobody => disk'[x].parent < next'
    BY <1>1, <1>3, <1>5, <1>6 DEF DisksOK
  <2>5. \A x \in held' : x < next' /\ ~disk'[x].owned
    BY <1>1, <1>7 DEF DisksOK, TypeOK
  <2> QED
    BY <1>1, <1>8, <2>2, <2>3, <2>4, <2>5 DEF DisksOK, Slot
<1> QED
  BY <1>1, <1>9, <1>10 DEF HandlesInv, HandlesFollowUse, ClosedAtMostOnce, WalkOK, Slot

\* Close closes the handles of its own chain and no other held chain's.
LEMMA CloseHandles ==
  ASSUME TypeInv, HandlesInv, NEW d \in Slot, Close(d)
  PROVE  HandlesInv'
<1>1. /\ TypeOK /\ DisksOK /\ WalkOK /\ next \in Nat /\ next' = next /\ held \subseteq Slot
      /\ held' = held \ {d} /\ d \in held /\ pc = "idle" /\ pc' = "idle"
      /\ handle \in [Slot -> HandleStates]
  BY SlotsAssumption DEF TypeInv, TypeOK, HandlesInv, Close
<1>2. /\ \A x \in Slot : disk[x].closer <=> handle[x] = "open"
      /\ \A x \in Slot : handle[x] # "closed twice"
  BY <1>1 DEF DisksOK, HandlesInv, ClosedAtMostOnce
<1>3. ClosesExactly(handle, Closes(d))
  BY <1>1, <1>2, ClosingHandles
<1>4. handle' = Closing(handle, Closes(d)) /\ disk' = Spent(Closes(d))
  BY DEF Close
<1>5. DisksOK' /\ \A x : Closes(x)' = Closes(x)
  <2>1. \A x \in Slot : disk'[x].parent = disk[x].parent /\ disk'[x].owned = disk[x].owned
    BY <1>3, <1>4 DEF ClosesExactly
  <2>2. \A x \in Slot : disk'[x].closer <=> handle'[x] = "open"
    BY <1>2, <1>3, <1>4 DEF ClosesExactly
  <2>3. \A x \in Slot : x >= next => disk'[x] = NoDisk /\ handle'[x] = "free"
    BY <1>1, <1>3, <1>4 DEF ClosesExactly, DisksOK
  <2> QED
    BY <1>1, <2>1, <2>2, <2>3, KeptDisks
<1>6. Named' = Named \ Closes(d)
  <2>1. \A e \in held : e # d => Closes(e) \cap Closes(d) = {}
    BY <1>1, UseDisjoint
  <2>2. Named' = UNION {Closes(e) : e \in held \ {d}}
    BY <1>1, <1>5 DEF Named
  <2> QED
    BY <1>1, <2>1, <2>2 DEF Named
<1>7. {x \in Slot : handle'[x] = "open"} = Named \ Closes(d)
  BY <1>1, <1>3, <1>4 DEF HandlesInv, HandlesFollowUse, InUse, ClosesExactly
<1>8. ClosedAtMostOnce'
  BY <1>3, <1>4 DEF ClosedAtMostOnce, Slot, ClosesExactly
<1> QED
  BY <1>1, <1>5, <1>6, <1>7, <1>8 DEF HandlesInv, HandlesFollowUse, InUse, WalkOK, Slot

\* Every action keeps the invariant, one step of the proof for each.
LEMMA HandlesStep ==
  ASSUME ByHand # "any"
  PROVE  TypeInv /\ HandlesInv /\ [Next]_vars => HandlesInv'
<1> SUFFICES ASSUME TypeInv, HandlesInv, [Next]_vars PROVE HandlesInv'
  OBVIOUS
<1>t. /\ TypeOK /\ Room /\ DisksOK /\ WalkOK /\ next \in Nat /\ held \subseteq Slot
      /\ handle \in [Slot -> HandleStates] /\ Slots \in Nat
  BY SlotsAssumption DEF TypeInv, TypeOK, HandlesInv
<1>r. Seeking => next \in Slot /\ next <= Slots /\ handle[next] = "free" /\ op.cand = Nobody
  <2> SUFFICES ASSUME Seeking PROVE next \in Slot /\ next <= Slots /\ handle[next] = "free" /\ op.cand = Nobody
    OBVIOUS
  <2>1. next <= Slots
    BY <1>t, DepthAssumption DEF Seeking, Room, TypeOK, Opens
  <2>2. next \in Slot
    BY <1>t, <2>1 DEF TypeOK, Slot
  <2> QED
    BY <1>t, <2>1, <2>2 DEF DisksOK, Seeking, WalkOK
<1>k. next' = next => StoppingWith(handle)
  <2> SUFFICES ASSUME next' = next PROVE StoppingWith(handle)
    OBVIOUS
  <2>1. \A x \in Slot : handle[x] # "closed twice"
    BY DEF HandlesInv, ClosedAtMostOnce
  <2>2. \A x \in Slot : x >= next => handle[x] = "free"
    BY <1>t DEF DisksOK
  <2>3. \A x \in Slot : x >= next' => handle[x] = "free"
    BY <2>2
  <2>4. next' \in Nat /\ next' >= next /\ handle \in [Slot -> HandleStates]
    BY <1>t
  <2> QED
    BY <2>1, <2>3, <2>4, Zenon DEF StoppingWith
<1>s. ASSUME next' = next, handle' = handle, disk' = disk,
             \A d \in held' : d \in held \/ (d \in Slot /\ d < next /\ ~disk[d].owned)
      PROVE  /\ DisksOK' /\ ClosedAtMostOnce' /\ \A d : Closes(d)' = Closes(d)
             /\ {x \in Slot : handle'[x] = "open"} = InUse
  <2>1. \A x \in Slot : disk'[x].parent = disk[x].parent /\ disk'[x].owned = disk[x].owned
    BY <1>s
  <2>2. \A x \in Slot : disk'[x].closer <=> handle'[x] = "open"
    BY <1>t, <1>s DEF DisksOK
  <2>3. \A x \in Slot : x >= next' => disk'[x] = NoDisk /\ handle'[x] = "free"
    BY <1>t, <1>s DEF DisksOK
  <2>4. next' \in Nat /\ next' >= next
    BY <1>t, <1>s
  <2> QED
    BY <1>t, <1>s, <2>1, <2>2, <2>3, <2>4, KeptDisks
       DEF HandlesInv, HandlesFollowUse, ClosedAtMostOnce, Slot
<1>1. ASSUME NEW f \in Images, OpenUnreadable(f) PROVE HandlesInv'
  <2>1. /\ next \in Slot /\ handle' = [handle EXCEPT ![next] = "closed"] /\ disk' = disk
        /\ held' = held /\ pc = "idle" /\ pc' = "idle" /\ next' = next + 1
    BY <1>1, <1>t DEF OpenUnreadable, TypeOK, Slot
  <2>2. /\ handle'[next] = "closed" /\ handle[next] = "free" /\ disk[next] = NoDisk
        /\ \A x \in Slot : x # next => handle'[x] = handle[x]
    BY <1>t, <2>1 DEF DisksOK
  <2>3. disk[next].closer = FALSE
    BY <2>2 DEF NoDisk
  <2>4. \A x \in Slot : disk'[x].closer <=> handle'[x] = "open"
    BY <1>t, <2>1, <2>2, <2>3 DEF DisksOK
  <2>5. \A x \in Slot : x >= next' => x >= next /\ x # next
    BY <1>t, <2>1, SlotsAreNumbers
  <2>6. \A x \in Slot : x >= next' => disk'[x] = NoDisk /\ handle'[x] = "free"
    BY <1>t, <2>1, <2>2, <2>5 DEF DisksOK
  <2>7. next' \in Nat /\ next' >= next
    BY <1>t, <2>1
  <2>8. DisksOK' /\ \A d : Closes(d)' = Closes(d)
    BY <1>t, <2>1, <2>4, <2>6, <2>7, KeptDisks
  <2>9. InUse' = InUse
    BY <2>1, <2>8 DEF InUse, Named
  <2>10. HandlesFollowUse' /\ ClosedAtMostOnce'
    BY <2>2, <2>9 DEF HandlesInv, HandlesFollowUse, ClosedAtMostOnce, Slot
  <2> QED
    BY <2>1, <2>8, <2>10 DEF HandlesInv, WalkOK
<1>2. ASSUME NEW f \in Images, OpenSuppressed(f) PROVE HandlesInv'
  <2>1. /\ next <= Slots /\ pc = "idle" /\ pc' = "idle" /\ held' = held \cup {next}
        /\ disk' = [disk EXCEPT ![next] = NewDisk(f, FALSE)]
        /\ handle' = [handle EXCEPT ![next] = "open"] /\ next' = next + 1
    BY <1>2 DEF OpenSuppressed
  <2>2. /\ DisksOK' /\ ClosedAtMostOnce' /\ {x \in Slot : handle'[x] = "open"} = InUse \cup {next}
    BY <2>1, OpenedHandles
  <2>3. Closes(next) = {next} /\ \A d : Closes(d)' = Closes(d)
    BY <1>t, <2>1, NewDiskEdge
  <2>4. InUse' = InUse \cup {next}
    BY <2>1, <2>3 DEF InUse, Named
  <2> QED
    BY <2>1, <2>2, <2>4 DEF HandlesInv, HandlesFollowUse, WalkOK, Slot
<1>3. ASSUME NEW f \in Images, NEW options \in OptionSets, OpenFile(f, options) PROVE HandlesInv'
  <2>1. /\ pc = "idle" /\ pc' = "link" /\ held' = held
        /\ disk' = [disk EXCEPT ![next] = NewDisk(f, FALSE)]
        /\ handle' = [handle EXCEPT ![next] = "open"] /\ next' = next + 1
        /\ next + MaxChainDepth <= Slots + 1
    BY <1>3 DEF OpenFile
  <2>2. next <= Slots
    BY <1>t, <2>1, DepthAssumption
  <2>3. op'.root = next /\ op'.cur = next /\ op'.cand = Nobody
    BY <1>3 DEF OpenFile, NoOp
  <2>4. /\ DisksOK' /\ ClosedAtMostOnce' /\ {x \in Slot : handle'[x] = "open"} = InUse \cup {next}
        /\ disk'[next] = NewDisk(f, FALSE) /\ next \notin held
    BY <2>1, <2>2, OpenedHandles
  <2>5. Closes(next) = {next} /\ \A d : Closes(d)' = Closes(d)
    BY <1>t, <2>1, <2>2, NewDiskEdge
  <2>6. \A d : d = next => (Closes(d))' = {next}
    BY <2>5
  <2>7. (Closes(op.root))' = {next}
    BY <2>3, <2>6
  <2>8. InUse' = InUse \cup {next}
    BY <2>1, <2>3, <2>5, <2>7 DEF InUse, Named
  <2>9. disk'[next].owned = FALSE /\ disk'[next].parent = Nobody
    BY <2>4 DEF NewDisk
  <2>10. op'.root < next' /\ op'.root \notin held'
    BY <1>t, <2>1, <2>3, <2>4
  <2>11. WalkOK'
    BY <2>1, <2>3, <2>7, <2>9, <2>10 DEF WalkOK
  <2> QED
    BY <2>4, <2>8, <2>11 DEF HandlesInv, HandlesFollowUse, Slot
<1>4. CASE ChainDone
  <2>1. /\ next' = next /\ handle' = handle /\ disk' = disk /\ held' = held \cup {op.root}
        /\ pc = "link" /\ pc' = "idle"
    BY <1>4 DEF ChainDone
  <2>2. op.root \in Slot /\ op.root < next /\ ~disk[op.root].owned /\ op.cand = Nobody
    <3>1. op.root < next /\ ~disk[op.root].owned /\ op.cand = Nobody
      BY <1>t, <2>1, Zenon DEF WalkOK
    <3>2. op.root \in Slot
      BY <1>t, <2>1 DEF Room
    <3> QED
      BY <3>1, <3>2
  <2>3. /\ DisksOK' /\ ClosedAtMostOnce' /\ \A d : Closes(d)' = Closes(d)
        /\ {x \in Slot : handle'[x] = "open"} = InUse
    BY <1>s, <2>1, <2>2
  <2>4. InUse' = InUse
    BY <2>1, <2>2, <2>3 DEF InUse, Named
  <2> QED
    BY <2>1, <2>3, <2>4 DEF HandlesInv, HandlesFollowUse, WalkOK, Slot
<1>5. CASE ChainTooDeep
  <2>1. pc = "link" /\ pc' = "idle" /\ Abandon(handle, {}) /\ next' = next
    BY <1>5 DEF ChainTooDeep
  <2>2. {} = {op.cand} \ {Nobody}
    BY <1>t, <2>1 DEF WalkOK
  <2> QED
    BY <1>k, <1>t, <2>1, <2>2, StopHandles
<1>6. CASE ParentNotFound
  <2>1. /\ pc = "link" /\ pc' = "idle" /\ next' = next
        /\ Abandon(handle, {}) \/ KeepShort(handle, {})
    BY <1>6 DEF ParentNotFound, Seeking, StopShort
  <2>2. {} = {op.cand} \ {Nobody}
    BY <1>t, <2>1 DEF WalkOK
  <2> QED
    BY <1>k, <1>t, <2>1, <2>2, StopHandles
<1>7. ASSUME NEW f \in Images, ParentUnreadable(f) PROVE HandlesInv'
  <2> DEFINE hs == [handle EXCEPT ![next] = "closed"]
  <2>1. /\ pc = "link" /\ pc' = "idle" /\ next' = next + 1 /\ Seeking
        /\ Abandon(hs, {}) \/ KeepShort(hs, {})
    BY <1>7 DEF ParentUnreadable, Seeking, StopShort
  <2>2. next \in Slot /\ handle[next] = "free" /\ {} = {op.cand} \ {Nobody}
    BY <1>r, <2>1
  <2>3. hs \in [Slot -> HandleStates] /\ \A x \in Slot : hs[x] = IF x = next THEN "closed" ELSE handle[x]
    BY <1>t, <2>2 DEF HandleStates
  <2>4. \A x \in Slot : x >= next' => x >= next /\ x # next
    BY <1>t, <2>1, SlotsAreNumbers
  <2>5. \A x \in Slot : x >= next' => hs[x] = "free"
    BY <1>t, <2>3, <2>4 DEF DisksOK
  <2>6. \A x \in Slot : hs[x] = "open" <=> handle[x] = "open"
    BY <2>2, <2>3
  <2>7. \A x \in Slot : hs[x] # "closed twice"
    BY <2>3 DEF HandlesInv, ClosedAtMostOnce
  <2>8. next' \in Nat /\ next' >= next
    BY <1>t, <2>1
  <2> HIDE DEF hs
  <2>9. StoppingWith(hs)
    BY <2>3, <2>5, <2>6, <2>7, <2>8 DEF StoppingWith
  <2> QED
    BY <2>1, <2>2, <2>9, StopHandles
<1>8. ASSUME NEW f \in Images, ParentOpened(f) PROVE HandlesInv'
  <2>1. /\ pc = "link" /\ pc' = "verify" /\ held' = held /\ Seeking
        /\ disk' = [disk EXCEPT ![next] = NewDisk(f, TRUE)]
        /\ handle' = [handle EXCEPT ![next] = "open"] /\ next' = next + 1
    BY <1>8 DEF ParentOpened, Seeking
  <2>2. next <= Slots /\ next \in Slot /\ op.cand = Nobody
    BY <1>r, <2>1
  <2>3. op'.root = op.root /\ op'.cur = op.cur /\ op'.cand = next
    BY <1>t, <1>8 DEF ParentOpened, TypeOK, Opens
  <2>4. /\ DisksOK' /\ ClosedAtMostOnce' /\ {x \in Slot : handle'[x] = "open"} = InUse \cup {next}
        /\ disk'[next] = NewDisk(f, TRUE) /\ \A x \in Slot : x # next => disk'[x] = disk[x]
    BY <2>1, <2>2, OpenedHandles
  <2>5. (\A d : Closes(d)' = Closes(d)) /\ \A x \in Slot : disk[x].parent # next
    BY <1>t, <2>1, <2>2, NewDiskEdge
  <2>6. (Closes(op.root))' = Closes(op.root)
    BY <2>3, <2>5
  <2>7. next # Nobody
    BY <2>2, SlotsAreNumbers
  <2>8. InUse' = InUse \cup {next}
    BY <2>1, <2>2, <2>3, <2>5, <2>6, <2>7 DEF InUse, Named
  <2>9. disk'[next].owned = TRUE /\ disk'[next].parent = Nobody
    BY <2>4 DEF NewDisk
  <2>10. /\ op.root < next /\ op.root \notin held /\ ~disk[op.root].owned
         /\ op.cur \in Closes(op.root) /\ disk[op.cur].parent = Nobody
    BY <1>t, <2>1, Zenon DEF WalkOK
  <2>11. op.root \in Slot /\ op.cur \in Slot
    BY <1>t, <2>1 DEF Room
  <2>12. /\ op.root < next' /\ next < next' /\ op.root # next
    <3>1. op.root \in Nat /\ next \in Nat /\ op.root < next /\ next' = next + 1
      BY <1>t, <2>1, <2>10, <2>11, SlotsAreNumbers
    <3> QED
      BY ONLY <3>1
  <2>13. ~disk'[op.root].owned
    BY <2>4, <2>10, <2>11, <2>12
  <2>14. disk'[op.cur].parent = Nobody
    BY <2>4, <2>9, <2>10, <2>11
  <2>15. \A x \in Slot : disk'[x].parent # next
    BY <2>4, <2>5, <2>7, <2>9
  <2>16. WalkOK'
    BY <2>1, <2>3, <2>6, <2>9, <2>10, <2>12, <2>13, <2>14, <2>15 DEF WalkOK, Slot
  <2> QED
    BY <2>4, <2>8, <2>16 DEF HandlesInv, HandlesFollowUse, Slot
<1>9. CASE ParentRejected
  <2>1. /\ pc = "verify" /\ pc' = "idle" /\ next' = next
        /\ Abandon(handle, {op.cand}) \/ KeepShort(handle, {op.cand})
    BY <1>9 DEF ParentRejected, StopShort
  <2>2. {op.cand} = {op.cand} \ {Nobody}
    BY <1>t, <2>1, SlotsAreNumbers DEF Room
  <2> QED
    BY <1>k, <1>t, <2>1, <2>2, StopHandles
<1>10. CASE ParentVerified
  <2>1. /\ next' = next /\ handle' = handle /\ disk' = disk /\ held' = held /\ op' = op
        /\ pc = "verify" /\ pc' = "attach"
    BY <1>10 DEF ParentVerified
  <2>2. /\ DisksOK' /\ ClosedAtMostOnce' /\ \A d : Closes(d)' = Closes(d)
        /\ {x \in Slot : handle'[x] = "open"} = InUse
    BY <1>s, <2>1
  <2>3. (Closes(op.root))' = Closes(op.root)
    BY <2>1, <2>2
  <2>4. InUse' = InUse
    BY <2>1, <2>2, <2>3 DEF InUse, Named
  <2>5. /\ op.root < next /\ op.root \notin held /\ ~disk[op.root].owned
        /\ op.cur \in Closes(op.root) /\ disk[op.cur].parent = Nobody
        /\ op.cand < next /\ disk[op.cand].owned /\ disk[op.cand].parent = Nobody
        /\ \A x \in Slot : disk[x].parent # op.cand
    BY <1>t, <2>1, Zenon DEF WalkOK
  <2>6. WalkOK'
    BY <2>1, <2>3, <2>5 DEF WalkOK, Slot
  <2> QED
    BY <2>2, <2>4, <2>6 DEF HandlesInv, HandlesFollowUse, Slot
<1>11. CASE CycleFound
  <2>1. /\ pc = "attach" /\ pc' = "idle" /\ next' = next
        /\ Abandon(handle, {op.cand}) \/ KeepShort(handle, {op.cand})
    BY <1>11 DEF CycleFound, StopShort
  <2>2. {op.cand} = {op.cand} \ {Nobody}
    BY <1>t, <2>1, SlotsAreNumbers DEF Room
  <2> QED
    BY <1>k, <1>t, <2>1, <2>2, StopHandles
<1>12. CASE ParentAttached
  BY <1>12, AttachedHandles
<1>13. ASSUME NEW d \in Slot, NEW p \in Slot, HandAttach(d, p) PROVE HandlesInv'
  BY <1>13, HandAttachHandles
<1>14. ASSUME NEW d \in Slot, Close(d) PROVE HandlesInv'
  BY <1>14, CloseHandles
<1>15. CASE UNCHANGED vars
  <2>1. /\ next' = next /\ handle' = handle /\ disk' = disk /\ held' = held /\ op' = op
        /\ pc' = pc
    BY <1>15 DEF vars
  <2>2. /\ DisksOK' /\ ClosedAtMostOnce' /\ \A d : Closes(d)' = Closes(d)
        /\ {x \in Slot : handle'[x] = "open"} = InUse
    BY <1>s, <2>1
  <2>3. (Closes(op.root))' = Closes(op.root)
    BY <2>1, <2>2
  <2>4. InUse' = InUse
    BY <2>1, <2>2, <2>3 DEF InUse, Named
  <2>5. WalkOK' = WalkOK
    BY <2>1, <2>3 DEF WalkOK, Slot
  <2> QED
    BY <1>t, <2>2, <2>4, <2>5 DEF HandlesInv, HandlesFollowUse, Slot
<1> QED
  BY <1>1, <1>2, <1>3, <1>4, <1>5, <1>6, <1>7, <1>8, <1>9, <1>10, <1>11, <1>12, <1>13, <1>14, <1>15
     DEF Next, OpenStep

\* For every library of images, every resolver, every depth limit and any number
\* of opens: as long as callers attach parents the documented way, the open
\* handles are exactly those something in use needs.  No failed or best-effort
\* open leaks one, and no Close takes one from a chain that is still held.
THEOREM HandlesAlwaysFollowUse ==
  ASSUME ByHand # "any"
  PROVE  Spec => []HandlesFollowUse
<1>1. HandlesInv => HandlesFollowUse
  BY DEF HandlesInv
<1>2. TypeInv /\ HandlesInv /\ [Next]_vars => HandlesInv'
  BY HandlesStep
<1> QED
  BY TypeInit, TypeStep, HandlesInit, <1>1, <1>2, PTL DEF Spec

\* Under the same assumption no handle is ever closed twice.
THEOREM HandlesClosedAtMostOnce ==
  ASSUME ByHand # "any"
  PROVE  Spec => []ClosedAtMostOnce
<1>1. HandlesInv => ClosedAtMostOnce
  BY DEF HandlesInv
<1>2. TypeInv /\ HandlesInv /\ [Next]_vars => HandlesInv'
  BY HandlesStep
<1> QED
  BY TypeInit, TypeStep, HandlesInit, <1>1, <1>2, PTL DEF Spec

-----------------------------------------------------------------------------
(* Chains an open reports.                                                  *)

\* What verifyParent and the attachment leave behind at a disk: a parent opened
\* for it, of its size, and of the identity it records unless that was waived.
Linked(x) ==
  /\ OwnedParent(x)
  /\ lib[disk[x].file].size = lib[disk[disk[x].parent].file].size
  /\ ~op.allow /\ lib[disk[x].file].wants # NoId
       => lib[disk[disk[x].parent].file].link = lib[disk[x].file].wants

\* The disk an open is, or was, for.
RootOK ==
  /\ op.root # Nobody => op.root < next
  /\ op.outcome = "complete" => op.root # Nobody

\* The chain built so far is linked up to the disk the walk stands at, its keys
\* have been met, and the depth counts it.
BuiltOK ==
  pc # "idle" =>
    /\ op.outcome # "complete"
    /\ \A x \in Closes(op.root) : x # op.cur => Linked(x)
    /\ \A x \in Closes(op.root) : ChainKeys(disk[x].file) \subseteq op.seen
    /\ IsFiniteSet(Closes(op.root)) /\ Cardinality(Closes(op.root)) = op.depth + 1
    /\ op.depth + 1 <= MaxChainDepth

\* The candidate about to be attached has been verified.
CandOK == pc = "attach" => Acceptable(disk[op.cur].file, disk[op.cand].file, op.allow)

WholeInv == RootOK /\ BuiltOK /\ CandOK /\ NoFileTwice /\ CompleteMeansWhole

-----------------------------------------------------------------------------
(* Steps that leave the chains there are as they are.                       *)

\* Slots in use keep their file and owner, and the parent they were opened with.
KeptLinks ==
  /\ lib' = lib
  /\ \A d : Closes(d)' = Closes(d)
  /\ \A x \in Slot : x < next =>
       /\ disk'[x].file = disk[x].file /\ disk'[x].owned = disk[x].owned
       /\ OwnedParent(x) => disk'[x].parent = disk[x].parent

\* A disk in use leads only to disks in use.
LEMMA ChainInUse ==
  ASSUME TypeInv, DisksOK, NEW d \in Slot, d < next
  PROVE  /\ d \in Closes(d)
         /\ \A x \in Closes(d) : x \in Slot /\ x < next
<1> DEFINE S == {x \in Slot : x < next}
<1>1. TypeOK /\ OwnedEdge \in Edges
  BY OwnedEdgeTyped DEF TypeInv
<1>2. \A x \in Slot : OwnedEdge[x] # Nobody => OwnedEdge[x] \in Slot /\ OwnedEdge[x] < next
  BY <1>1 DEF OwnedEdge, OwnedParent, DisksOK, TypeOK, Disks
<1>3. S \in SUBSET Slot /\ d \in S /\ ClosedBy(OwnedEdge, S)
  BY <1>2 DEF ClosedBy
<1>4. Closes(d) \subseteq S /\ d \in Closes(d)
  BY <1>1, <1>3, AlongIsLeast DEF Closes
<1> QED
  BY <1>4

\* A link that was made stays made.
LEMMA LinkedKept ==
  ASSUME TypeInv, DisksOK, KeptLinks, op'.allow = op.allow,
         NEW x \in Slot, x < next, Linked(x)
  PROVE  Linked(x)'
<1>1. disk[x].parent \in Slot /\ disk[x].parent < next /\ disk[disk[x].parent].owned
  BY DEF Linked, OwnedParent, TypeInv, TypeOK, Disks, DisksOK
<1>2. /\ disk'[x].file = disk[x].file /\ disk'[x].parent = disk[x].parent
      /\ disk'[disk[x].parent].file = disk[disk[x].parent].file
      /\ disk'[disk[x].parent].owned = disk[disk[x].parent].owned
      /\ lib' = lib
  BY <1>1 DEF KeptLinks, Linked
<1> QED
  BY <1>1, <1>2, SlotsAreNumbers DEF Linked, OwnedParent

\* The disks whose chains NoFileTwice is about.
Roots == held \cup ({op.root} \ {Nobody})

\* They are disks in use.
LEMMA RootsInUse ==
  ASSUME TypeInv, DisksOK, RootOK
  PROVE  \A d \in Roots : d \in Slot /\ d < next
BY DEF TypeInv, TypeOK, Opens, DisksOK, RootOK, Roots

\* No chain gains a file: one of the chains there were, or a disk alone.
LEMMA FilesOnceKept ==
  ASSUME TypeInv, DisksOK, RootOK, KeptLinks, NoFileTwice,
         \A d \in Roots' : d \in Roots \/ Closes(d)' = {d}
  PROVE  NoFileTwice'
<1> SUFFICES ASSUME NEW d \in Roots', NEW x \in Closes(d)', NEW y \in Closes(d)',
                    x # y, disk'[x].file = disk'[y].file
             PROVE  ~lib'[disk'[x].file].named
  BY DEF NoFileTwice, Roots
<1>1. d \in Roots
  OBVIOUS
<1>2. d \in Slot /\ d < next /\ Closes(d)' = Closes(d) /\ lib' = lib
  BY <1>1, RootsInUse DEF KeptLinks
<1>3. x \in Closes(d) /\ y \in Closes(d) /\ x \in Slot /\ y \in Slot /\ x < next /\ y < next
  BY <1>2, ChainInUse
<1>4. disk'[x].file = disk[x].file /\ disk'[y].file = disk[y].file
  BY <1>3 DEF KeptLinks
<1> QED
  BY <1>1, <1>2, <1>3, <1>4 DEF NoFileTwice, Roots

\* What was reported complete stays whole.
LEMMA CompleteKept ==
  ASSUME TypeInv, DisksOK, RootOK, KeptLinks, CompleteMeansWhole,
         op'.outcome = "complete" => op' = op
  PROVE  CompleteMeansWhole'
<1> SUFFICES ASSUME op'.outcome = "complete" PROVE CompleteMeansWhole'
  BY DEF CompleteMeansWhole
<1>1. op' = op /\ op.outcome = "complete" /\ lib' = lib
  BY DEF KeptLinks
<1>2. op.root \in Slot /\ op.root < next
  BY <1>1 DEF RootOK, TypeInv, TypeOK, Opens
<1>3. (Closes(op.root))' = Closes(op.root)
  BY <1>1 DEF KeptLinks
<1>4. ASSUME NEW x \in Closes(op.root), IsDiff(x)'
      PROVE  Linked(x)'
  <2>1. x \in Slot /\ x < next
    BY <1>2, ChainInUse
  <2>2. IsDiff(x)
    BY <1>1, <1>4, <2>1 DEF IsDiff, KeptLinks
  <2>3. Linked(x)
    BY <1>1, <2>2 DEF CompleteMeansWhole, Linked
  <2> QED
    BY <1>1, <2>1, <2>3, LinkedKept
<1>5. Cardinality((Closes(op.root))') <= MaxChainDepth
  BY <1>1, <1>3 DEF CompleteMeansWhole
<1> QED
  BY <1>3, <1>4, <1>5 DEF CompleteMeansWhole, Linked

\* Closing disks changes their closers alone.
LEMMA SpentKeeps ==
  ASSUME TypeOK, NEW ds, NEW x \in Slot
  PROVE  /\ Spent(ds)[x].file = disk[x].file /\ Spent(ds)[x].parent = disk[x].parent
         /\ Spent(ds)[x].owned = disk[x].owned /\ Spent(ds)[x].err = disk[x].err
         /\ Spent(ds)[x] \in Disks
<1>1. disk[x] \in Disks
  BY DEF TypeOK
<1>2. Spent(ds)[x] = IF x \in ds /\ disk[x].closer THEN [disk[x] EXCEPT !.closer = FALSE] ELSE disk[x]
  BY DEF Spent
<1> QED
  BY <1>1, <1>2 DEF Disks

\* Every disk keeps file, parent and owner, and all but the root their error.
OnlyRootErrs ==
  \A x \in Slot : /\ disk'[x].file = disk[x].file /\ disk'[x].parent = disk[x].parent
                  /\ disk'[x].owned = disk[x].owned
                  /\ x # op.root => disk'[x].err = disk[x].err

\* However a walk stops, the disks stay what they are, and only the root of a
\* best-effort open gains an error.
LEMMA StopKeeps ==
  ASSUME TypeOK, op.root \in Slot, NEW hs, NEW rejected,
         Abandon(hs, rejected) \/ KeepShort(hs, rejected)
  PROVE  OnlyRootErrs /\ (KeepShort(hs, rejected) => disk'[op.root].err)
<1>1. CASE Abandon(hs, rejected) /\ ~KeepShort(hs, rejected)
  BY <1>1, SpentKeeps DEF Abandon, OnlyRootErrs
<1>2. CASE KeepShort(hs, rejected)
  <2> DEFINE sp == Spent(rejected)
  <2>1. \A x \in Slot : /\ sp[x].file = disk[x].file /\ sp[x].parent = disk[x].parent
                        /\ sp[x].owned = disk[x].owned /\ sp[x].err = disk[x].err
                        /\ sp[x] \in Disks
    BY SpentKeeps
  <2>2. disk' = [sp EXCEPT ![op.root] = [sp[op.root] EXCEPT !.err = TRUE]]
    BY <1>2 DEF KeepShort
  <2>3. DOMAIN sp = Slot
    BY DEF Spent
  <2> HIDE DEF sp
  <2>4. \A x \in Slot : x # op.root => disk'[x] = sp[x]
    BY <2>2, <2>3
  <2>5. disk'[op.root] = [sp[op.root] EXCEPT !.err = TRUE] /\ sp[op.root] \in Disks
    BY <2>1, <2>2, <2>3
  <2>6. /\ disk'[op.root].file = sp[op.root].file /\ disk'[op.root].parent = sp[op.root].parent
        /\ disk'[op.root].owned = sp[op.root].owned /\ disk'[op.root].err
    BY <2>5 DEF Disks
  <2> QED
    BY <2>1, <2>4, <2>6 DEF OnlyRootErrs
<1> QED
  BY <1>1, <1>2

\* Disks that keep files, parents and owners keep their links.
LEMMA SameDisksKeepLinks ==
  ASSUME TypeOK, lib' = lib,
         \A x \in Slot : /\ disk'[x].file = disk[x].file /\ disk'[x].parent = disk[x].parent
                         /\ disk'[x].owned = disk[x].owned
  PROVE  KeptLinks
<1>1. \A d : Closes(d)' = Closes(d)
  BY SameParentsSameUse
<1> QED
  BY <1>1 DEF KeptLinks

\* However a walk stops, it ends with no chain changed and none called complete.
LEMMA StopWhole ==
  ASSUME TypeInv, HandlesInv, WholeInv, pc # "idle", NEW hs, NEW rejected,
         StopShort(hs, rejected) \/ (Abandon(hs, rejected) /\ pc' = "idle" /\ UNCHANGED <<lib, searched, byHand>>),
         next' = next \/ next' = next + 1
  PROVE  WholeInv'
<1>1. /\ TypeOK /\ Room /\ DisksOK /\ WalkOK /\ op.root \in Slot /\ pc' = "idle" /\ lib' = lib
      /\ next \in Nat /\ op.root < next
  <2>1. TypeOK /\ Room /\ DisksOK /\ WalkOK
    BY DEF TypeInv, HandlesInv
  <2>2. op.root \in Slot
    BY <2>1 DEF Room
  <2>3. op.root < next
    BY <2>1, Zenon DEF WalkOK
  <2>4. pc' = "idle" /\ lib' = lib
    BY DEF StopShort
  <2>5. next \in Nat
    BY <2>1, SlotsAssumption DEF TypeOK
  <2> QED
    BY <2>1, <2>2, <2>3, <2>4, <2>5
<1>2. Abandon(hs, rejected) \/ KeepShort(hs, rejected)
  BY DEF StopShort
<1>3. /\ op'.root = op.root /\ op'.outcome # "complete" /\ held' \subseteq held \cup {op.root}
  BY <1>2 DEF Abandon, KeepShort, Ended
<1>4. \A x \in Slot : /\ disk'[x].file = disk[x].file /\ disk'[x].parent = disk[x].parent
                      /\ disk'[x].owned = disk[x].owned
  <2>1. TypeOK /\ op.root \in Slot
    BY <1>1
  <2>2. OnlyRootErrs
    BY <1>2, <2>1, StopKeeps
  <2> QED
    BY <2>2 DEF OnlyRootErrs
<1>5. KeptLinks
  BY <1>1, <1>4, SameDisksKeepLinks
<1>6. \A d \in Roots' : d \in Roots
  BY <1>1, <1>3, SlotsAreNumbers DEF Roots
<1>7. NoFileTwice' /\ CompleteMeansWhole'
  BY <1>1, <1>3, <1>5, <1>6, FilesOnceKept, CompleteKept DEF WholeInv
<1>8. RootOK'
  <2>1. op.root \in Nat /\ op.root < next'
    <3>1. op.root \in Nat /\ next \in Nat /\ op.root < next
      BY <1>1, SlotsAreNumbers
    <3>2. next' = next \/ next' = next + 1
      OBVIOUS
    <3> QED
      BY ONLY <3>1, <3>2
  <2> QED
    BY <1>3, <2>1 DEF RootOK
<1> QED
  BY <1>1, <1>7, <1>8 DEF WholeInv, BuiltOK, CandOK

\* A disk opened in the next slot is a chain of its own and disturbs no other.
LEMMA OpenedWhole ==
  ASSUME TypeInv, HandlesInv, next <= Slots, NEW f \in Images, NEW owned \in BOOLEAN,
         disk' = [disk EXCEPT ![next] = NewDisk(f, owned)], lib' = lib
  PROVE  /\ KeptLinks /\ next \in Slot
         /\ \A d : d = next => Closes(d)' = {next}
         /\ disk'[next].file = f /\ \A x \in Slot : x # next => disk'[x] = disk[x]
<1>1. TypeOK /\ DisksOK /\ next \in Nat
  BY SlotsAssumption DEF TypeInv, TypeOK, HandlesInv
<1>2. /\ next \in Slot /\ Closes(next) = {next} /\ \A d : Closes(d)' = Closes(d)
  BY <1>1, NewDiskEdge
<1>3. disk'[next] = NewDisk(f, owned) /\ \A x \in Slot : x # next => disk'[x] = disk[x]
  BY <1>1, <1>2 DEF TypeOK
<1>4. \A x \in Slot : x < next => x # next
  BY <1>1, SlotsAreNumbers
<1> QED
  BY <1>2, <1>3, <1>4 DEF KeptLinks, NewDisk

\* While the walk looks on, the chain built so far stays as it is.
LEMMA BuiltKept ==
  ASSUME TypeInv, HandlesInv, BuiltOK, KeptLinks, pc # "idle",
         op'.root = op.root, op'.cur = op.cur, op'.depth = op.depth, op'.seen = op.seen,
         op'.allow = op.allow, op'.outcome = op.outcome
  PROVE  BuiltOK'
<1>1. TypeOK /\ Room /\ DisksOK /\ WalkOK /\ op.root \in Slot
  BY DEF TypeInv, HandlesInv, Room
<1>2. op.root < next
  BY <1>1, Zenon DEF WalkOK
<1>3. (Closes(op.root))' = Closes(op.root)
  BY DEF KeptLinks
<1>4. \A x \in Closes(op.root) : x \in Slot /\ x < next
  BY <1>1, <1>2, ChainInUse
<1>5. \A x \in Closes(op.root) : x # op.cur => Linked(x)'
  BY <1>1, <1>4, LinkedKept DEF BuiltOK
<1>6. \A x \in Closes(op.root) : ChainKeys(disk[x].file)' = ChainKeys(disk[x].file)
  BY <1>4 DEF KeptLinks, ChainKeys
<1> QED
  BY <1>3, <1>5, <1>6 DEF BuiltOK

-----------------------------------------------------------------------------
(* The invariant.                                                           *)

\* Before the first open there is no chain.
LEMMA WholeInit == Init => WholeInv
<1> SUFFICES ASSUME Init PROVE WholeInv
  OBVIOUS
<1>1. op.root = Nobody /\ op.outcome = "none" /\ pc = "idle" /\ held = {}
  BY DEF Init, NoOp
<1> QED
  BY <1>1 DEF WholeInv, RootOK, BuiltOK, CandOK, NoFileTwice, CompleteMeansWhole

\* An attached candidate is linked to its child, adds its key, and is a file the
\* chain did not hold.
LEMMA AttachedWhole ==
  ASSUME TypeInv, HandlesInv, WholeInv, ParentAttached
  PROVE  WholeInv'
<1>1. /\ TypeOK /\ Room /\ DisksOK /\ WalkOK
      /\ op.root \in Slot /\ op.cur \in Slot /\ op.cand \in Slot
  BY DEF TypeInv, HandlesInv, ParentAttached, Room
<1>2. /\ pc = "attach" /\ pc' = "link" /\ next' = next /\ held' = held /\ lib' = lib
      /\ disk' = [disk EXCEPT ![op.cur].parent = op.cand]
      /\ ChainKeys(disk[op.cand].file) \cap op.seen = {}
  BY DEF ParentAttached
<1>3. /\ op'.root = op.root /\ op'.cur = op.cand /\ op'.depth = op.depth + 1
      /\ op'.seen = op.seen \cup ChainKeys(disk[op.cand].file)
      /\ op'.allow = op.allow /\ op'.outcome = op.outcome
  BY <1>1 DEF ParentAttached, TypeOK, Opens
<1>4. op.root < next /\ op.cand < next /\ op.cur \in Closes(op.root) /\ disk[op.cand].owned
  BY <1>1, <1>2, Zenon DEF WalkOK
<1>5. /\ \A d : d = op.root => Closes(d)' = Closes(d) \cup {op.cand}
      /\ \A d \in held : Closes(d)' = Closes(d)
      /\ op.cand \notin Closes(op.root) /\ op.cur # op.cand
  BY AttachedUse
<1>6. (Closes(op.root))' = Closes(op.root) \cup {op.cand}
  BY <1>3, <1>5
<1>7. /\ \A x \in Slot : x # op.cur => disk'[x] = disk[x]
      /\ \A x \in Slot : disk'[x].file = disk[x].file /\ disk'[x].owned = disk[x].owned
      /\ disk'[op.cur].parent = op.cand
  BY <1>1, <1>2 DEF TypeOK, Disks
<1>8. \A x \in Closes(op.root) : x \in Slot
  BY <1>1, <1>4, ChainInUse
<1>9. ASSUME NEW x \in Slot, x = op.cur PROVE Linked(x)'
  <2>1. Acceptable(disk[x].file, disk[op.cand].file, op.allow)
    BY <1>2, <1>9 DEF WholeInv, CandOK
  <2>2. /\ disk'[x].parent = op.cand /\ disk'[x].file = disk[x].file
        /\ disk'[op.cand].file = disk[op.cand].file /\ disk'[op.cand].owned
    BY <1>1, <1>4, <1>7, <1>9
  <2> QED
    BY <1>1, <1>2, <1>3, <2>1, <2>2, SlotsAreNumbers DEF Linked, OwnedParent, Acceptable
<1>10. ASSUME NEW x \in Closes(op.root), x # op.cur PROVE Linked(x)'
  <2>1. Linked(x)
    BY <1>2, <1>10 DEF WholeInv, BuiltOK
  <2>2. x \in Slot /\ disk[x].parent \in Slot /\ disk'[x] = disk[x]
    BY <1>1, <1>7, <1>8, <1>10, <2>1 DEF Linked, OwnedParent, TypeOK, Disks
  <2>3. /\ disk'[disk[x].parent].file = disk[disk[x].parent].file
        /\ disk'[disk[x].parent].owned = disk[disk[x].parent].owned
    BY <1>7, <2>2
  <2> QED
    BY <1>2, <1>3, <2>1, <2>2, <2>3 DEF Linked, OwnedParent
<1>11. \A x \in Slot : ChainKeys(disk[x].file)' = ChainKeys(disk[x].file)
  BY <1>2, <1>7 DEF ChainKeys
<1>12. BuiltOK'
  <2>1. op.depth + 2 <= MaxChainDepth /\ op.depth \in Nat
    BY <1>1, <1>2 DEF Room, TypeOK, Opens
  <2>2. IsFiniteSet(Closes(op.root)) /\ Cardinality(Closes(op.root)) = op.depth + 1
    BY <1>2 DEF WholeInv, BuiltOK
  <2>3. /\ IsFiniteSet(Closes(op.root) \cup {op.cand})
        /\ Cardinality(Closes(op.root) \cup {op.cand}) = op.depth + 2
    <3>1. /\ IsFiniteSet(Closes(op.root) \cup {op.cand})
          /\ Cardinality(Closes(op.root) \cup {op.cand}) = Cardinality(Closes(op.root)) + 1
      BY ONLY <1>5, <2>2, FS_AddElement
    <3> QED
      BY <2>1, <2>2, <3>1
  <2>4. op'.depth + 1 <= MaxChainDepth /\ op'.depth + 1 = op.depth + 2
    BY <1>3, <2>1, DepthAssumption
  <2>5. \A x \in Closes(op.root) \cup {op.cand} : x # op.cand => Linked(x)'
    BY <1>8, <1>9, <1>10
  <2>6. \A x \in Closes(op.root) \cup {op.cand} : ChainKeys(disk[x].file)' \subseteq op'.seen
    BY <1>1, <1>2, <1>3, <1>8, <1>11 DEF WholeInv, BuiltOK
  <2>7. op'.outcome # "complete"
    BY <1>2, <1>3 DEF WholeInv, BuiltOK
  <2> QED
    BY <1>3, <1>6, <2>3, <2>4, <2>5, <2>6, <2>7 DEF BuiltOK
<1>13. NoFileTwice'
  <2> SUFFICES ASSUME NEW d \in Roots', NEW x \in Closes(d)', NEW y \in Closes(d)',
                      x # y, disk'[x].file = disk'[y].file
               PROVE  ~lib'[disk'[x].file].named
    BY DEF NoFileTwice, Roots
  <2>1. d \in Roots /\ \A z \in Closes(d) : z \in Slot
    BY <1>1, <1>2, <1>3, ChainInUse, RootsInUse DEF Roots, WholeInv
  <2>2. CASE x \in Closes(d) /\ y \in Closes(d)
    BY <1>2, <1>7, <2>1, <2>2 DEF WholeInv, NoFileTwice, Roots
  <2>3. CASE ~(x \in Closes(d) /\ y \in Closes(d))
    <3>1. d = op.root /\ x \in Closes(op.root) \cup {op.cand} /\ y \in Closes(op.root) \cup {op.cand}
      BY <1>1, <1>2, <1>3, <1>5, <2>3 DEF Roots
    <3>2. PICK z \in Closes(op.root) : disk[z].file = disk[op.cand].file
      BY <1>1, <1>7, <1>8, <2>3, <3>1
    <3>3. ChainKeys(disk[op.cand].file) \subseteq op.seen
      BY <1>2, <3>2 DEF WholeInv, BuiltOK
    <3>4. ~lib[disk[op.cand].file].named
      BY <1>2, <3>3 DEF ChainKeys
    <3> QED
      BY <1>1, <1>2, <1>7, <1>8, <2>3, <3>1, <3>4
  <2> QED
    BY <2>2, <2>3
<1>14. CompleteMeansWhole' /\ RootOK' /\ CandOK'
  BY <1>2, <1>3, <1>4, <1>12 DEF CompleteMeansWhole, RootOK, CandOK, BuiltOK, WholeInv
<1> QED
  BY <1>12, <1>13, <1>14 DEF WholeInv

\* A step after which no open is under way, and none was just completed.
LEMMA IdleWhole ==
  ASSUME TypeInv, HandlesInv, WholeInv, KeptLinks, pc' = "idle", next \in Nat,
         next' = next \/ next' = next + 1,
         op'.outcome = "complete" => op' = op,
         op'.root = op.root \/ op'.root = Nobody,
         \A d \in Roots' : d \in Roots \/ Closes(d)' = {d}
  PROVE  WholeInv'
<1>1. DisksOK /\ RootOK
  BY DEF HandlesInv, WholeInv
<1>2. NoFileTwice'
  BY <1>1, FilesOnceKept DEF WholeInv
<1>3. CompleteMeansWhole'
  BY <1>1, CompleteKept DEF WholeInv
<1>4. op.root \in Slot \cup {Nobody}
  BY DEF TypeInv, TypeOK, Opens
<1>5. \A x \in Slot : x < next => x < next'
  BY SlotsAreNumbers
<1>6. RootOK'
  BY <1>1, <1>4, <1>5, SlotsAreNumbers DEF RootOK
<1> QED
  BY <1>2, <1>3, <1>6 DEF WholeInv, BuiltOK, CandOK

\* An open that begins: a chain of one disk, which has met its own key.
LEMMA OpenFileWhole ==
  ASSUME TypeInv, HandlesInv, WholeInv, NEW f \in Images, NEW options \in OptionSets,
         OpenFile(f, options)
  PROVE  WholeInv'
<1>1. TypeOK /\ DisksOK /\ RootOK /\ next \in Nat /\ held \subseteq Slot
  BY SlotsAssumption DEF TypeInv, TypeOK, HandlesInv, WholeInv
<1>2. /\ disk' = [disk EXCEPT ![next] = NewDisk(f, FALSE)] /\ lib' = lib
      /\ next' = next + 1 /\ held' = held /\ pc' = "link"
      /\ next + MaxChainDepth <= Slots + 1
  BY DEF OpenFile
<1>3. /\ op'.root = next /\ op'.cur = next /\ op'.depth = 0 /\ op'.seen = ChainKeys(f)
      /\ op'.outcome = "none"
  BY DEF OpenFile, NoOp
<1>4. next <= Slots
  BY <1>1, <1>2, DepthAssumption, SlotsAssumption
<1>5. /\ KeptLinks /\ next \in Slot /\ disk'[next].file = f
      /\ \A d : d = next => Closes(d)' = {next}
  BY <1>2, <1>4, OpenedWhole
<1>6. (Closes(op.root))' = {next}
  BY <1>3, <1>5
<1>7. \A d \in Roots' : d \in Roots \/ Closes(d)' = {d}
  BY <1>2, <1>3, <1>5 DEF Roots
<1>8. NoFileTwice' /\ CompleteMeansWhole'
  BY <1>1, <1>3, <1>5, <1>7, FilesOnceKept, CompleteKept DEF WholeInv
<1>9. IsFiniteSet({next}) /\ Cardinality({next}) = 1
  BY FS_Singleton
<1>10. ChainKeys(f)' = ChainKeys(f)
  BY <1>2 DEF ChainKeys
<1>11. \A x \in {next} : x = next
  OBVIOUS
<1>12. \A x \in {next} : ChainKeys(disk[x].file)' \subseteq op'.seen
  BY <1>2, <1>3, <1>5 DEF ChainKeys
<1>13. 0 + 1 = 1 /\ 1 <= MaxChainDepth
  BY DepthAssumption
<1>14. BuiltOK'
  BY <1>3, <1>6, <1>9, <1>11, <1>12, <1>13 DEF BuiltOK
<1>15. RootOK' /\ CandOK'
  BY <1>1, <1>2, <1>3 DEF RootOK, CandOK
<1> QED
  BY <1>8, <1>14, <1>15 DEF WholeInv

\* A parent opened for the walk is a candidate: the chain built so far stays.
LEMMA ParentOpenedWhole ==
  ASSUME TypeInv, HandlesInv, WholeInv, NEW f \in Images, ParentOpened(f)
  PROVE  WholeInv'
<1>1. TypeOK /\ Room /\ DisksOK /\ RootOK /\ next \in Nat
  BY SlotsAssumption DEF TypeInv, TypeOK, HandlesInv, WholeInv
<1>2. /\ disk' = [disk EXCEPT ![next] = NewDisk(f, TRUE)] /\ lib' = lib
      /\ next' = next + 1 /\ held' = held /\ pc = "link" /\ pc' = "verify" /\ Seeking
  BY DEF ParentOpened, Seeking
<1>3. /\ op'.root = op.root /\ op'.cur = op.cur /\ op'.depth = op.depth /\ op'.seen = op.seen
      /\ op'.allow = op.allow /\ op'.outcome = op.outcome
  BY <1>1 DEF ParentOpened, TypeOK, Opens
<1>4. next <= Slots
  BY <1>1, <1>2, SlotsAssumption, DepthAssumption DEF Seeking, Room, TypeOK, Opens
<1>5. KeptLinks
  BY <1>2, <1>4, OpenedWhole
<1>6. BuiltOK'
  BY <1>2, <1>3, <1>5, BuiltKept DEF WholeInv
<1>7. op.outcome # "complete"
  BY <1>2 DEF WholeInv, BuiltOK
<1>8. \A d \in Roots' : d \in Roots
  BY <1>2, <1>3 DEF Roots
<1>9. NoFileTwice' /\ CompleteMeansWhole'
  BY <1>1, <1>3, <1>5, <1>7, <1>8, FilesOnceKept, CompleteKept DEF WholeInv
<1>10. op.root \in Slot /\ op.root < next
  BY <1>1, <1>2, SlotsAreNumbers DEF Room, RootOK, TypeOK, Opens
<1>11. RootOK' /\ CandOK'
  <2>1. op.root < next'
    <3>1. op.root \in Nat /\ next \in Nat /\ op.root < next /\ next' = next + 1
      BY <1>1, <1>2, <1>10, SlotsAreNumbers
    <3> QED
      BY ONLY <3>1
  <2> QED
    BY <1>2, <1>3, <1>7, <2>1 DEF RootOK, CandOK
<1> QED
  BY <1>6, <1>9, <1>11 DEF WholeInv

\* The caller's own attachment adds no disk to a chain that was opened.
LEMMA HandAttachWhole ==
  ASSUME TypeInv, HandlesInv, WholeInv, ByHand # "any", NEW d \in Slot, NEW p \in Slot,
         HandAttach(d, p)
  PROVE  WholeInv'
<1>1. /\ TypeOK /\ DisksOK /\ next \in Nat /\ next' = next /\ lib' = lib
      /\ held' = held /\ op' = op /\ pc' = "idle"
  BY SlotsAssumption DEF TypeInv, TypeOK, HandlesInv, HandAttach
<1>2. disk[d].parent = Nobody /\ p \in held
  BY DEF HandAttach, MayAttach
<1>3. ~disk[p].owned
  BY <1>1, <1>2, Zenon DEF DisksOK
<1>4. disk' = [disk EXCEPT ![d].parent = p] /\ disk[d] \in Disks
  BY <1>1 DEF HandAttach, TypeOK
<1>5. \A x \in Slot : x # d => disk'[x] = disk[x]
  BY <1>1, <1>4 DEF TypeOK
<1>6. disk'[d].parent = p /\ disk'[d].owned = disk[d].owned /\ disk'[d].file = disk[d].file
  BY <1>1, <1>4 DEF TypeOK, Disks
<1>7. OwnedEdge' = OwnedEdge
  <2>1. \A x \in Slot : disk[x].parent \in Slot \cup {Nobody}
    BY <1>1 DEF TypeOK, Disks
  <2>2. \A x \in Slot : x # d => OwnedEdge'[x] = OwnedEdge[x]
    BY <1>5, <1>6, <2>1 DEF OwnedEdge, OwnedParent
  <2>3. OwnedEdge'[d] = Nobody /\ OwnedEdge[d] = Nobody
    BY <1>2, <1>3, <1>5, <1>6 DEF OwnedEdge, OwnedParent
  <2> QED
    BY <2>2, <2>3 DEF OwnedEdge, Slot
<1>8. KeptLinks
  BY <1>1, <1>2, <1>5, <1>6, <1>7, SameEdgeSameUse DEF KeptLinks, OwnedParent
<1>9. \A x \in Roots' : x \in Roots
  BY <1>1 DEF Roots
<1> QED
  BY <1>1, <1>8, <1>9, IdleWhole

\* Every action keeps the invariant, one step of the proof for each.
LEMMA WholeStep ==
  ASSUME ByHand # "any"
  PROVE  TypeInv /\ HandlesInv /\ WholeInv /\ [Next]_vars => WholeInv'
<1> SUFFICES ASSUME TypeInv, HandlesInv, WholeInv, [Next]_vars PROVE WholeInv'
  OBVIOUS
<1>t. /\ TypeOK /\ Room /\ DisksOK /\ WalkOK /\ RootOK /\ next \in Nat
  BY SlotsAssumption DEF TypeInv, TypeOK, HandlesInv, WholeInv
<1>1. ASSUME NEW f \in Images, OpenUnreadable(f) PROVE WholeInv'
  <2>1. /\ disk' = disk /\ lib' = lib /\ pc' = "idle" /\ next' = next + 1 /\ held' = held
        /\ op'.root = Nobody /\ op'.outcome = "unreadable"
    BY <1>1 DEF OpenUnreadable, NoOp
  <2>2. KeptLinks
    BY <1>t, <2>1, SameDisksKeepLinks
  <2>3. \A d \in Roots' : d \in Roots
    BY <2>1 DEF Roots
  <2> QED
    BY <1>t, <2>1, <2>2, <2>3, IdleWhole
<1>2. ASSUME NEW f \in Images, OpenSuppressed(f) PROVE WholeInv'
  <2>1. /\ disk' = [disk EXCEPT ![next] = NewDisk(f, FALSE)] /\ lib' = lib /\ pc' = "idle"
        /\ next' = next + 1 /\ held' = held \cup {next} /\ next <= Slots
        /\ op'.root = Nobody /\ op'.outcome = "suppressed"
    BY <1>2 DEF OpenSuppressed, NoOp
  <2>2. KeptLinks /\ \A d : d = next => Closes(d)' = {next}
    BY <2>1, OpenedWhole
  <2>3. \A d \in Roots' : d \in Roots \/ Closes(d)' = {d}
    BY <2>1, <2>2 DEF Roots
  <2> QED
    BY <1>t, <2>1, <2>2, <2>3, IdleWhole
<1>3. ASSUME NEW f \in Images, NEW options \in OptionSets, OpenFile(f, options) PROVE WholeInv'
  BY <1>3, OpenFileWhole
<1>4. CASE ChainDone
  <2>1. /\ disk' = disk /\ lib' = lib /\ pc = "link" /\ pc' = "idle" /\ next' = next
        /\ held' = held \cup {op.root} /\ ~IsDiff(op.cur)
        /\ op'.root = op.root /\ op'.allow = op.allow /\ op'.outcome = "complete"
    BY <1>4 DEF ChainDone, Ended
  <2>2. op.root \in Slot /\ op.root # Nobody
    BY <1>t, <2>1, SlotsAreNumbers DEF Room
  <2>3. KeptLinks
    BY <1>t, <2>1, SameDisksKeepLinks
  <2>4. \A d \in Roots' : d \in Roots
    BY <2>1, <2>2 DEF Roots
  <2>5. NoFileTwice'
    BY <1>t, <2>3, <2>4, FilesOnceKept DEF WholeInv
  <2>6. (Closes(op.root))' = Closes(op.root)
    BY <2>1, <2>3 DEF KeptLinks
  <2>7. \A x \in Closes(op.root) : x # op.cur => Linked(x)
    BY <2>1 DEF WholeInv, BuiltOK
  <2>8. \A x \in Closes(op.root) : IsDiff(x) => Linked(x)
    BY <2>1, <2>7
  <2>9. Cardinality(Closes(op.root)) <= MaxChainDepth
    BY <2>1 DEF WholeInv, BuiltOK
  <2>10. \A x : (IsDiff(x))' = IsDiff(x) /\ Linked(x)' = Linked(x)
    BY <2>1 DEF IsDiff, Linked, OwnedParent
  <2>11. \A x \in (Closes(op.root))' : IsDiff(x)' => Linked(x)'
    BY <2>6, <2>8, <2>10
  <2>12. CompleteMeansWhole'
    BY <2>6, <2>9, <2>11 DEF CompleteMeansWhole, Linked
  <2>13. RootOK' /\ BuiltOK' /\ CandOK'
    BY <1>t, <2>1, <2>2 DEF RootOK, BuiltOK, CandOK
  <2> QED
    BY <2>5, <2>12, <2>13 DEF WholeInv
<1>5. CASE ChainTooDeep
  <2>1. /\ pc # "idle" /\ next' = next /\ Abandon(handle, {}) /\ pc' = "idle"
        /\ UNCHANGED <<lib, searched, byHand>>
    BY <1>5 DEF ChainTooDeep
  <2> QED
    BY <2>1, StopWhole
<1>6. CASE ParentNotFound
  <2>1. pc # "idle" /\ next' = next /\ StopShort(handle, {})
    BY <1>6 DEF ParentNotFound, Seeking
  <2> QED
    BY <2>1, StopWhole
<1>7. ASSUME NEW f \in Images, ParentUnreadable(f) PROVE WholeInv'
  <2>1. pc # "idle" /\ next' = next + 1 /\ StopShort([handle EXCEPT ![next] = "closed"], {})
    BY <1>7 DEF ParentUnreadable, Seeking
  <2> QED
    BY <2>1, StopWhole
<1>8. ASSUME NEW f \in Images, ParentOpened(f) PROVE WholeInv'
  BY <1>8, ParentOpenedWhole
<1>9. CASE ParentRejected
  <2>1. pc # "idle" /\ next' = next /\ StopShort(handle, {op.cand})
    BY <1>9 DEF ParentRejected
  <2> QED
    BY <2>1, StopWhole
<1>10. CASE ParentVerified
  <2>1. /\ disk' = disk /\ lib' = lib /\ pc = "verify" /\ pc' = "attach" /\ next' = next
        /\ held' = held /\ op' = op
        /\ Acceptable(disk[op.cur].file, disk[op.cand].file, op.allow)
    BY <1>10 DEF ParentVerified
  <2>2. KeptLinks
    BY <1>t, <2>1, SameDisksKeepLinks
  <2>3. \A d \in Roots' : d \in Roots
    BY <2>1 DEF Roots
  <2>4. NoFileTwice' /\ CompleteMeansWhole'
    BY <1>t, <2>1, <2>2, <2>3, FilesOnceKept, CompleteKept DEF WholeInv
  <2>5. BuiltOK'
    BY <2>1, <2>2, BuiltKept DEF WholeInv
  <2>6. RootOK' /\ CandOK'
    BY <1>t, <2>1 DEF RootOK, CandOK, Acceptable
  <2> QED
    BY <2>4, <2>5, <2>6 DEF WholeInv
<1>11. CASE CycleFound
  <2>1. pc # "idle" /\ next' = next /\ StopShort(handle, {op.cand})
    BY <1>11 DEF CycleFound
  <2> QED
    BY <2>1, StopWhole
<1>12. CASE ParentAttached
  BY <1>12, AttachedWhole
<1>13. ASSUME NEW d \in Slot, NEW p \in Slot, HandAttach(d, p) PROVE WholeInv'
  BY <1>13, HandAttachWhole
<1>14. ASSUME NEW d \in Slot, Close(d) PROVE WholeInv'
  <2>1. /\ disk' = Spent(Closes(d)) /\ lib' = lib /\ pc' = "idle" /\ next' = next
        /\ held' = held \ {d} /\ op' = op
    BY <1>14 DEF Close
  <2>2. KeptLinks
    BY <1>t, <2>1, SpentKeeps, SameDisksKeepLinks
  <2>3. \A x \in Roots' : x \in Roots
    BY <2>1 DEF Roots
  <2> QED
    BY <1>t, <2>1, <2>2, <2>3, IdleWhole
<1>15. CASE UNCHANGED vars
  <2>1. /\ disk' = disk /\ lib' = lib /\ pc' = pc /\ next' = next /\ held' = held /\ op' = op
    BY <1>15 DEF vars
  <2>2. KeptLinks
    BY <1>t, <2>1, SameDisksKeepLinks
  <2>3. \A d \in Roots' : d \in Roots
    BY <2>1 DEF Roots
  <2>4. NoFileTwice' /\ CompleteMeansWhole'
    BY <1>t, <2>1, <2>2, <2>3, FilesOnceKept, CompleteKept DEF WholeInv
  <2>5. BuiltOK'
    <3>1. CASE pc = "idle"
      BY <2>1, <3>1 DEF BuiltOK
    <3>2. CASE pc # "idle"
      BY <2>1, <2>2, <3>2, BuiltKept DEF WholeInv
    <3> QED
      BY <3>1, <3>2
  <2>6. RootOK' /\ CandOK'
    BY <2>1 DEF WholeInv, RootOK, CandOK, Acceptable
  <2> QED
    BY <2>4, <2>5, <2>6 DEF WholeInv
<1> QED
  BY <1>1, <1>2, <1>3, <1>4, <1>5, <1>6, <1>7, <1>8, <1>9, <1>10, <1>11, <1>12, <1>13, <1>14, <1>15
     DEF Next, OpenStep

\* For every library of images, every resolver and every depth limit, whatever
\* was opened, attached the documented way or closed before: a chain an open
\* reports complete ends at a disk that needs no parent, every link in it was
\* held to the size and identity the child records, and MaxChainDepth holds.
THEOREM CompleteChainsAreWhole ==
  ASSUME ByHand # "any"
  PROVE  Spec => []CompleteMeansWhole
<1>1. WholeInv => CompleteMeansWhole
  BY DEF WholeInv
<1>2. TypeInv /\ HandlesInv /\ [Next]_vars => HandlesInv'
  BY HandlesStep
<1>3. TypeInv /\ HandlesInv /\ WholeInv /\ [Next]_vars => WholeInv'
  BY WholeStep
<1> QED
  BY TypeInit, TypeStep, HandlesInit, WholeInit, <1>1, <1>2, <1>3, PTL DEF Spec

\* Under the same assumption no chain that is held, or being built, holds a named
\* file twice: images that record each other as parent end an open.
THEOREM NamedFilesOnce ==
  ASSUME ByHand # "any"
  PROVE  Spec => []NoFileTwice
<1>1. WholeInv => NoFileTwice
  BY DEF WholeInv
<1>2. TypeInv /\ HandlesInv /\ [Next]_vars => HandlesInv'
  BY HandlesStep
<1>3. TypeInv /\ HandlesInv /\ WholeInv /\ [Next]_vars => WholeInv'
  BY WholeStep
<1> QED
  BY TypeInit, TypeStep, HandlesInit, WholeInit, <1>1, <1>2, <1>3, PTL DEF Spec

-----------------------------------------------------------------------------
(* ParentResolveError, when parents come from the resolver alone.           *)

\* A disk that the chain of d reaches needs a parent and has none.
Short(d) == \E x \in Closes(d) : IsDiff(x) /\ disk[x].parent = Nobody

\* Every parent was opened for its child; an error is set on exactly the disks
\* the caller holds whose search came back short; and the disk being opened has
\* been searched for, has no error yet, and looks for parents only where needed.
Explained(d) == disk[d].err <=> d \in searched /\ Short(d)
ErrInv ==
  /\ \A x \in Slot : disk[x].parent # Nobody => disk[disk[x].parent].owned
  /\ \A x \in searched : x < next
  /\ \A d \in held : Explained(d)
  /\ pc # "idle" => op.root \in searched /\ ~disk[op.root].err
  /\ pc \in {"verify", "attach"} => IsDiff(op.cur)

\* A chain that stays, with the files and parents of its disks, is as short as it
\* was.
LEMMA ShortKept ==
  ASSUME lib' = lib, NEW d, Closes(d)' = Closes(d),
         \A x \in Closes(d) : disk'[x].file = disk[x].file /\ disk'[x].parent = disk[x].parent
  PROVE  Short(d)' <=> Short(d)
BY DEF Short, IsDiff

\* A step after which every chain is as it was, no parent has changed, and a disk
\* newly held is explained.
LEMMA SteadyErr ==
  ASSUME TypeInv, HandlesInv, ErrInv, KeptLinks,
         \A x \in Slot : disk'[x].parent = disk[x].parent,
         \A x \in searched' : x < next',
         \A d \in held' : \/ d \in held /\ disk'[d].err = disk[d].err /\ (d \in searched' <=> d \in searched)
                          \/ Explained(d)',
         pc' # "idle" => op'.root \in searched' /\ ~disk'[op'.root].err,
         pc' \in {"verify", "attach"} => IsDiff(op.cur)'
  PROVE  ErrInv'
<1>1. TypeOK /\ DisksOK /\ held \subseteq Slot
  BY DEF TypeInv, TypeOK, HandlesInv
<1>2. ASSUME NEW x \in Slot, disk'[x].parent # Nobody PROVE disk'[disk'[x].parent].owned
  <2>1. disk[x].parent \in Slot /\ disk[x].parent < next /\ disk[disk[x].parent].owned
    BY <1>1, <1>2 DEF ErrInv, DisksOK, TypeOK, Disks
  <2> QED
    BY <2>1 DEF KeptLinks
<1>3. ASSUME NEW d \in held', d \in held, disk'[d].err = disk[d].err, d \in searched' <=> d \in searched
      PROVE  Explained(d)'
  <2>1. d \in Slot /\ d < next
    BY <1>1, <1>3 DEF DisksOK
  <2>2. \A x \in Closes(d) : disk'[x].file = disk[x].file /\ disk'[x].parent = disk[x].parent
    BY <1>1, <2>1, ChainInUse DEF KeptLinks
  <2>3. Short(d)' <=> Short(d)
    BY <2>2, ShortKept DEF KeptLinks
  <2> QED
    BY <1>3, <2>3 DEF ErrInv, Explained
<1>4. \A d \in held' : Explained(d)'
  BY <1>3
<1> QED
  BY <1>2, <1>4 DEF ErrInv

\* However a walk stops: a failed open leaves errors alone, and a best-effort one
\* sets it on a root whose chain ends at a disk that still needs a parent.
LEMMA StopErr ==
  ASSUME TypeInv, HandlesInv, WholeInv, ErrInv, pc # "idle", IsDiff(op.cur),
         NEW hs, NEW rejected, Abandon(hs, rejected) \/ KeepShort(hs, rejected),
         pc' = "idle", UNCHANGED <<lib, searched>>, next' = next \/ next' = next + 1
  PROVE  ErrInv'
<1>1. TypeOK /\ Room /\ DisksOK /\ op.root \in Slot /\ next \in Nat
  BY SlotsAssumption DEF TypeInv, TypeOK, HandlesInv, Room
<1>2. op.root \notin held /\ op.cur \in Closes(op.root) /\ disk[op.cur].parent = Nobody
  BY Zenon DEF HandlesInv, WalkOK
<1>3. /\ \A x \in Slot : /\ disk'[x].file = disk[x].file /\ disk'[x].parent = disk[x].parent
                         /\ disk'[x].owned = disk[x].owned
                         /\ x # op.root => disk'[x].err = disk[x].err
      /\ KeepShort(hs, rejected) => disk'[op.root].err
  <2>1. TypeOK /\ op.root \in Slot
    BY <1>1
  <2>2. Abandon(hs, rejected) \/ KeepShort(hs, rejected)
    OBVIOUS
  <2>3. OnlyRootErrs /\ (KeepShort(hs, rejected) => disk'[op.root].err)
    BY <2>1, <2>2, StopKeeps
  <2> QED
    BY <2>3 DEF OnlyRootErrs
<1>4. KeptLinks
  BY <1>1, <1>3, SameDisksKeepLinks
<1>5. \A x \in searched' : x < next'
  <2>1. \A x \in searched : x \in Nat /\ x < next
    BY <1>1, SlotsAreNumbers DEF ErrInv, TypeOK
  <2> QED
    BY <1>1, <2>1
<1>6. \A d \in held : disk'[d].err = disk[d].err
  BY <1>1, <1>2, <1>3 DEF TypeOK
<1>7. KeepShort(hs, rejected) => Explained(op.root)'
  <2> SUFFICES ASSUME KeepShort(hs, rejected) PROVE Explained(op.root)'
    OBVIOUS
  <2>1. Closes(op.root) \subseteq Slot
    BY DEF Closes, Along
  <2>2. op'.root = op.root
    BY DEF KeepShort, Ended
  <2>3. Short(op.root)
    BY <1>2 DEF Short
  <2>4. ASSUME NEW d, d = op.root PROVE Short(d)'
    BY <1>3, <1>4, <2>1, <2>3, <2>4, ShortKept DEF KeptLinks
  <2>5. Short(op.root)'
    BY <2>2, <2>4
  <2> QED
    BY <1>3, <2>2, <2>5 DEF Explained, ErrInv
<1>8. \A d \in held' : d \in held \/ Explained(d)'
  <2>1. CASE Abandon(hs, rejected)
    BY <2>1 DEF Abandon
  <2>2. CASE KeepShort(hs, rejected)
    <3>1. held' = held \cup {op.root} /\ op'.root = op.root
      BY <2>2 DEF KeepShort, Ended
    <3> QED
      BY <1>7, <2>2, <3>1
  <2> QED
    BY <2>1, <2>2
<1> QED
  BY <1>3, <1>4, <1>5, <1>6, <1>8, SteadyErr

\* An attached parent was opened for its child, which no disk that is held reaches.
LEMMA AttachedErr ==
  ASSUME TypeInv, HandlesInv, ErrInv, ParentAttached
  PROVE  ErrInv'
<1>1. /\ TypeOK /\ DisksOK /\ held \subseteq Slot /\ op.root \in Slot /\ op.cur \in Slot /\ op.cand \in Slot
      /\ disk[op.cand].owned /\ op.cur \in Closes(op.root)
  <2>1. TypeOK /\ Room /\ DisksOK /\ WalkOK /\ pc = "attach"
    BY DEF TypeInv, HandlesInv, ParentAttached
  <2> QED
    BY <2>1 DEF TypeOK, Room, WalkOK
<1>2. /\ pc # "idle" /\ pc' = "link" /\ next' = next /\ held' = held /\ lib' = lib /\ searched' = searched
      /\ disk' = [disk EXCEPT ![op.cur].parent = op.cand] /\ op'.root = op.root
  BY <1>1 DEF ParentAttached, TypeOK, Opens
<1>3. /\ \A x \in Slot : x # op.cur => disk'[x] = disk[x]
      /\ \A x \in Slot : /\ disk'[x].file = disk[x].file /\ disk'[x].owned = disk[x].owned
                         /\ disk'[x].err = disk[x].err
      /\ disk'[op.cur].parent = op.cand
  BY <1>1, <1>2 DEF TypeOK, Disks
<1>4. \A x \in Slot : disk[x].parent \in Slot \cup {Nobody}
  BY <1>1 DEF TypeOK, Disks
<1>5. \A x \in Slot : disk'[x].parent # Nobody => disk'[disk'[x].parent].owned
  BY <1>1, <1>3, <1>4 DEF ErrInv
<1>6. ASSUME NEW d \in held PROVE Explained(d)'
  <2>1. Closes(d)' = Closes(d) /\ Closes(d) \subseteq Slot
    BY AttachedUse DEF Closes, Along
  <2>2. op.cur \notin Closes(d)
    BY <1>1, <1>2, UseDisjoint DEF Named, HandlesInv
  <2>3. Short(d)' <=> Short(d)
    BY <1>2, <1>3, <2>1, <2>2, ShortKept
  <2> QED
    BY <1>1, <1>2, <1>3, <2>3 DEF Explained, ErrInv
<1> QED
  BY <1>1, <1>2, <1>3, <1>5, <1>6 DEF ErrInv

\* Every action keeps the invariant.
LEMMA ErrStep ==
  ASSUME ByHand = "none"
  PROVE  TypeInv /\ HandlesInv /\ WholeInv /\ ErrInv /\ [Next]_vars => ErrInv'
<1> SUFFICES ASSUME TypeInv, HandlesInv, WholeInv, ErrInv, [Next]_vars PROVE ErrInv'
  OBVIOUS
<1>t. TypeOK /\ Room /\ DisksOK /\ next \in Nat /\ searched \subseteq Slot /\ held \subseteq Slot
  BY SlotsAssumption DEF TypeInv, TypeOK, HandlesInv
<1>s. \A x \in searched : x \in Nat /\ x < next /\ x < next + 1
  <2>1. \A x \in searched : x \in Nat /\ x < next
    BY <1>t, SlotsAreNumbers DEF ErrInv
  <2> QED
    BY <1>t, <2>1
<1>n. next \notin searched
  BY <1>t, <1>s
<1>1. ASSUME NEW f \in Images, OpenUnreadable(f) PROVE ErrInv'
  <2>1. /\ disk' = disk /\ lib' = lib /\ pc' = "idle" /\ next' = next + 1 /\ held' = held
        /\ searched' = searched
    BY <1>1 DEF OpenUnreadable
  <2>2. KeptLinks
    BY <1>t, <2>1, SameDisksKeepLinks
  <2> QED
    BY <1>s, <2>1, <2>2, SteadyErr
<1>2. ASSUME NEW f \in Images, OpenSuppressed(f) PROVE ErrInv'
  <2>1. /\ disk' = [disk EXCEPT ![next] = NewDisk(f, FALSE)] /\ lib' = lib /\ pc' = "idle"
        /\ next' = next + 1 /\ held' = held \cup {next} /\ next <= Slots /\ searched' = searched
    BY <1>2 DEF OpenSuppressed
  <2>2. /\ KeptLinks /\ next \in Slot /\ \A x \in Slot : x # next => disk'[x] = disk[x]
    BY <2>1, OpenedWhole
  <2>3. disk[next] = NoDisk /\ disk'[next] = NewDisk(f, FALSE)
    BY <1>t, <2>1, <2>2 DEF DisksOK, TypeOK
  <2>4. \A x \in Slot : disk'[x].parent = disk[x].parent /\ disk'[x].err = disk[x].err
    <3>1. /\ disk[next].parent = Nobody /\ disk'[next].parent = Nobody
          /\ disk[next].err = FALSE /\ disk'[next].err = FALSE
      BY <2>3 DEF NoDisk, NewDisk
    <3> QED
      BY <2>2, <3>1
  <2>5. ASSUME NEW d, d = next PROVE Explained(d)'
    BY <1>n, <2>1, <2>3, <2>5 DEF Explained, NewDisk
  <2> QED
    BY <1>s, <1>t, <2>1, <2>2, <2>4, <2>5, SteadyErr
<1>3. ASSUME NEW f \in Images, NEW options \in OptionSets, OpenFile(f, options) PROVE ErrInv'
  <2>1. /\ disk' = [disk EXCEPT ![next] = NewDisk(f, FALSE)] /\ lib' = lib /\ pc' = "link"
        /\ next' = next + 1 /\ held' = held /\ searched' = searched \cup {next}
        /\ op'.root = next
    BY <1>3 DEF OpenFile, NoOp
  <2>2. next <= Slots
    BY <1>3, <1>t, DepthAssumption, SlotsAssumption DEF OpenFile
  <2>3. /\ KeptLinks /\ next \in Slot /\ \A x \in Slot : x # next => disk'[x] = disk[x]
    BY <2>1, <2>2, OpenedWhole
  <2>4. disk[next] = NoDisk /\ disk'[next] = NewDisk(f, FALSE)
    BY <1>t, <2>1, <2>3 DEF DisksOK, TypeOK
  <2>5. \A x \in Slot : disk'[x].parent = disk[x].parent /\ disk'[x].err = disk[x].err
    <3>1. /\ disk[next].parent = Nobody /\ disk'[next].parent = Nobody
          /\ disk[next].err = FALSE /\ disk'[next].err = FALSE
      BY <2>4 DEF NoDisk, NewDisk
    <3> QED
      BY <2>3, <3>1
  <2>6. \A x \in searched' : x < next'
    BY <1>s, <1>t, <2>1
  <2>7. \A d \in held' : d \in held /\ d # next
    BY <1>t, <2>1 DEF DisksOK
  <2>8. op'.root \in searched' /\ ~disk'[op'.root].err
    BY <2>1, <2>4 DEF NewDisk
  <2> QED
    BY <1>t, <2>1, <2>3, <2>5, <2>6, <2>7, <2>8, SteadyErr
<1>4. CASE ChainDone
  <2>1. /\ disk' = disk /\ lib' = lib /\ pc = "link" /\ pc' = "idle" /\ next' = next
        /\ held' = held \cup {op.root} /\ ~IsDiff(op.cur) /\ searched' = searched
    BY <1>4 DEF ChainDone
  <2>2. KeptLinks
    BY <1>t, <2>1, SameDisksKeepLinks
  <2>3. \A x \in Closes(op.root) : x # op.cur => disk[x].parent # Nobody
    BY <2>1 DEF WholeInv, BuiltOK, Linked, OwnedParent
  <2>4. ~Short(op.root)
    BY <2>1, <2>3 DEF Short
  <2>5. ASSUME NEW d, d = op.root PROVE Explained(d)'
    <3>1. Short(d)' <=> Short(d)
      BY <2>1, <2>2, ShortKept DEF KeptLinks
    <3> QED
      BY <2>1, <2>4, <2>5, <3>1 DEF Explained, ErrInv
  <2> QED
    BY <1>s, <2>1, <2>2, <2>5, SteadyErr
<1>5. CASE ChainTooDeep
  BY <1>5, StopErr DEF ChainTooDeep
<1>6. CASE ParentNotFound
  BY <1>6, StopErr DEF ParentNotFound, Seeking, StopShort
<1>7. ASSUME NEW f \in Images, ParentUnreadable(f) PROVE ErrInv'
  BY <1>7, StopErr DEF ParentUnreadable, Seeking, StopShort
<1>8. ASSUME NEW f \in Images, ParentOpened(f) PROVE ErrInv'
  <2>1. /\ disk' = [disk EXCEPT ![next] = NewDisk(f, TRUE)] /\ lib' = lib /\ Seeking
        /\ next' = next + 1 /\ held' = held /\ searched' = searched /\ pc # "idle"
    BY <1>8 DEF ParentOpened, Seeking
  <2>2. op'.root = op.root /\ op'.cur = op.cur /\ op.root \in Slot /\ op.cur \in Slot
    BY <1>8, <1>t, <2>1 DEF ParentOpened, TypeOK, Opens, Room
  <2>3. next <= Slots
    BY <1>t, <2>1, SlotsAssumption, DepthAssumption DEF Seeking, Room, TypeOK, Opens
  <2>4. /\ KeptLinks /\ next \in Slot /\ \A x \in Slot : x # next => disk'[x] = disk[x]
    BY <2>1, <2>3, OpenedWhole
  <2>5. disk[next] = NoDisk /\ disk'[next] = NewDisk(f, TRUE)
    BY <1>t, <2>1, <2>4 DEF DisksOK, TypeOK
  <2>6. \A x \in Slot : disk'[x].parent = disk[x].parent /\ disk'[x].err = disk[x].err
    <3>1. /\ disk[next].parent = Nobody /\ disk'[next].parent = Nobody
          /\ disk[next].err = FALSE /\ disk'[next].err = FALSE
      BY <2>5 DEF NoDisk, NewDisk
    <3> QED
      BY <2>4, <3>1
  <2>7. op.cur < next
    <3>1. op.root < next /\ op.cur \in Closes(op.root)
      BY <2>1, Zenon DEF HandlesInv, WalkOK
    <3> QED
      BY <1>t, <2>2, <3>1, ChainInUse
  <2>8. IsDiff(op.cur)'
    <3>1. IsDiff(op.cur) /\ op'.cur = op.cur /\ lib' = lib
      BY <2>1, <2>2 DEF Seeking
    <3>2. disk'[op.cur].file = disk[op.cur].file
      BY <2>2, <2>4, <2>7, Zenon DEF KeptLinks
    <3> QED
      BY <3>1, <3>2, Zenon DEF IsDiff
  <2>9. op'.root \in searched' /\ ~disk'[op'.root].err
    BY <2>1, <2>2, <2>6 DEF ErrInv
  <2> QED
    BY <1>s, <1>t, <2>1, <2>4, <2>6, <2>8, <2>9, SteadyErr
<1>9. CASE ParentRejected
  BY <1>9, StopErr DEF ParentRejected, StopShort, ErrInv
<1>10. CASE ParentVerified
  <2>1. /\ disk' = disk /\ lib' = lib /\ pc = "verify" /\ pc' = "attach" /\ next' = next
        /\ held' = held /\ op' = op /\ searched' = searched
    BY <1>10 DEF ParentVerified
  <2> QED
    BY <2>1 DEF ErrInv, Explained, Short, Closes, OwnedEdge, OwnedParent, Along, IsDiff
<1>11. CASE CycleFound
  BY <1>11, StopErr DEF CycleFound, StopShort, ErrInv
<1>12. CASE ParentAttached
  BY <1>12, AttachedErr
<1>13. ASSUME NEW d \in Slot, NEW p \in Slot, HandAttach(d, p) PROVE ErrInv'
  BY <1>13 DEF HandAttach, MayAttach
<1>14. ASSUME NEW d \in Slot, Close(d) PROVE ErrInv'
  <2>1. /\ disk' = Spent(Closes(d)) /\ lib' = lib /\ pc' = "idle" /\ next' = next
        /\ held' = held \ {d} /\ searched' = searched
    BY <1>14 DEF Close
  <2>2. \A x \in Slot : /\ disk'[x].file = disk[x].file /\ disk'[x].parent = disk[x].parent
                        /\ disk'[x].owned = disk[x].owned /\ disk'[x].err = disk[x].err
    BY <1>t, <2>1, SpentKeeps
  <2>3. KeptLinks
    BY <1>t, <2>1, <2>2, SameDisksKeepLinks
  <2> QED
    BY <1>s, <1>t, <2>1, <2>2, <2>3, SteadyErr
<1>15. CASE UNCHANGED vars
  BY <1>15 DEF vars, ErrInv, Explained, Short, Closes, OwnedEdge, OwnedParent, Along, IsDiff
<1> QED
  BY <1>1, <1>2, <1>3, <1>4, <1>5, <1>6, <1>7, <1>8, <1>9, <1>10, <1>11, <1>12, <1>13, <1>14, <1>15
     DEF Next, OpenStep

\* For every library of images and every resolver, as long as the caller attaches
\* no parent by hand: a disk carries a parent error exactly when its parents were
\* looked for and its chain ends short of a disk that needs none.
THEOREM ParentErrorsExplain ==
  ASSUME ByHand = "none"
  PROVE  Spec => []ParentErrExplains
<1>1. TypeInv /\ ErrInv => ParentErrExplains
  <2> SUFFICES ASSUME TypeInv, ErrInv PROVE ParentErrExplains
    OBVIOUS
  <2>1. \A x \in Slot : disk[x].parent \in Slot \cup {Nobody}
    BY DEF TypeInv, TypeOK, Disks
  <2>2. \A x \in Slot : OwnedEdge[x] = disk[x].parent
    BY <2>1 DEF OwnedEdge, OwnedParent, ErrInv
  <2>3. [x \in Slot |-> disk[x].parent] = OwnedEdge
    BY <2>2 DEF OwnedEdge
  <2>4. \A d : Chain(d) = Closes(d)
    BY <2>3 DEF Chain, Closes
  <2> QED
    BY <2>4 DEF ErrInv, Explained, Short, ParentErrExplains, Incomplete
<1>2. Init => ErrInv
  BY DEF Init, ErrInv, NoDisk
<1>3. TypeInv /\ HandlesInv /\ [Next]_vars => HandlesInv'
  BY HandlesStep
<1>4. TypeInv /\ HandlesInv /\ WholeInv /\ [Next]_vars => WholeInv'
  BY WholeStep
<1>5. TypeInv /\ HandlesInv /\ WholeInv /\ ErrInv /\ [Next]_vars => ErrInv'
  BY ErrStep
<1> QED
  BY TypeInit, TypeStep, HandlesInit, WholeInit, <1>1, <1>2, <1>3, <1>4, <1>5, PTL DEF Spec
=============================================================================
