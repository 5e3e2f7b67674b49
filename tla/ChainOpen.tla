----------------------------- MODULE ChainOpen -----------------------------
(***************************************************************************)
(* Opening a differencing chain, attaching parents by hand, and closing.   *)
(*                                                                         *)
(* OpenFileWith opens one file and resolveChain then walks outwards: ask   *)
(* the resolver for the parent, open it, verify it, reject a cycle, attach *)
(* it, and go on from there.  Every step can fail, and each failure has    *)
(* its own clean-up.  The resolver is any ParentResolver: it may return    *)
(* any file, or none.  A VirtualDisk and the handle it was opened on share *)
(* one slot, taken in order and never reused; a slot whose image does not  *)
(* parse keeps its closed handle and never becomes a disk.                 *)
(***************************************************************************)
EXTENDS Integers, FiniteSets

CONSTANTS
  Images,        \* the image files a caller or a resolver can name
  Libraries,     \* what those files may contain: functions on Images
  MaxChainDepth, \* Options.MaxChainDepth after defaulting
  Slots,         \* how many files may be opened in a behaviour
  OptionSets,    \* the [require, allow] options callers open with
  ByHand,        \* which SetParent calls the caller makes: see HandAttach
  NoId,          \* the zero GUID
  Nobody         \* no disk

ASSUME DepthAssumption == MaxChainDepth \in Nat \ {0}
ASSUME SlotsAssumption == Slots \in Nat \ {0}
ASSUME NobodyAssumption == Nobody \notin 1..Slots
ASSUME OptionsAssumption == OptionSets \subseteq [require : BOOLEAN, allow : BOOLEAN]
ASSUME ByHandAssumption == ByHand \in {"none", "missing", "any"}
ASSUME LibraryAssumption ==
  \A l \in Libraries : \A f \in Images :
    l[f].parses \in BOOLEAN /\ l[f].diff \in BOOLEAN /\ l[f].named \in BOOLEAN

VARIABLES
  lib,        \* file -> [parses, diff, size, link, wants, guid, named]
  next,       \* the next free slot
  handle,     \* slot -> "free", "open", "closed" or "closed twice"
  disk,       \* slot -> the VirtualDisk there
  held,       \* the disks the caller has been given and not closed
  searched,   \* those whose parents were looked for automatically
  byHand,     \* those whose parent the caller attached
  pc, op      \* the open in progress

vars == <<lib, next, handle, disk, held, searched, byHand, pc, op>>

Slot == 1..Slots

\* A disk: its file, whether closer is set, its parent, ownedByChild, and
\* whether parentErr is set.
NoDisk == [file |-> Nobody, closer |-> FALSE, parent |-> Nobody, owned |-> FALSE, err |-> FALSE]
NewDisk(f, owned) == [file |-> f, closer |-> TRUE, parent |-> Nobody, owned |-> owned, err |-> FALSE]

\* An open in progress: the disk being opened, the disk whose parent is being
\* looked for, the candidate, how deep the walk is, the keys met, the options,
\* and how the last open ended.
NoOp == [root |-> Nobody, cur |-> Nobody, cand |-> Nobody, depth |-> 0, seen |-> {},
         require |-> FALSE, allow |-> FALSE, outcome |-> "none"]
Ended(outcome) ==
  [root |-> op.root, cur |-> Nobody, cand |-> Nobody, depth |-> 0, seen |-> {},
   require |-> op.require, allow |-> op.allow, outcome |-> outcome]

IsDiff(d) == lib[disk[d].file].diff

\* chainKey: the path when there is one, else the image's own GUID, else none.
ChainKeys(f) == IF lib[f].named THEN {<<"path", f>>}
                ELSE IF lib[f].guid # NoId THEN {<<"guid", lib[f].guid>>} ELSE {}

\* What is reached from d by following edge, a slot or Nobody for every slot.
Along(edge, d) ==
  {x \in Slot : \A S \in SUBSET Slot :
     d \in S /\ (\A y \in S : edge[y] # Nobody => edge[y] \in S) => x \in S}

\* Close goes on to a disk's parent only when automatic resolution opened it.
OwnedParent(d) == disk[d].parent # Nobody /\ disk[disk[d].parent].owned
OwnedEdge == [x \in Slot |-> IF OwnedParent(x) THEN disk[x].parent ELSE Nobody]
Closes(d) == Along(OwnedEdge, d)

\* Close on every disk of ds: each closes its handle if it still has one.
CloseHandle(h) == IF h = "open" THEN "closed" ELSE "closed twice"
Closing(hs, ds) == [x \in Slot |-> IF x \in ds /\ disk[x].closer THEN CloseHandle(hs[x]) ELSE hs[x]]
Spent(ds) ==
  [x \in Slot |-> IF x \in ds /\ disk[x].closer THEN [disk[x] EXCEPT !.closer = FALSE] ELSE disk[x]]

-----------------------------------------------------------------------------
Init ==
  /\ lib \in Libraries
  /\ next = 1
  /\ handle = [x \in Slot |-> "free"]
  /\ disk = [x \in Slot |-> NoDisk]
  /\ held = {} /\ searched = {} /\ byHand = {}
  /\ pc = "idle" /\ op = NoOp

\* OpenFileWith.  A file that does not parse is closed again at once; otherwise
\* resolution starts, unless the options suppress it.
OpenUnreadable(f) ==
  /\ pc = "idle" /\ next <= Slots /\ ~lib[f].parses
  /\ next' = next + 1
  /\ handle' = [handle EXCEPT ![next] = "closed"]
  /\ op' = [NoOp EXCEPT !.outcome = "unreadable"]
  /\ UNCHANGED <<lib, disk, held, searched, byHand, pc>>

OpenSuppressed(f) ==
  /\ pc = "idle" /\ next <= Slots /\ lib[f].parses
  /\ next' = next + 1
  /\ handle' = [handle EXCEPT ![next] = "open"]
  /\ disk' = [disk EXCEPT ![next] = NewDisk(f, FALSE)]
  /\ held' = held \cup {next}
  /\ op' = [NoOp EXCEPT !.outcome = "suppressed"]
  /\ UNCHANGED <<lib, searched, byHand, pc>>

OpenFile(f, options) ==
  /\ pc = "idle" /\ next + MaxChainDepth <= Slots + 1 /\ lib[f].parses
  /\ next' = next + 1
  /\ handle' = [handle EXCEPT ![next] = "open"]
  /\ disk' = [disk EXCEPT ![next] = NewDisk(f, FALSE)]
  /\ searched' = searched \cup {next}
  /\ pc' = "link"
  /\ op' = [NoOp EXCEPT !.root = next, !.cur = next, !.seen = ChainKeys(f),
                        !.require = options.require, !.allow = options.allow]
  /\ UNCHANGED <<lib, held, byHand>>

\* The walk reaches a disk that has no parent: the caller gets the chain.
ChainDone ==
  /\ pc = "link" /\ ~IsDiff(op.cur)
  /\ held' = held \cup {op.root}
  /\ pc' = "idle"
  /\ op' = Ended("complete")
  /\ UNCHANGED <<lib, next, handle, disk, searched, byHand>>

\* A failed open closes the chain built so far and the rejected disks.
Abandon(hs, rejected) ==
  /\ handle' = Closing(hs, Closes(op.root) \cup rejected)
  /\ disk' = Spent(Closes(op.root) \cup rejected)
  /\ op' = Ended("error")
  /\ UNCHANGED held

\* Mutant: the error is kept by the last disk reached, not by the root.
KeepShortErrOnLast(hs, rejected) ==
  /\ handle' = Closing(hs, rejected)
  /\ disk' = [Spent(rejected) EXCEPT ![op.cur].err = TRUE]
  /\ op' = Ended("stopped")
  /\ held' = held \cup {op.root}

\* A best-effort open closes the rejected disks and keeps what it has.
KeepShort(hs, rejected) ==
  /\ handle' = Closing(hs, rejected)
  /\ disk' = [Spent(rejected) EXCEPT ![op.root].err = TRUE]
  /\ op' = Ended("stopped")
  /\ held' = held \cup {op.root}

StopShort(hs, rejected) ==
  /\ IF op.require THEN Abandon(hs, rejected) ELSE KeepShort(hs, rejected)
  /\ pc' = "idle"
  /\ UNCHANGED <<lib, searched, byHand>>

\* Mutant: the depth limit is counted without the root.
SeekingOneDeeper == pc = "link" /\ IsDiff(op.cur) /\ op.depth + 1 <= MaxChainDepth

\* The walk has more to find and may go one disk further.
Seeking == pc = "link" /\ IsDiff(op.cur) /\ op.depth + 2 <= MaxChainDepth

\* Mutant: the limit is noticed one disk too late.
ChainTooDeepLate ==
  /\ pc = "link" /\ IsDiff(op.cur) /\ op.depth + 2 > MaxChainDepth + 1
  /\ Abandon(handle, {})
  /\ pc' = "idle"
  /\ UNCHANGED <<lib, next, searched, byHand>>

\* A chain that is too long fails the open whatever the options say.
ChainTooDeep ==
  /\ pc = "link" /\ IsDiff(op.cur) /\ op.depth + 2 > MaxChainDepth
  /\ Abandon(handle, {})
  /\ pc' = "idle"
  /\ UNCHANGED <<lib, next, searched, byHand>>

\* The resolver fails, or returns a source with neither reader nor handle.
ParentNotFound ==
  /\ Seeking
  /\ StopShort(handle, {})
  /\ UNCHANGED next

\* The resolver returns an open source whose image does not parse: closed again.
ParentUnreadable(f) ==
  /\ Seeking /\ ~lib[f].parses
  /\ next' = next + 1
  /\ StopShort([handle EXCEPT ![next] = "closed"], {})

\* The resolver returns an open source and the image parses: a candidate.
ParentOpened(f) ==
  /\ Seeking /\ lib[f].parses
  /\ next' = next + 1
  /\ handle' = [handle EXCEPT ![next] = "open"]
  /\ disk' = [disk EXCEPT ![next] = NewDisk(f, TRUE)]
  /\ pc' = "verify"
  /\ op' = [op EXCEPT !.cand = next]
  /\ UNCHANGED <<lib, held, searched, byHand>>

\* Mutant: any image of the right size is a parent.
AcceptableBySize(child, parent, allow) == lib[parent].size = lib[child].size

\* verifyParent: sizes must agree, and so must identities unless the options
\* waive that or the child records none.
Acceptable(child, parent, allow) ==
  /\ lib[parent].size = lib[child].size
  /\ allow \/ lib[child].wants = NoId \/ lib[parent].link = lib[child].wants

\* Mutant: a rejected parent's source is closed besides the disk made of it.
ParentRejectedSourceToo ==
  /\ pc = "verify"
  /\ ~Acceptable(disk[op.cur].file, disk[op.cand].file, op.allow)
  /\ StopShort([handle EXCEPT ![op.cand] = CloseHandle(@)], {op.cand})
  /\ UNCHANGED next

ParentRejected ==
  /\ pc = "verify"
  /\ ~Acceptable(disk[op.cur].file, disk[op.cand].file, op.allow)
  /\ StopShort(handle, {op.cand})
  /\ UNCHANGED next

ParentVerified ==
  /\ pc = "verify"
  /\ Acceptable(disk[op.cur].file, disk[op.cand].file, op.allow)
  /\ pc' = "attach"
  /\ UNCHANGED <<lib, next, handle, disk, held, searched, byHand, op>>

\* Mutant: the disk that closes a cycle stays open.
CycleFoundLeftOpen ==
  /\ pc = "attach"
  /\ ChainKeys(disk[op.cand].file) \cap op.seen # {}
  /\ StopShort(handle, {})
  /\ UNCHANGED next

\* A disk already in the chain, by its key, is a cycle.
CycleFound ==
  /\ pc = "attach"
  /\ ChainKeys(disk[op.cand].file) \cap op.seen # {}
  /\ StopShort(handle, {op.cand})
  /\ UNCHANGED next

\* Mutant: an attached parent is not remembered as seen.
ParentAttachedForgotten ==
  /\ pc = "attach"
  /\ ChainKeys(disk[op.cand].file) \cap op.seen = {}
  /\ disk' = [disk EXCEPT ![op.cur].parent = op.cand]
  /\ pc' = "link"
  /\ op' = [op EXCEPT !.cur = op.cand, !.cand = Nobody, !.depth = op.depth + 1]
  /\ UNCHANGED <<lib, next, handle, held, searched, byHand>>

ParentAttached ==
  /\ pc = "attach"
  /\ ChainKeys(disk[op.cand].file) \cap op.seen = {}
  /\ disk' = [disk EXCEPT ![op.cur].parent = op.cand]
  /\ pc' = "link"
  /\ op' = [op EXCEPT !.cur = op.cand, !.cand = Nobody, !.depth = op.depth + 1,
                      !.seen = op.seen \cup ChainKeys(disk[op.cand].file)]
  /\ UNCHANGED <<lib, next, handle, held, searched, byHand>>

OpenStep ==
  \/ ChainDone \/ ChainTooDeep \/ ParentNotFound
  \/ \E f \in Images : ParentUnreadable(f) \/ ParentOpened(f)
  \/ ParentRejected \/ ParentVerified
  \/ CycleFound \/ ParentAttached

-----------------------------------------------------------------------------
(* The caller, once disks are open.                                         *)

\* The disks a caller can name: those it holds and, through Parent(), theirs.
Named == UNION {Closes(d) : d \in held}

\* The chain a disk reads through, whoever attached it.
Chain(d) == Along([x \in Slot |-> disk[x].parent], d)

\* SetParent by hand.  A caller who follows the documentation ("missing")
\* supplies only a parent that is missing, with a disk it opened for that and
\* that does not lead back; another ("any") may also replace a parent, or lend
\* a disk that automatic resolution opened for a different one.
MayAttach(d, p) ==
  \/ ByHand = "missing" /\ d \in Named /\ disk[d].parent = Nobody /\ p \in held /\ d \notin Chain(p)
  \/ ByHand = "any" /\ d \in held /\ p \in Named

HandAttach(d, p) ==
  /\ pc = "idle" /\ d # p
  /\ MayAttach(d, p)
  /\ IsDiff(d)
  /\ lib[disk[p].file].size = lib[disk[d].file].size
  /\ disk' = [disk EXCEPT ![d].parent = p]
  /\ byHand' = byHand \cup {d}
  /\ UNCHANGED <<lib, next, handle, held, searched, pc, op>>

\* Mutant: every parent is closed, whoever attached it.
CloseWholeChain(d) ==
  /\ pc = "idle" /\ d \in held
  /\ handle' = Closing(handle, Chain(d))
  /\ disk' = Spent(Chain(d))
  /\ held' = held \ {d}
  /\ UNCHANGED <<lib, next, searched, byHand, pc, op>>

Close(d) ==
  /\ pc = "idle" /\ d \in held
  /\ handle' = Closing(handle, Closes(d))
  /\ disk' = Spent(Closes(d))
  /\ held' = held \ {d}
  /\ UNCHANGED <<lib, next, searched, byHand, pc, op>>

Next ==
  \/ \E f \in Images : OpenUnreadable(f) \/ OpenSuppressed(f)
  \/ \E f \in Images, options \in OptionSets : OpenFile(f, options)
  \/ OpenStep
  \/ \E d, p \in Slot : HandAttach(d, p)
  \/ \E d \in Slot : Close(d)

Spec == Init /\ [][Next]_vars

\* An open runs in its caller's goroutine, and the resolver it calls returns.
FairSpec == Spec /\ WF_vars(OpenStep)

-----------------------------------------------------------------------------
HandleStates == {"free", "open", "closed", "closed twice"}
Disks == [file : Images \cup {Nobody}, closer : BOOLEAN, parent : Slot \cup {Nobody},
          owned : BOOLEAN, err : BOOLEAN]
AllKeys == UNION {ChainKeys(f) : f \in Images}
Opens == [root : Slot \cup {Nobody}, cur : Slot \cup {Nobody}, cand : Slot \cup {Nobody},
          depth : 0..MaxChainDepth, seen : SUBSET AllKeys, require : BOOLEAN, allow : BOOLEAN,
          outcome : {"none", "unreadable", "suppressed", "complete", "error", "stopped"}]

TypeOK ==
  /\ lib \in Libraries
  /\ next \in 1..(Slots + 1)
  /\ handle \in [Slot -> HandleStates]
  /\ disk \in [Slot -> Disks]
  /\ held \subseteq Slot /\ searched \subseteq Slot /\ byHand \subseteq Slot
  /\ pc \in {"idle", "link", "verify", "attach"}
  /\ op \in Opens

\* What is in use: the disks the caller holds with the parents that were opened
\* for them, and everything an open in progress has opened.
InUse == Named \cup (IF pc = "idle" THEN {} ELSE Closes(op.root) \cup ({op.cand} \ {Nobody}))

\* A file handle is open exactly as long as something in use needs it: no
\* failure path, hand-attached parent or Close leaks a handle, and none closes
\* a handle under another disk that is still held.
HandlesFollowUse == {x \in Slot : handle[x] = "open"} = InUse

\* No handle is closed twice, however failures and Close calls overlap.
ClosedAtMostOnce == \A x \in Slot : handle[x] # "closed twice"

\* An open that reports a complete chain delivers one: it ends at a disk that
\* needs no parent, every link was held to the identity the child records
\* unless the options waive it, and it is no deeper than MaxChainDepth.
CompleteMeansWhole ==
  op.outcome = "complete" =>
    /\ Cardinality(Closes(op.root)) <= MaxChainDepth
    /\ \A x \in Closes(op.root) : IsDiff(x) =>
         LET child == lib[disk[x].file]
             parent == lib[disk[disk[x].parent].file]
         IN  /\ OwnedParent(x)
             /\ child.size = parent.size
             /\ ~op.allow /\ child.wants # NoId => parent.link = child.wants

\* A chain built automatically never holds the same named file twice.
NoFileTwice ==
  \A d \in held \cup ({op.root} \ {Nobody}) : \A x, y \in Closes(d) :
    x # y /\ disk[x].file = disk[y].file => ~lib[disk[x].file].named

\* ParentResolveError is set exactly on the disks whose parents were looked for
\* and whose chain is not complete (reader.go, ParentResolveError).
Incomplete(d) == \E x \in Chain(d) : IsDiff(x) /\ disk[x].parent = Nobody
ParentErrExplains ==
  \A d \in held : disk[d].err <=> d \in searched /\ Incomplete(d)

\* Without RequireParentChain a chain that cannot be completed still opens
\* (open.go, Open): only an image that does not parse fails.
BestEffortOpens == op.outcome = "error" => op.require

\* A parent attached by hand is left alone by its child's Close (reader.go, Close).
HandAttachedLeftAlone ==
  [][\A d \in byHand : d \in held /\ d \notin held' =>
       handle'[disk[d].parent] = handle[disk[d].parent]]_vars

\* When the caller has closed everything it was given, nothing is left open.
NothingLeaks == pc = "idle" /\ held = {} => \A x \in Slot : handle[x] # "open"

\* Every open returns: whatever the resolver answers, the walk ends.
OpenReturns == pc # "idle" ~> pc = "idle"
=============================================================================
