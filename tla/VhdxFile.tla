------------------------------ MODULE VhdxFile ------------------------------
(***************************************************************************)
(* A VHDX file under a writer that may lose power at any moment, and what  *)
(* OpenVHDX and Probe make of it then.  The library only ever reads, so an *)
(* open is an operator of the bytes on disk: hdr, ring and file.  The      *)
(* writer is not part of the library; its actions are the protocol the     *)
(* reader's checks rely on: an entry is journalled before the file is      *)
(* touched, the tail recorded by the newest entry is never overwritten,    *)
(* the header names a log only once an entry of it is complete, and the    *)
(* header not in use is the one rewritten.                                 *)
(***************************************************************************)
EXTENDS VhdxLog

CONSTANTS
  Transactions,   \* sequences of [kind, at, len]: what the writer may log at once
  Requests,       \* the <<offset, length>> pairs, in bytes, a reader may ask for
  MaxSeq,         \* bound: entries of one log
  MaxLogs         \* bound: how many times a writer starts a log

ASSUME BoundsAssumption == MaxSeq \in Nat \ {0} /\ MaxLogs \in Nat
ASSUME TransactionsAssumption ==
  \A t \in Transactions :
    /\ t \in Seq([kind : {"desc", "zero"}, at : Sectors, len : Nat])
    /\ \A i \in DOMAIN t : t[i].kind = "zero" => t[i].at + t[i].len <= FileSize
ASSUME RequestsAssumption ==
  \A r \in Requests : r[1] \in Nat /\ r[2] \in Nat /\ r[1] + r[2] <= 2 * FileSize

VARIABLES
  hdr,            \* copy 1 and 2 of the image header: [ok, seq, guid]
  ring,           \* the log region
  file,           \* the sectors of the file the log can reach
  w,              \* the writer
  committed       \* history: the file as of the last complete log entry

vars == <<hdr, ring, file, w, committed>>

-----------------------------------------------------------------------------
(* The reader.                                                              *)

\* Mutant: the first header is preferred whenever it can be read.
CurrentHeaderFirst(h) == IF h[1].ok THEN 1 ELSE 2

\* ReadImageHeader: of two readable copies the later one, else the readable one.
CurrentHeader(h) ==
  IF h[1].ok /\ (h[2].ok => h[1].seq >= h[2].seq) THEN 1 ELSE 2
Readable(h) == h[1].ok \/ h[2].ok

\* Mutant: a log that cannot be replayed is passed over silently.
OpenVHDXUnchecked(h, r, allowDirty) ==
  LET guid == h[CurrentHeader(h)].guid
  IN  [ok |-> TRUE, over |-> IF guid = NoGuid THEN Nothing ELSE Replay(r, <<Newest(r, guid)>>)]

\* openVHDX up to the log: what every later parse and read is layered over.
OpenVHDX(h, r, allowDirty) ==
  LET guid   == h[CurrentHeader(h)].guid
      replay == Analyze(r, guid)
  IN  IF ~Readable(h) THEN Refused
      ELSE IF guid = NoGuid THEN [ok |-> TRUE, over |-> Nothing]
      ELSE IF replay.ok THEN replay
      ELSE [ok |-> allowDirty, over |-> Nothing]

Opened == OpenVHDX(hdr, ring, FALSE)
Viewed(over) == [s \in Sectors |-> IF s \in DOMAIN over THEN over[s] ELSE file[s]]
View   == Viewed(Opened.over)

\* The sector the metadata region is in.  An open parses it through the
\* overlay, a probe from the file, saying only that there is a log.
Metadata == 0
ProbeVHDX == [ok |-> Readable(hdr), meta |-> file[Metadata],
              hasLog |-> hdr[CurrentHeader(hdr)].guid # NoGuid]

-----------------------------------------------------------------------------
(* The writer.                                                              *)

\* The file after a transaction that writes the value q.
Written(q, d) == IF d.kind = "zero" THEN Zeroes ELSE <<q, q>>
Effect(f, t, q) ==
  LET hits(s) == {i \in DOMAIN t : s \in Target(t[i])}
      last(s) == t[CHOOSE i \in hits(s) : \A j \in hits(s) : j <= i]
  IN  [s \in DOMAIN f \cup UNION {Target(t[i]) : i \in DOMAIN t} |->
         IF hits(s) = {} THEN f[s] ELSE Written(q, last(s))]

\* The sectors of an entry for transaction t with number q, before checksumming.
EntryLen(t) == HeadSectors(Len(t)) + DataIndex(t, Len(t) + 1)
Value(seq, log) == (log - 1) * MaxSeq + seq
Body(t, q, v) == [k \in 1..(EntryLen(t) - 1) |->
  [sig |-> IF k < HeadSectors(Len(t)) THEN "more" ELSE "data", seq |-> q, rest |-> v]]
Descriptors(t, q, v) ==
  [i \in 1..Len(t) |-> [kind |-> t[i].kind, at |-> t[i].at, len |-> t[i].len, seq |-> q, lead |-> v]]
Entry(t, q, guid, tail) ==
  LET body == Body(t, q, Value(q, guid))
  IN  <<[sig |-> "loge", guid |-> guid, seq |-> q, tail |-> tail, len |-> EntryLen(t),
         descs |-> Descriptors(t, q, Value(q, guid)), body |-> body]>> \o body

\* The log sectors still to be written for the entry that starts at the head.
ToWrite(t, q, guid, head, tail) ==
  {<<(head + k - 1) % RingSize, Entry(t, q, guid, tail)[k]>> : k \in 1..EntryLen(t)}

\* A writer that is not there: only the place, number and log it came to remain.
NoWriter(head, seq, logs) ==
  [pc |-> "off", todo |-> {}, trans |-> <<>>, dirty |-> Nothing, used |-> 0, pend |-> 0,
   guid |-> NoGuid, head |-> head, seq |-> seq, logs |-> logs]

Init ==
  /\ hdr \in {<<[ok |-> b, seq |-> 1, guid |-> NoGuid], [ok |-> TRUE, seq |-> 2, guid |-> NoGuid]>> : b \in BOOLEAN}
  /\ ring = [k \in Ring |-> [sig |-> "none"]]
  /\ file \in {[s \in Sectors |-> Zeroes], [s \in Sectors |-> IF s = FileSize - 1 THEN Absent ELSE Zeroes]}
  /\ w = NoWriter(0, 1, 0)
  /\ committed = file

\* A writer starts a log, with a GUID of its own and sequence numbers from 1, by
\* an empty entry; only then may the header name it.
StartLog ==
  /\ w.pc = "off" /\ Readable(hdr)
  /\ hdr[CurrentHeader(hdr)].guid = NoGuid
  /\ w.logs < MaxLogs
  /\ w' = [w EXCEPT !.pc = "starting", !.logs = @ + 1, !.guid = w.logs + 1, !.seq = 1,
                    !.todo = ToWrite(<<>>, 1, w.logs + 1, w.head, w.head),
                    !.trans = <<>>, !.used = 1, !.pend = 0]
  /\ UNCHANGED <<hdr, ring, file, committed>>

\* A transaction is journalled at the head, in the room the recorded tail leaves.
Log(t) ==
  /\ w.pc = "ready" /\ w.seq <= MaxSeq
  /\ EntryLen(t) <= RingSize - w.used
  /\ w' = [w EXCEPT !.pc = "logging", !.trans = t,
                    !.todo = ToWrite(t, w.seq, w.guid, w.head, (w.head + RingSize - w.pend) % RingSize),
                    !.used = w.pend + EntryLen(t), !.pend = w.pend + EntryLen(t)]
  /\ UNCHANGED <<hdr, ring, file, committed>>

\* One sector of the entry reaches the disk, in any order; the last one commits.
WriteLogSector ==
  \E x \in w.todo :
    LET done == w.todo = {x} IN
    /\ ring' = [ring EXCEPT ![x[1]] = x[2]]
    /\ committed' = IF done THEN Effect(committed, w.trans, Value(w.seq, w.guid)) ELSE committed
    /\ w' = [w EXCEPT !.todo = @ \ {x},
                      !.pc = IF ~done THEN @ ELSE IF @ = "starting" THEN "sealing" ELSE "ready",
                      !.head = IF done THEN (@ + EntryLen(w.trans)) % RingSize ELSE @,
                      !.seq = IF done THEN @ + 1 ELSE @,
                      !.dirty = IF done THEN Effect(@, w.trans, Value(w.seq, w.guid)) ELSE @]
    /\ UNCHANGED <<hdr, file>>

\* A journalled sector reaches its place, in any order.  When none is left the
\* next entry may record a tail of its own.
ApplySector ==
  /\ w.pc \in {"ready", "replaying"}
  /\ \E s \in DOMAIN w.dirty :
       LET rest == DOMAIN w.dirty \ {s} IN
       /\ file' = [file EXCEPT ![s] = w.dirty[s]]
       /\ w' = [w EXCEPT !.dirty = [u \in rest |-> w.dirty[u]],
                         !.pend = IF rest = {} THEN 0 ELSE @]
  /\ UNCHANGED <<hdr, ring, committed>>

\* With everything in place the header lets go of the log.
Close ==
  /\ w.pc \in {"ready", "replaying"} /\ w.dirty = Nothing
  /\ w' = [w EXCEPT !.pc = "sealing", !.guid = NoGuid]
  /\ UNCHANGED <<hdr, ring, file, committed>>

\* The header not in use is rewritten: torn at first, then complete.
TearHeader ==
  /\ w.pc = "sealing"
  /\ hdr' = [hdr EXCEPT ![3 - CurrentHeader(hdr)].ok = FALSE]
  /\ w' = [w EXCEPT !.pc = "header"]
  /\ UNCHANGED <<ring, file, committed>>
WriteHeader ==
  /\ w.pc = "header"
  /\ LET c == CurrentHeader(hdr) IN
     hdr' = [hdr EXCEPT ![3 - c] = [ok |-> TRUE, seq |-> hdr[c].seq + 1, guid |-> w.guid]]
  /\ w' = IF w.guid # NoGuid THEN [w EXCEPT !.pc = "ready"]
          ELSE NoWriter(w.head, w.seq, w.logs)
  /\ UNCHANGED <<ring, file, committed>>

\* Power is lost: what the writer held in memory is gone.
PowerCut ==
  /\ w.pc # "off"
  /\ w' = NoWriter(w.head, w.seq, w.logs)
  /\ UNCHANGED <<hdr, ring, file, committed>>

\* The next writer replays the log it finds before anything else.
Recover ==
  /\ w.pc = "off"
  /\ hdr[CurrentHeader(hdr)].guid # NoGuid
  /\ Opened.ok
  /\ w' = [w EXCEPT !.pc = "replaying", !.dirty = Opened.over]
  /\ UNCHANGED <<hdr, ring, file, committed>>

Next ==
  \/ StartLog \/ WriteLogSector \/ ApplySector \/ Close
  \/ \E t \in Transactions : Log(t)
  \/ TearHeader \/ WriteHeader
  \/ PowerCut \/ Recover

Spec == Init /\ [][Next]_vars
-----------------------------------------------------------------------------
Words == -1..(MaxSeq * MaxLogs)
SectorValues == Words \X Words

\* The type of every variable.
TypeOK ==
  /\ hdr \in [1..2 -> [ok : BOOLEAN, seq : Nat \ {0}, guid : 0..MaxLogs]]
  /\ \A k \in Ring : ring[k].sig \in {"none", "more", "data", "loge"}
  /\ file \in [Sectors -> SectorValues] /\ committed \in [Sectors -> SectorValues]
  /\ w.pc \in {"off", "starting", "logging", "ready", "replaying", "sealing", "header"}
  /\ w.head \in Ring /\ w.used \in 0..RingSize /\ w.pend \in 0..w.used
  /\ DOMAIN w.dirty \subseteq Sectors

\* Whatever the writer was doing when the power went, the image opens, and the
\* view through the overlay is the file as of the last complete log entry: no
\* half-written entry is applied, no entry of an earlier log, none out of order
\* and none that was applied in the past (vhdxlog.go: a partial transaction is
\* refused rather than half-applied).
OpenPresentsCommitted == LET o == Opened IN o.ok /\ Viewed(o.over) = committed

\* A read through the overlay returns a prefix of the committed bytes, and stops
\* only at a byte that is in neither the file nor the log, as when the log
\* describes sectors beyond the end of the file (overlayReader.ReadAt).
ReadsThroughOverlay ==
  LET over == Opened.over IN
  \A r \in Requests :
    LET got == OverlayRead(file, over, r[1], r[2])
        byte(b) == ByteOf(committed[b \div 2], b)
    IN  /\ \A k \in 0..(got.n - 1) : got.data[k] = byte(r[1] + k)
        /\ got.n < r[2] <=> got.err = "EOF"
        /\ got.n < r[2] => byte(r[1] + got.n) = -1

\* A probe does not replay the log, because replay "cannot change any field this
\* returns" (probe.go, probeVHDX): what it reports is what an open would see.
ProbeAgreesWithOpen == ProbeVHDX.ok /\ Opened.ok => ProbeVHDX.meta = View[Metadata]
=============================================================================
