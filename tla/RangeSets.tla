------------------------------ MODULE RangeSets ------------------------------
(***************************************************************************)
(* The range arithmetic of package vhdimap.  A range is [at, len].  Where  *)
(* the order of ranges does not matter to the code they are a set; a       *)
(* coalesced set is a sequence: in order, without empty ranges, and no two *)
(* of its ranges overlap or abut.                                          *)
(***************************************************************************)
EXTENDS Integers, Sequences, FiniteSets

End(r)   == r.at + r.len
Bytes(r) == r.at..(End(r) - 1)
AllBytes(rs) == UNION {Bytes(rs[i]) : i \in DOMAIN rs}

\* ByteRange.Intersect: the overlap, if there is one.
Intersect(r, s) ==
  LET start == IF r.at > s.at THEN r.at ELSE s.at
      end   == IF End(r) < End(s) THEN End(r) ELSE End(s)
  IN  IF end <= start THEN {} ELSE {[at |-> start, len |-> end - start]}

\* Mutant: ranges that abut are not joined.
JoinOverlapping(out, r) ==
  LET last == out[Len(out)]
  IN  IF out = <<>> THEN <<r>>
      ELSE IF r.at >= End(last) THEN Append(out, r)
      ELSE IF End(r) > End(last) THEN [out EXCEPT ![Len(out)].len = End(r) - last.at]
      ELSE out

\* The next range in order joins the last one when they overlap or abut.
Join(out, r) ==
  LET last == out[Len(out)]
  IN  IF out = <<>> THEN <<r>>
      ELSE IF r.at > End(last) THEN Append(out, r)
      ELSE IF End(r) > End(last) THEN [out EXCEPT ![Len(out)].len = End(r) - last.at]
      ELSE out

\* sort.Slice: by offset, then by length.
InOrder(r, s) == r.at < s.at \/ (r.at = s.at /\ r.len <= s.len)
First(rs)     == CHOOSE r \in rs : \A s \in rs : InOrder(r, s)
TakeFirst(s)  == [left |-> s.left \ {First(s.left)}, out |-> Join(s.out, First(s.left))]

Coalesce(rs) ==
  LET some == {r \in rs : r.len > 0}
      upTo[k \in 0..Cardinality(some)] ==
        IF k = 0 THEN [left |-> some, out |-> <<>>] ELSE TakeFirst(upTo[k - 1])
  IN  upTo[Cardinality(some)].out

\* Overlap: the parts of r inside a coalesced set, from the first range that
\* ends beyond r's start to the last that starts before its end.
Overlap(rs, r) ==
  IF r.len <= 0 THEN {}
  ELSE UNION {Intersect(rs[i], r) : i \in {j \in DOMAIN rs : End(rs[j]) > r.at /\ rs[j].at < End(r)}}

\* clip: a coalesced set narrowed to one volume.
Clip(rs, span) == UNION {Intersect(rs[i], span) : i \in DOMAIN rs}
=============================================================================
