------------------------------- MODULE Device -------------------------------
(***************************************************************************)
(* What a VirtualDisk promises its caller: a flat array of Size bytes of   *)
(* which some are unknown, read by calls that are atomic.  A byte is       *)
(* unknown because no attached image supplies it ("unresolved") or because *)
(* the file that should hold it is cut short ("missing").                  *)
(***************************************************************************)
EXTENDS Integers

CONSTANTS
  Size,       \* virtual size in bytes
  Requests    \* the <<offset, length>> pairs a caller may ask for

VARIABLES
  content,    \* virtual offset -> what the byte there is
  pending,    \* the request being served, or <<>>
  result      \* what the last completed call returned

vars == <<content, pending, result>>

Unknown(c) == c.by \in {"unresolved", "missing"}

ErrorFor(c) == IF c.by = "unresolved" THEN "ErrParentRequired" ELSE "EOF"

Smaller(a, b) == IF a < b THEN a ELSE b

\* How many bytes a request can be given at most, and which of them are unknown.
Wanted(r) == IF r[1] >= Size THEN 0 ELSE Smaller(r[2], Size - r[1])
Gaps(r)   == {v \in r[1]..(r[1] + Wanted(r) - 1) : Unknown(content[v])}

\* A call that meets no unknown byte delivers everything, and reports EOF
\* exactly when it was cut at the end of the device; otherwise it delivers a
\* prefix that stops at or before the first unknown byte and names the reason.
Answers(r, res) ==
  LET gaps == Gaps(r) IN
  /\ IF gaps = {}
       THEN /\ res.n = Wanted(r)
            /\ res.err = IF r[1] >= Size \/ r[2] > Size - r[1] THEN "EOF" ELSE "nil"
       ELSE \E g \in gaps :
              /\ \A h \in gaps : g <= h
              /\ res.n \in 0..(g - r[1])
              /\ res.err = ErrorFor(content[g])
  /\ res.data = [k \in 0..(res.n - 1) |-> content[r[1] + k]]

NoAnswer == [n |-> 0, err |-> "nil", data |-> [k \in {} |-> 0]]

Init == pending = <<>> /\ result = NoAnswer

Call == /\ pending = <<>>
        /\ pending' \in Requests
        /\ result' = NoAnswer
        /\ UNCHANGED content

Reply == /\ pending # <<>>
         /\ pending' = <<>>
         /\ Answers(pending, result')
         /\ UNCHANGED content

\* A call answered at once: nothing to read, or nothing there to read.
CallAndReply == /\ pending = <<>>
                /\ \E r \in Requests : Wanted(r) = 0 /\ Answers(r, result')
                /\ UNCHANGED <<content, pending>>

\* Attaching a parent resolves bytes; it never alters one already known.
Attach == /\ pending = <<>>
          /\ \A v \in 0..(Size - 1) : content[v].by # "unresolved" => content'[v] = content[v]
          /\ UNCHANGED <<pending, result>>

Next == Call \/ Reply \/ CallAndReply \/ Attach

Spec == Init /\ [][Next]_vars
=============================================================================
