-------------------------- MODULE DiskCompareProofs -------------------------
(***************************************************************************)
(* Proofs about the comparison of a disk with its checkpoint, for every    *)
(* disk, grain, journal and set of slots, every sequence of operations of  *)
(* the guest and every case Compare is called in.                          *)
(*                                                                         *)
(* The invariant GuestInv is about the guest and not about the code: it    *)
(* says what is so of the two states a comparison is given, that every     *)
(* volume is sound, that what a file was marked as written in lies in      *)
(* units written, that a slot whose counter has not moved holds the file   *)
(* it held, and that a journal record names the file its slot held; and    *)
(* that a document is what Compare makes of the two states as they are.    *)
(* The rest follows Compare down and up again: range arithmetic, the runs  *)
(* of a map, the walk, the extents and the identities of each filesystem,  *)
(* the changes two inventories give, the cut, the corroboration, the       *)
(* volumes a disk has, and the document (Told).                            *)
(***************************************************************************)
EXTENDS DiskCompare, IndexLemmas, FiniteSetTheorems, SequenceTheorems

-----------------------------------------------------------------------------
(* The range arithmetic.                                                    *)

Ranges    == [at : Nat, len : Nat]
SomeRange == [at : Nat, len : Nat \ {0}]
BytesOf(rs) == UNION {Bytes(r) : r \in rs}

\* A range of natural numbers lies among the natural numbers.
LEMMA BytesBounds ==
  ASSUME NEW r \in Ranges
  PROVE  /\ End(r) \in Nat /\ Bytes(r) \subseteq Nat
         /\ \A b : b \in Bytes(r) <=> b \in Nat /\ r.at <= b /\ b < r.at + r.len
BY DEF Ranges, End, Bytes

\* The overlap of two ranges has the bytes of both.
LEMMA IntersectBytes ==
  ASSUME NEW r \in Ranges, NEW s \in Ranges
  PROVE  /\ Intersect(r, s) \subseteq SomeRange
         /\ BytesOf(Intersect(r, s)) = Bytes(r) \cap Bytes(s)
<1> DEFINE start == IF r.at > s.at THEN r.at ELSE s.at
           end   == IF End(r) < End(s) THEN End(r) ELSE End(s)
           t     == [at |-> start, len |-> end - start]
<1>1. r.at \in Nat /\ r.len \in Nat /\ s.at \in Nat /\ s.len \in Nat
  BY DEF Ranges
<1>2. Intersect(r, s) = IF end <= start THEN {} ELSE {t}
  BY DEF Intersect
<1>3. start \in Nat /\ end \in Nat /\ \A b \in Nat : (start <= b /\ b < end) <=> (b \in Bytes(r) /\ b \in Bytes(s))
  BY <1>1 DEF End, Bytes
<1>4. Bytes(r) \subseteq Nat
  BY BytesBounds
<1>5. CASE end <= start
  <2>1. BytesOf(Intersect(r, s)) = {}
    BY <1>2, <1>5 DEF BytesOf
  <2>2. \A b \in Nat : ~(start <= b /\ b < end)
    <3> HIDE DEF start, end
    <3> QED
      BY <1>3, <1>5
  <2> QED
    BY <1>2, <1>3, <1>4, <1>5, <2>1, <2>2
<1>6. CASE ~(end <= start)
  <2> HIDE DEF start, end
  <2>1. t \in SomeRange /\ t.at = start /\ t.len = end - start
    BY <1>3, <1>6 DEF SomeRange
  <2> HIDE DEF t
  <2>2. Bytes(t) = start..(end - 1)
    BY <2>1, <1>3 DEF Bytes, End
  <2>3. BytesOf(Intersect(r, s)) = Bytes(t)
    BY <1>2, <1>6 DEF BytesOf
  <2>4. \A b \in Bytes(t) : b \in Nat /\ start <= b /\ b < end
    BY <2>2, <1>3
  <2>5. \A b \in Nat : start <= b /\ b < end => b \in Bytes(t)
    BY <2>2, <1>3
  <2>6. Bytes(t) = Bytes(r) \cap Bytes(s)
    BY <1>3, <1>4, <2>4, <2>5
  <2> QED
    BY <1>2, <1>6, <2>1, <2>3, <2>6
<1> QED
  BY <1>5, <1>6

\* A set of ranges has a first one.
LEMMA FirstOf ==
  ASSUME NEW rs \in SUBSET Ranges, rs # {}
  PROVE  First(rs) \in rs /\ \A s \in rs : InOrder(First(rs), s)
<1> DEFINE ats == {r.at : r \in rs}
<1>1. ats \subseteq Nat /\ ats # {}
  BY DEF Ranges
<1>2. PICK a \in ats : \A n \in ats : a <= n
  <2> HIDE DEF ats
  <2> QED
    BY <1>1, LeastExists
<1> DEFINE lens == {r.len : r \in {q \in rs : q.at = a}}
<1>3. lens \subseteq Nat /\ lens # {}
  BY DEF Ranges
<1>4. PICK l \in lens : \A n \in lens : l <= n
  <2> HIDE DEF lens
  <2> QED
    BY <1>3, LeastExists
<1>5. PICK r \in rs : r.at = a /\ r.len = l
  OBVIOUS
<1>6. ASSUME NEW s \in rs PROVE InOrder(r, s)
  <2>1. a <= s.at /\ (s.at = a => l <= s.len)
    BY <1>2, <1>4
  <2>2. s.at \in Nat /\ r.at \in Nat
    BY DEF Ranges
  <2> QED
    BY <1>5, <2>1, <2>2 DEF InOrder
<1> QED
  BY <1>6 DEF First

\* Joining a range to those before it keeps the normal form and adds its bytes.
LEMMA JoinKeeps ==
  ASSUME NEW out \in Seq(SomeRange), Normal(out), NEW r \in SomeRange,
         out # <<>> => out[Len(out)].at <= r.at
  PROVE  LET j == Join(out, r)
         IN  /\ j \in Seq(SomeRange) /\ j # <<>> /\ Normal(j)
             /\ j[Len(j)].at <= r.at
             /\ AllBytes(j) = AllBytes(out) \cup Bytes(r)
<1> DEFINE n == Len(out)
           j == Join(out, r)
           last == out[n]
<1>1. /\ n \in Nat /\ DOMAIN out = 1..n
      /\ \A k \in 1..n : out[k] \in SomeRange
      /\ out # <<>> => n > 0
  OBVIOUS
<1>2. CASE out = <<>> \/ r.at > End(last)
  <2>1. j = Append(out, r)
    BY <1>2 DEF Join
  <2> HIDE DEF j
  <2>2. /\ j \in Seq(SomeRange) /\ Len(j) = n + 1 /\ j[n + 1] = r
        /\ \A k \in 1..n : j[k] = out[k]
    BY <2>1
  <2>3. DOMAIN j = 1..(n + 1)
    BY <2>2
  <2>4. Normal(j)
    <3> SUFFICES ASSUME NEW k \in 1..(n + 1)
                 PROVE  j[k].len > 0 /\ (k > 1 => End(j[k - 1]) < j[k].at)
      BY <2>3 DEF Normal
    <3>1. CASE k = n + 1
      <4>1. r.len > 0 /\ r.at \in Nat
        BY DEF SomeRange
      <4>2. CASE k > 1
        <5>1. out # <<>> /\ n >= 1 /\ j[k - 1] = last
          BY <1>1, <2>2, <3>1, <4>2
        <5>2. End(last) \in Nat /\ End(last) < r.at
          BY <1>1, <1>2, <4>1, <5>1 DEF End, SomeRange
        <5> QED
          BY <2>2, <3>1, <4>1, <5>1, <5>2
      <4> QED
        BY <2>2, <3>1, <4>1, <4>2
    <3>2. CASE k # n + 1
      <4>1. k \in 1..n /\ (k > 1 => k - 1 \in 1..n)
        BY <1>1, <3>2
      <4> QED
        BY <1>1, <2>2, <4>1 DEF Normal
    <3> QED
      BY <3>1, <3>2
  <2>5. AllBytes(j) = AllBytes(out) \cup Bytes(r)
    <3>1. \A k \in DOMAIN j : k \in DOMAIN out \/ k = n + 1
      BY <1>1, <2>3
    <3>2. \A k \in DOMAIN out : k \in DOMAIN j
      BY <1>1, <2>3
    <3>3. n + 1 \in DOMAIN j
      BY <1>1, <2>3
    <3> QED
      BY <1>1, <2>2, <3>1, <3>2, <3>3 DEF AllBytes
  <2>6. r.at <= r.at
    BY DEF SomeRange
  <2>7. j # <<>> /\ j[Len(j)].at <= r.at
    BY <1>1, <2>2, <2>6
  <2> QED
    BY <2>2, <2>4, <2>5, <2>7 DEF j
<1>3. CASE out # <<>> /\ ~(r.at > End(last))
  <2>0. /\ n >= 1 /\ n \in 1..n /\ last \in SomeRange
        /\ last.at \in Nat /\ last.len \in Nat \ {0} /\ r.at \in Nat /\ r.len \in Nat \ {0}
    BY <1>1, <1>3 DEF SomeRange
  <2>a. /\ last.at <= r.at /\ r.at <= last.at + last.len
        /\ End(last) = last.at + last.len /\ End(r) = r.at + r.len
    BY <1>3, <2>0 DEF End
  <2>1. CASE End(r) > End(last)
    <3> DEFINE grown == End(r) - last.at
               new   == [at |-> last.at, len |-> grown]
    <3>1. j = [out EXCEPT ![n].len = grown]
      BY <1>3, <2>1 DEF Join
    <3>2. grown \in Nat \ {0}
      BY <2>0, <2>a, <2>1
    <3>3. new \in SomeRange /\ new.at = last.at /\ new.len = grown
      BY <2>0, <3>2 DEF SomeRange
    <3>4. [last EXCEPT !.len = grown] = new
      <4> HIDE DEF grown, last
      <4> QED
        BY <2>0 DEF SomeRange
    <3>5. j = [out EXCEPT ![n] = new]
      BY <3>1, <3>4
    <3> HIDE DEF j, new
    <3>6. /\ j \in Seq(SomeRange) /\ Len(j) = n /\ j[n] = new
          /\ \A k \in 1..n : k # n => j[k] = out[k]
      BY <1>1, <2>0, <3>3, <3>5
    <3> HIDE DEF grown
    <3>7. Normal(j)
      <4> SUFFICES ASSUME NEW k \in 1..n
                   PROVE  j[k].len > 0 /\ (k > 1 => End(j[k - 1]) < j[k].at)
        BY <3>6 DEF Normal
      <4>1. out[k].len > 0 /\ (k > 1 => k - 1 \in 1..n /\ k - 1 # n /\ End(out[k - 1]) < out[k].at)
        BY <1>1 DEF Normal
      <4>2. CASE k = n
        BY <2>0, <3>2, <3>3, <3>6, <4>1, <4>2
      <4>3. CASE k # n
        BY <3>6, <4>1, <4>3
      <4> QED
        BY <4>2, <4>3
    <3>8. Bytes(new) = Bytes(last) \cup Bytes(r)
      <4>1. Bytes(new) = last.at..(End(r) - 1)
        BY <2>0, <2>a, <3>3, <3>2 DEF Bytes, End, grown
      <4>2. Bytes(last) = last.at..(End(last) - 1) /\ Bytes(r) = r.at..(End(r) - 1)
        BY DEF Bytes
      <4> QED
        BY <2>0, <2>a, <2>1, <4>1, <4>2
    <3>9. AllBytes(j) = AllBytes(out) \cup Bytes(r)
      <4>1. DOMAIN j = 1..n
        BY <3>6
      <4>2. AllBytes(out) = UNION {Bytes(out[k]) : k \in 1..n} /\ AllBytes(j) = UNION {Bytes(j[k]) : k \in 1..n}
        BY <1>1, <4>1 DEF AllBytes
      <4>3. \A k \in 1..n : Bytes(j[k]) = IF k = n THEN Bytes(last) \cup Bytes(r) ELSE Bytes(out[k])
        BY <3>6, <3>8
      <4> QED
        BY <2>0, <4>2, <4>3
    <3>a. j # <<>> /\ j[Len(j)].at <= r.at
      BY <2>0, <2>a, <3>3, <3>6
    <3> QED
      BY <3>6, <3>7, <3>9, <3>a DEF j
  <2>2. CASE ~(End(r) > End(last))
    <3>1. j = out
      BY <1>3, <2>2 DEF Join
    <3>2. Bytes(r) \subseteq Bytes(last)
      BY <2>0, <2>a, <2>2 DEF Bytes
    <3>3. Bytes(last) \subseteq AllBytes(out)
      BY <1>1, <2>0 DEF AllBytes
    <3> QED
      BY <1>3, <2>a, <3>1, <3>2, <3>3
  <2> QED
    BY <2>1, <2>2
<1> QED
  BY <1>2, <1>3

\* What has been coalesced of some, so far: x.out, with x.left still to come.
CoalescedSoFar(some, x) ==
  /\ x \in [left : SUBSET some, out : Seq(SomeRange)]
  /\ Normal(x.out) /\ AllBytes(x.out) \cup BytesOf(x.left) = BytesOf(some)
  /\ x.out # <<>> => \A r \in x.left : x.out[Len(x.out)].at <= r.at

\* One more range.
LEMMA TakeFirstKeeps ==
  ASSUME NEW some \in SUBSET SomeRange, NEW x, CoalescedSoFar(some, x), x.left # {}
  PROVE  /\ CoalescedSoFar(some, TakeFirst(x))
         /\ First(x.left) \in x.left /\ TakeFirst(x).left = x.left \ {First(x.left)}
<1> DEFINE f == First(x.left)
           j == Join(x.out, f)
           y == [left |-> x.left \ {f}, out |-> j]
<1>1. /\ x.left \in SUBSET some /\ x.out \in Seq(SomeRange) /\ Normal(x.out)
      /\ AllBytes(x.out) \cup BytesOf(x.left) = BytesOf(some)
      /\ x.out # <<>> => \A r \in x.left : x.out[Len(x.out)].at <= r.at
  BY DEF CoalescedSoFar
<1>2. x.left \in SUBSET Ranges
  BY <1>1 DEF Ranges, SomeRange
<1>3. f \in x.left /\ \A s \in x.left : InOrder(f, s)
  BY <1>2, FirstOf
<1>4. f \in SomeRange
  BY <1>1, <1>3
<1>5. TakeFirst(x) = y
  BY DEF TakeFirst
<1>6. /\ j \in Seq(SomeRange) /\ j # <<>> /\ Normal(j) /\ j[Len(j)].at <= f.at
      /\ AllBytes(j) = AllBytes(x.out) \cup Bytes(f)
  <2> HIDE DEF f
  <2> QED
    BY <1>1, <1>3, <1>4, JoinKeeps
<1> HIDE DEF j, f
<1>7. y.left = x.left \ {f} /\ y.out = j /\ y \in [left : SUBSET some, out : Seq(SomeRange)]
  BY <1>1, <1>6
<1>8. BytesOf(x.left) = Bytes(f) \cup BytesOf(x.left \ {f})
  BY <1>3 DEF BytesOf
<1>9. ASSUME NEW r \in x.left PROVE j[Len(j)].at <= r.at
  <2>1. f.at <= r.at /\ f.at \in Nat /\ r.at \in Nat
    BY <1>2, <1>3 DEF InOrder, Ranges
  <2>2. Len(j) \in Nat /\ Len(j) \in DOMAIN j
    BY <1>6
  <2>3. j[Len(j)] \in SomeRange
    BY <1>6, <2>2
  <2> QED
    BY <1>6, <2>1, <2>3 DEF SomeRange
<1>10. CoalescedSoFar(some, y)
  BY <1>1, <1>6, <1>7, <1>8, <1>9 DEF CoalescedSoFar
<1> QED
  BY <1>3, <1>5, <1>7, <1>10 DEF f

\* Coalescing keeps every byte, and leaves the ranges in their normal form.
LEMMA CoalesceKeeps ==
  ASSUME NEW rs \in SUBSET Ranges, IsFiniteSet(rs)
  PROVE  /\ Coalesce(rs) \in Seq(SomeRange) /\ Normal(Coalesce(rs))
         /\ AllBytes(Coalesce(rs)) = BytesOf(rs)
<1> DEFINE some == {r \in rs : r.len > 0}
           N == Cardinality(some)
           V == {x \in [left : SUBSET some, out : Seq(SomeRange)] : CoalescedSoFar(some, x)}
           v0 == [left |-> some, out |-> <<>>]
           Step(x) == IF x.left = {} THEN x ELSE TakeFirst(x)
           F == [k \in 1..N |-> [x \in V |-> Step(x)]]
           Is(f) == f = [k \in 0..N |-> IF k = 0 THEN v0 ELSE TakeFirst(f[k - 1])]
<1>1. some \in SUBSET SomeRange
  BY DEF Ranges, SomeRange
<1>2. IsFiniteSet(some) /\ N \in Nat
  <2>1. IsFiniteSet(some)
    BY FS_Subset
  <2> QED
    BY <2>1, FS_CardinalityType
<1>3. v0 \in V
  <2>1. v0.left = some /\ v0.out = <<>> /\ <<>> \in Seq(SomeRange) /\ DOMAIN <<>> = {}
    OBVIOUS
  <2>2. AllBytes(<<>>) = {} /\ Normal(<<>>)
    BY <2>1 DEF AllBytes, Normal
  <2> HIDE DEF some
  <2>3. v0 \in [left : SUBSET some, out : Seq(SomeRange)]
    BY <2>1
  <2> HIDE DEF v0
  <2> QED
    BY <2>1, <2>2, <2>3 DEF CoalescedSoFar
<1>4. \A x \in V : Step(x) \in V
  <2> SUFFICES ASSUME NEW x \in V, x.left # {} PROVE TakeFirst(x) \in V
    OBVIOUS
  <2> HIDE DEF some
  <2>1. CoalescedSoFar(some, TakeFirst(x))
    BY <1>1, TakeFirstKeeps
  <2> QED
    BY <2>1 DEF CoalescedSoFar
<1>5. PICK f \in [0..N -> V] : f = [k \in 0..N |-> IF k = 0 THEN v0 ELSE F[k][f[k - 1]]]
  <2>1. F \in [1..N -> [V -> V]]
    <3> HIDE DEF V, N, Step
    <3> QED
      BY <1>4
  <2>2. Iteration(N, V, v0, F)
    <3> HIDE DEF F, V, N, v0
    <3> QED
      BY <1>2, <1>3, <2>1 DEF Iteration
  <2> HIDE DEF F, V, N, v0
  <2> QED
    BY <2>2, IterationExists
<1>6. f[0] = v0 /\ \A k \in 1..N : f[k] = Step(f[k - 1])
  <2> HIDE DEF V, N, v0, Step
  <2>1. \A k \in 1..N : f[k - 1] \in V /\ k \in 0..N /\ k # 0
    BY <1>2
  <2>2. \A k \in 0..N : f[k] = IF k = 0 THEN v0 ELSE F[k][f[k - 1]]
    <3> HIDE DEF F
    <3> QED
      BY <1>5
  <2>3. \A k \in 1..N, x \in V : F[k][x] = Step(x)
    OBVIOUS
  <2> HIDE DEF F
  <2> QED
    BY <1>2, <2>1, <2>2, <2>3
<1> DEFINE S == {k \in Nat : k <= N => /\ IsFiniteSet(f[k].left) /\ Cardinality(f[k].left) = N - k}
<1>7. S = Nat
  <2>1. 0 \in S
    <3> HIDE DEF some
    <3> QED
      BY <1>2, <1>6
  <2>2. ASSUME NEW k \in S PROVE k + 1 \in S
    <3> SUFFICES ASSUME k + 1 <= N
                 PROVE  IsFiniteSet(f[k + 1].left) /\ Cardinality(f[k + 1].left) = N - (k + 1)
      OBVIOUS
    <3> DEFINE x == f[k]
    <3> HIDE DEF N, V, some
    <3>1. k \in Nat /\ k <= N /\ k \in 0..N /\ k + 1 \in 1..N /\ (k + 1) - 1 = k
      BY <1>2
    <3>2. IsFiniteSet(x.left) /\ Cardinality(x.left) = N - k
      BY <3>1
    <3>3. x \in V
      BY <1>5, <3>1
    <3>4. x.left # {}
      <4>1. N - k # 0
        BY <1>2, <3>1
      <4> QED
        BY <3>2, <4>1, FS_EmptySet
    <3>5. f[k + 1] = TakeFirst(x)
      <4>1. f[k + 1] = Step(x)
        BY <1>6, <3>1
      <4> QED
        BY <4>1, <3>4
    <3>6. CoalescedSoFar(some, x)
      BY <3>3 DEF V
    <3> HIDE DEF x, S
    <3>7. First(x.left) \in x.left /\ f[k + 1].left = x.left \ {First(x.left)}
      BY <1>1, <3>4, <3>5, <3>6, TakeFirstKeeps
    <3>8. IsFiniteSet(f[k + 1].left) /\ Cardinality(f[k + 1].left) = Cardinality(x.left) - 1
      <4>1. /\ IsFiniteSet(x.left \ {First(x.left)})
            /\ Cardinality(x.left \ {First(x.left)}) = Cardinality(x.left) - 1
        BY <3>2, <3>7, FS_RemoveElement
      <4> QED
        BY <3>7, <4>1
    <3> QED
      BY <1>2, <3>1, <3>2, <3>8
  <2> HIDE DEF S
  <2>3. S \in SUBSET Nat
    BY DEF S
  <2> QED
    BY <2>1, <2>2, <2>3, SetInduction
<1>8. \A k \in 1..N : f[k - 1].left # {}
  <2> SUFFICES ASSUME NEW k \in 1..N, f[k - 1].left = {} PROVE FALSE
    OBVIOUS
  <2>1. k - 1 \in Nat /\ k - 1 <= N /\ N - (k - 1) # 0
    BY <1>2
  <2>2. k - 1 \in S
    BY <1>7, <2>1
  <2> QED
    BY <2>1, <2>2, FS_EmptySet
<1>9. Is(f)
  <2> HIDE DEF V, N, v0
  <2>1. \A k \in 1..N : f[k] = TakeFirst(f[k - 1])
    <3> SUFFICES ASSUME NEW k \in 1..N PROVE f[k] = TakeFirst(f[k - 1])
      OBVIOUS
    <3>1. f[k] = Step(f[k - 1]) /\ f[k - 1].left # {}
      BY <1>6, <1>8
    <3> QED
      BY <3>1
  <2>2. f = [k \in 0..N |-> f[k]]
    BY <1>5
  <2>3. \A k \in 0..N : f[k] = IF k = 0 THEN v0 ELSE TakeFirst(f[k - 1])
    <3> SUFFICES ASSUME NEW k \in 0..N, k # 0 PROVE f[k] = TakeFirst(f[k - 1])
      BY <1>6
    <3>1. k \in 1..N
      BY <1>2
    <3> QED
      BY <2>1, <3>1
  <2> QED
    BY <2>2, <2>3
<1>10. ASSUME NEW g, Is(g) PROVE g = f
  <2> DEFINE T == {k \in Nat : k <= N => g[k] = f[k]}
  <2> HIDE DEF V, N, v0, S
  <2>1. 0 \in T
    BY <1>2, <1>9, <1>10
  <2>2. ASSUME NEW k \in T PROVE k + 1 \in T
    <3> SUFFICES ASSUME k + 1 <= N PROVE g[k + 1] = f[k + 1]
      OBVIOUS
    <3>1. k + 1 \in 0..N /\ k + 1 # 0 /\ (k + 1) - 1 = k /\ k <= N
      BY <1>2
    <3>2. g[k + 1] = TakeFirst(g[(k + 1) - 1]) /\ f[k + 1] = TakeFirst(f[(k + 1) - 1])
      <4> HIDE DEF T
      <4> QED
        BY <1>9, <1>10, <3>1
    <3> QED
      BY <3>1, <3>2
  <2>3. T = Nat
    <3>1. T \in SUBSET Nat
      OBVIOUS
    <3> HIDE DEF T
    <3> QED
      BY <2>1, <2>2, <3>1, SetInduction
  <2>4. \A k \in 0..N : g[k] = f[k]
    BY <1>2, <2>3
  <2>5. DOMAIN g = 0..N /\ g = [k \in 0..N |-> g[k]] /\ f = [k \in 0..N |-> f[k]]
    BY <1>5, <1>10
  <2> QED
    BY <2>4, <2>5
<1> DEFINE upTo == CHOOSE g : Is(g)
<1>11. upTo = f
  <2>1. Is(upTo)
    <3> HIDE DEF Is
    <3> QED
      BY <1>9
  <2> HIDE DEF upTo
  <2> QED
    BY <1>10, <2>1
<1>12. Coalesce(rs) = upTo[N].out
  BY DEF Coalesce
<1> DEFINE last == f[N]
<1>13. last \in V /\ last.left = {}
  <2>1. N \in S
    BY <1>2, <1>7
  <2>2. IsFiniteSet(last.left) /\ Cardinality(last.left) = 0
    <3> HIDE DEF some
    <3> QED
      BY <1>2, <2>1
  <2>3. last.left = {}
    <3> HIDE DEF last
    <3> QED
      BY <2>2, FS_EmptySet
  <2>4. N \in 0..N
    BY <1>2
  <2> HIDE DEF V, N
  <2> QED
    BY <1>5, <2>3, <2>4
<1>14. Coalesce(rs) = last.out
  BY <1>11, <1>12
<1> HIDE DEF last, upTo
<1>15. CoalescedSoFar(some, last)
  BY <1>13
<1>16. BytesOf(some) = BytesOf(rs)
  <2> SUFFICES ASSUME NEW r \in rs, r.len <= 0 PROVE Bytes(r) = {}
    BY <1>1 DEF BytesOf, Ranges
  <2> QED
    BY DEF Ranges, Bytes, End
<1> HIDE DEF some
<1>17. BytesOf({}) = {}
  BY DEF BytesOf
<1> QED
  BY <1>13, <1>14, <1>15, <1>16, <1>17 DEF CoalescedSoFar

\* What a function gives on a finite set is finitely much.
LEMMA ImageFinite ==
  ASSUME NEW S, IsFiniteSet(S), NEW f, DOMAIN f = S
  PROVE  IsFiniteSet({f[x] : x \in S})
<1> DEFINE T == {f[x] : x \in S}
           g == [x \in S |-> f[x]]
<1>1. g \in Surjection(S, T)
  BY DEF Surjection
<1> HIDE DEF T, g
<1>2. IsFiniteSet(T)
  BY <1>1, FS_Surjection
<1> QED
  BY <1>2 DEF T

\* The union of finitely many finite sets is finite.
LEMMA UnionFinite ==
  ASSUME NEW S, IsFiniteSet(S), NEW f, DOMAIN f = S, \A x \in S : IsFiniteSet(f[x])
  PROVE  IsFiniteSet(UNION {f[x] : x \in S})
<1> DEFINE T == {f[x] : x \in S}
<1>1. IsFiniteSet(T)
  BY ImageFinite
<1>2. \A t \in T : IsFiniteSet(t)
  OBVIOUS
<1> HIDE DEF T
<1>3. IsFiniteSet(UNION T)
  BY <1>1, <1>2, FS_UNION
<1> QED
  BY <1>3 DEF T

\* Two ranges overlap in one range at most.
LEMMA IntersectFinite ==
  ASSUME NEW r, NEW s
  PROVE  IsFiniteSet(Intersect(r, s))
BY FS_EmptySet, FS_Singleton DEF Intersect

\* The parts of a range inside some of the ranges of a set.
LEMMA PartsBytes ==
  ASSUME NEW rs \in Seq(SomeRange), NEW r \in Ranges, NEW D \in SUBSET DOMAIN rs
  PROVE  LET parts == UNION {Intersect(rs[i], r) : i \in D}
         IN  /\ parts \subseteq SomeRange /\ IsFiniteSet(parts)
             /\ \A b : b \in BytesOf(parts) <=> b \in Bytes(r) /\ \E i \in D : b \in Bytes(rs[i])
<1> DEFINE parts == UNION {Intersect(rs[i], r) : i \in D}
           f == [i \in D |-> Intersect(rs[i], r)]
<1>1. \A i \in D : rs[i] \in Ranges
  <2>1. \A i \in DOMAIN rs : rs[i] \in SomeRange
    OBVIOUS
  <2> QED
    BY <2>1 DEF Ranges, SomeRange
<1>2. \A i \in D : f[i] \subseteq SomeRange /\ IsFiniteSet(f[i]) /\ BytesOf(f[i]) = Bytes(rs[i]) \cap Bytes(r)
  BY <1>1, IntersectBytes, IntersectFinite
<1>3. IsFiniteSet(D)
  <2>1. DOMAIN rs = 1..Len(rs) /\ Len(rs) \in Int /\ 1 \in Int
    OBVIOUS
  <2>2. IsFiniteSet(DOMAIN rs)
    BY <2>1, FS_Interval
  <2> QED
    BY <2>2, FS_Subset
<1>4. parts = UNION {f[i] : i \in D} /\ DOMAIN f = D
  OBVIOUS
<1> HIDE DEF f, parts
<1>5. IsFiniteSet(parts)
  BY <1>2, <1>3, <1>4, UnionFinite
<1>6. parts \subseteq SomeRange
  BY <1>2, <1>4
<1>7. \A b : b \in BytesOf(parts) <=> \E i \in D : b \in BytesOf(f[i])
  BY <1>4 DEF BytesOf
<1> QED
  BY <1>2, <1>5, <1>6, <1>7 DEF parts

\* Clipping keeps the bytes inside the span.
LEMMA ClipKeeps ==
  ASSUME NEW rs \in Seq(SomeRange), NEW span \in Ranges
  PROVE  /\ Clip(rs, span) \subseteq SomeRange /\ IsFiniteSet(Clip(rs, span))
         /\ BytesOf(Clip(rs, span)) = AllBytes(rs) \cap Bytes(span)
<1>1. DOMAIN rs \in SUBSET DOMAIN rs
  OBVIOUS
<1> DEFINE parts == UNION {Intersect(rs[i], span) : i \in DOMAIN rs}
<1>2. /\ parts \subseteq SomeRange /\ IsFiniteSet(parts)
      /\ \A b : b \in BytesOf(parts) <=> b \in Bytes(span) /\ \E i \in DOMAIN rs : b \in Bytes(rs[i])
  BY <1>1, PartsBytes
<1>3. Clip(rs, span) = parts
  BY DEF Clip
<1>4. \A b : b \in AllBytes(rs) <=> \E i \in DOMAIN rs : b \in Bytes(rs[i])
  BY DEF AllBytes
<1> HIDE DEF parts
<1> QED
  BY <1>2, <1>3, <1>4

\* The search for the first and the last range that matter misses none.
LEMMA OverlapKeeps ==
  ASSUME NEW rs \in Seq(SomeRange), NEW r \in Ranges
  PROVE  /\ Overlap(rs, r) \subseteq SomeRange /\ IsFiniteSet(Overlap(rs, r))
         /\ BytesOf(Overlap(rs, r)) = AllBytes(rs) \cap Bytes(r)
<1> DEFINE D == {j \in DOMAIN rs : End(rs[j]) > r.at /\ rs[j].at < End(r)}
           parts == UNION {Intersect(rs[i], r) : i \in D}
<1>1. D \in SUBSET DOMAIN rs
  OBVIOUS
<1>2. /\ parts \subseteq SomeRange /\ IsFiniteSet(parts)
      /\ \A b : b \in BytesOf(parts) <=> b \in Bytes(r) /\ \E i \in D : b \in Bytes(rs[i])
  <2> HIDE DEF D
  <2> QED
    BY <1>1, PartsBytes
<1>3. Overlap(rs, r) = IF r.len <= 0 THEN {} ELSE parts
  BY DEF Overlap
<1>4. \A b : b \in AllBytes(rs) <=> \E i \in DOMAIN rs : b \in Bytes(rs[i])
  BY DEF AllBytes
<1>5. ASSUME NEW i \in DOMAIN rs, NEW b \in Bytes(r), b \in Bytes(rs[i]) PROVE i \in D
  <2>1. rs[i] \in SomeRange
    OBVIOUS
  <2> QED
    BY <1>5, <2>1 DEF SomeRange, Ranges, Bytes, End
<1> HIDE DEF parts
<1>6. CASE r.len <= 0
  <2>1. Bytes(r) = {}
    BY <1>6 DEF Bytes, End, Ranges
  <2>2. Overlap(rs, r) = {}
    BY <1>3, <1>6
  <2>3. BytesOf({}) = {}
    BY DEF BytesOf
  <2> QED
    BY <2>1, <2>2, <2>3, FS_EmptySet
<1>7. CASE ~(r.len <= 0)
  <2>1. Overlap(rs, r) = parts
    BY <1>3, <1>7
  <2>2. \A b : b \in BytesOf(parts) <=> b \in Bytes(r) /\ b \in AllBytes(rs)
    BY <1>2, <1>4, <1>5
  <2> QED
    BY <1>2, <2>1, <2>2
<1> QED
  BY <1>6, <1>7

Extents == [file : Nat, at : Nat, len : Nat]

\* The parts of an extent that were written, at their places in the file.
LEMMA InFileBytes ==
  ASSUME NEW e \in Extents, NEW written \in Seq(SomeRange)
  PROVE  /\ InFile(e, written) \subseteq SomeRange /\ IsFiniteSet(InFile(e, written))
         /\ \A b : b \in BytesOf(InFile(e, written)) <=>
                     /\ b \in Nat /\ e.file <= b /\ b < e.file + e.len
                     /\ e.at + (b - e.file) \in AllBytes(written)
<1> DEFINE r == [at |-> e.at, len |-> e.len]
           hits == Overlap(written, r)
           put(h) == [at |-> e.file + (h.at - e.at), len |-> h.len]
           f == [h \in hits |-> put(h)]
<1>1. e.file \in Nat /\ e.at \in Nat /\ e.len \in Nat /\ r \in Ranges /\ r.at = e.at /\ r.len = e.len
  BY DEF Extents, Ranges
<1>2. /\ hits \subseteq SomeRange /\ IsFiniteSet(hits)
      /\ BytesOf(hits) = AllBytes(written) \cap Bytes(r)
  <2> HIDE DEF r
  <2> QED
    BY <1>1, OverlapKeeps
<1>3. Bytes(r) = e.at..(e.at + e.len - 1)
  BY <1>1 DEF Bytes, End
<1>4. InFile(e, written) = {put(h) : h \in hits}
  BY DEF InFile
<1> HIDE DEF r, hits
<1>5. IsFiniteSet({put(h) : h \in hits})
  <2>1. DOMAIN f = hits /\ {f[h] : h \in hits} = {put(h) : h \in hits}
    OBVIOUS
  <2> HIDE DEF f, put
  <2>2. IsFiniteSet({f[h] : h \in hits})
    BY <1>2, <2>1, ImageFinite
  <2> QED
    BY <2>1, <2>2
<1>6. ASSUME NEW h \in hits
      PROVE  /\ h.at \in Nat /\ h.len \in Nat \ {0} /\ e.at <= h.at
             /\ put(h) \in SomeRange /\ put(h).at = e.file + (h.at - e.at) /\ put(h).len = h.len
  <2>1. h.at \in Nat /\ h.len \in Nat \ {0}
    BY <1>2 DEF SomeRange
  <2>2. h.at \in Bytes(h)
    BY <2>1 DEF Bytes, End
  <2>3. h.at \in Bytes(r)
    BY <1>2, <2>2 DEF BytesOf
  <2>4. e.at <= h.at
    BY <1>1, <1>3, <2>3
  <2>5. e.file + (h.at - e.at) \in Nat
    BY <1>1, <2>1, <2>4
  <2> QED
    BY <2>1, <2>4, <2>5 DEF SomeRange
<1> HIDE DEF put, f
<1>7. ASSUME NEW h \in hits, NEW b \in Nat, e.file <= b
      PROVE  b \in Bytes(put(h)) <=> e.at + (b - e.file) \in Bytes(h)
  <2>1. put(h) \in Ranges /\ h \in Ranges
    BY <1>2, <1>6 DEF Ranges, SomeRange
  <2> DEFINE a == e.file + (h.at - e.at)
             u == e.at + (b - e.file)
  <2>2. a \in Nat /\ put(h).at = a /\ put(h).len = h.len /\ u \in Nat /\ u \in Int
    BY <1>1, <1>6, <1>7
  <2>3. b \in Bytes(put(h)) <=> a <= b /\ b < a + h.len
    <3> HIDE DEF a
    <3> QED
      BY <2>1, <2>2, BytesBounds
  <2>4. u \in Bytes(h) <=> h.at <= u /\ u < h.at + h.len
    <3> HIDE DEF u
    <3> QED
      BY <2>1, <2>2, BytesBounds
  <2>5. (a <= b <=> h.at <= u) /\ (b < a + h.len <=> u < h.at + h.len)
    <3> DEFINE p == e.file
               q == e.at
               x == h.at
               n == h.len
    <3>1. p \in Nat /\ q \in Nat /\ x \in Nat /\ n \in Nat /\ b \in Nat
      BY <1>1, <1>6, <1>7
    <3>2. a = p + (x - q) /\ u = q + (b - p)
      OBVIOUS
    <3> HIDE DEF p, q, x, n, a, u
    <3>3. (a <= b <=> x <= u) /\ (b < a + n <=> u < x + n)
      BY <3>1, <3>2
    <3> QED
      BY <3>3 DEF x, n
  <2> QED
    BY <2>3, <2>4, <2>5
<1>8. \A b : b \in BytesOf({put(h) : h \in hits}) <=> \E h \in hits : b \in Bytes(put(h))
  BY DEF BytesOf
<1>9. \A b : b \in BytesOf(hits) <=> \E h \in hits : b \in Bytes(h)
  BY DEF BytesOf
<1>10. ASSUME NEW h \in hits, NEW b \in Bytes(put(h)) PROVE b \in Nat /\ e.file <= b
  <2>1. put(h) \in Ranges
    BY <1>6 DEF Ranges, SomeRange
  <2>2. b \in Nat /\ put(h).at <= b
    BY <2>1, BytesBounds
  <2> QED
    BY <1>1, <1>6, <2>2
<1>11. ASSUME NEW b \in Nat, e.file <= b
       PROVE  b \in BytesOf({put(h) : h \in hits}) <=> e.at + (b - e.file) \in BytesOf(hits)
  BY <1>7, <1>8, <1>9, <1>11
<1>12. ASSUME NEW b \in Nat, e.file <= b
       PROVE  e.at + (b - e.file) \in Bytes(r) <=> b < e.file + e.len
  <2> DEFINE u == e.at + (b - e.file)
  <2>1. u \in Nat /\ e.at <= u /\ (u < e.at + e.len <=> b < e.file + e.len)
    BY <1>1, <1>12
  <2> HIDE DEF u
  <2>2. u \in Bytes(r) <=> u < e.at + e.len
    BY <1>1, <2>1, BytesBounds
  <2> QED
    BY <2>1, <2>2 DEF u
<1>13. ASSUME NEW b \in BytesOf({put(h) : h \in hits}) PROVE b \in Nat /\ e.file <= b
  BY <1>8, <1>10
<1> QED
  BY <1>2, <1>4, <1>5, <1>6, <1>11, <1>12, <1>13

-----------------------------------------------------------------------------
(* The runs of a map.                                                       *)

\* A run ends where the next one starts, or with the map.
LEMMA RunEndIs ==
  ASSUME NEW m \in Seq(Nat), NEW o \in RunStarts(m)
  PROVE  /\ o \in Nat \ {0} /\ RunEnd(m, o) \in Nat /\ o < RunEnd(m, o) /\ RunEnd(m, o) <= Len(m) + 1
         /\ RunEnd(m, o) \in RunStarts(m) \/ RunEnd(m, o) = Len(m) + 1
         /\ \A n \in RunStarts(m) : ~(o < n /\ n < RunEnd(m, o))
<1> DEFINE after == {n \in RunStarts(m) : n > o} \cup {Len(m) + 1}
<1>1. Len(m) \in Nat /\ DOMAIN m = 1..Len(m) /\ RunStarts(m) \subseteq 1..Len(m)
  BY DEF RunStarts
<1>2. o \in 1..Len(m)
  BY <1>1
<1>3. after \subseteq Nat /\ after # {}
  BY <1>1
<1>4. \E n \in after : \A k \in after : n <= k
  <2> HIDE DEF after
  <2> QED
    BY <1>3, LeastExists
<1>5. RunEnd(m, o) \in after /\ \A k \in after : RunEnd(m, o) <= k
  BY <1>4 DEF RunEnd
<1>6. \A k \in after : k \in Nat /\ o < k /\ k <= Len(m) + 1
  BY <1>1, <1>2
<1>7. ASSUME NEW n \in RunStarts(m), o < n, n < RunEnd(m, o) PROVE FALSE
  <2>1. n \in Nat /\ o \in Nat
    BY <1>1, <1>2
  <2>2. n > o
    BY <1>7, <2>1
  <2>3. n \in after
    BY <2>2
  <2> HIDE DEF after
  <2>4. RunEnd(m, o) <= n /\ RunEnd(m, o) \in Nat
    BY <1>5, <1>6, <2>3
  <2> QED
    BY <1>7, <2>1, <2>4
<1>8. RunEnd(m, o) \in RunStarts(m) \/ RunEnd(m, o) = Len(m) + 1
  BY <1>5
<1>9. RunEnd(m, o) \in Nat /\ o < RunEnd(m, o) /\ RunEnd(m, o) <= Len(m) + 1
  <2> HIDE DEF after
  <2> QED
    BY <1>5, <1>6
<1> QED
  BY <1>2, <1>7, <1>8, <1>9

\* Within a run the units follow one another, or there are none.
LEMMA RunIsContiguous ==
  ASSUME NEW m \in Seq(Nat), NEW o \in RunStarts(m), NEW k \in Nat, o <= k, k < RunEnd(m, o)
  PROVE  k \in DOMAIN m /\ m[k] = IF m[o] = 0 THEN 0 ELSE m[o] + (k - o)
<1> DEFINE S == {d \in Nat : o + d < RunEnd(m, o) =>
                   o + d \in DOMAIN m /\ m[o + d] = IF m[o] = 0 THEN 0 ELSE m[o] + d}
<1>1. /\ Len(m) \in Nat /\ DOMAIN m = 1..Len(m) /\ \A j \in 1..Len(m) : m[j] \in Nat
      /\ o \in 1..Len(m)
  BY DEF RunStarts
<1>2. RunEnd(m, o) \in Nat /\ RunEnd(m, o) <= Len(m) + 1 /\ \A n \in RunStarts(m) : ~(o < n /\ n < RunEnd(m, o))
  BY RunEndIs
<1>3. 0 \in S
  <2>1. o + 0 = o
    BY <1>1
  <2> QED
    BY <1>1, <2>1
<1>4. ASSUME NEW d \in S PROVE d + 1 \in S
  <2> SUFFICES ASSUME o + (d + 1) < RunEnd(m, o)
               PROVE  o + (d + 1) \in DOMAIN m /\ m[o + (d + 1)] = IF m[o] = 0 THEN 0 ELSE m[o] + (d + 1)
    OBVIOUS
  <2> DEFINE n == o + (d + 1)
  <2>1. d \in Nat /\ o + d < RunEnd(m, o)
    BY <1>1, <1>2
  <2>2. n \in Nat /\ n - 1 = o + d /\ n # 1 /\ o < n /\ n \in 1..Len(m) /\ n - 1 \in 1..Len(m)
    BY <1>1, <1>2, <2>1
  <2>3. m[n - 1] = IF m[o] = 0 THEN 0 ELSE m[o] + d
    BY <2>1, <2>2
  <2> HIDE DEF n
  <2>4. n \notin RunStarts(m)
    BY <1>2, <2>2 DEF n
  <2>5. ~(IF m[n] = 0 THEN m[n - 1] # 0 ELSE m[n - 1] = 0 \/ m[n] # m[n - 1] + 1)
    BY <1>1, <2>2, <2>4 DEF RunStarts
  <2>6. m[n] = IF m[o] = 0 THEN 0 ELSE m[o] + (d + 1)
    <3>1. m[n] \in Nat /\ m[o] \in Nat
      BY <1>1, <2>2
    <3>2. CASE m[o] = 0
      BY <2>3, <2>5, <3>2
    <3>3. CASE m[o] # 0
      <4>1. m[n - 1] = m[o] + d /\ m[n - 1] # 0
        BY <2>1, <2>3, <3>1, <3>3
      <4>2. m[n] = (m[o] + d) + 1
        BY <2>5, <4>1
      <4>3. (m[o] + d) + 1 = m[o] + (d + 1)
        <5>1. \A x, y \in Nat : (x + y) + 1 = x + (y + 1)
          OBVIOUS
        <5>2. d \in Nat /\ m[o] \in Nat
          BY <2>1, <3>1
        <5> HIDE DEF S
        <5> QED
          BY <5>1, <5>2
      <4> QED
        BY <3>3, <4>2, <4>3
    <3> QED
      BY <3>2, <3>3
  <2> QED
    BY <1>1, <2>2, <2>6 DEF n
<1>5. S = Nat
  <2>1. S \in SUBSET Nat
    OBVIOUS
  <2> HIDE DEF S
  <2> QED
    BY <1>3, <1>4, <2>1, SetInduction
<1>6. k - o \in Nat /\ o + (k - o) = k
  BY <1>1
<1>7. k - o \in S
  BY <1>5, <1>6
<1> QED
  BY <1>6, <1>7

\* Every unit of a map lies in a run.
LEMMA RunsCover ==
  ASSUME NEW m \in Seq(Nat), NEW k \in DOMAIN m
  PROVE  \E o \in RunStarts(m) : o <= k /\ k < RunEnd(m, o)
<1> DEFINE S == {o \in RunStarts(m) : o <= k}
<1>1. Len(m) \in Nat /\ DOMAIN m = 1..Len(m) /\ RunStarts(m) \subseteq 1..Len(m) /\ k \in 1..Len(m)
  BY DEF RunStarts
<1>2. 1 \in S
  BY <1>1 DEF RunStarts
<1>3. S \in SUBSET (0..k) /\ S # {} /\ k \in Nat
  BY <1>1, <1>2
<1>4. PICK o \in S : \A n \in S : n <= o
  <2> HIDE DEF S
  <2> QED
    BY <1>3, GreatestExists
<1>5. o \in RunStarts(m) /\ o <= k
  OBVIOUS
<1>6. /\ RunEnd(m, o) \in Nat /\ o < RunEnd(m, o)
      /\ RunEnd(m, o) \in RunStarts(m) \/ RunEnd(m, o) = Len(m) + 1
  BY <1>5, RunEndIs
<1>7. ASSUME RunEnd(m, o) <= k PROVE FALSE
  <2>1. RunEnd(m, o) \in S
    BY <1>1, <1>6, <1>7
  <2> QED
    BY <1>1, <1>4, <1>6, <2>1
<1> QED
  BY <1>1, <1>5, <1>6, <1>7

\* The byte at b of a file lies at the unit u of the disk, by these extents.
Maps(extents, b, u) ==
  b \in Nat /\ \E e \in extents : e.len > 0 /\ e.file <= b /\ b < e.file + e.len /\ u = e.at + (b - e.file)

HasUnit(m, b, u) == b \in Nat /\ b + 1 \in DOMAIN m /\ u = m[b + 1] /\ u # 0

\* What is known of a run.
LEMMA RunFromIs ==
  ASSUME NEW m \in Seq(Nat), NEW o \in RunStarts(m)
  PROVE  LET r == RunFrom(m, o)
         IN  /\ r.file = o - 1 /\ r.at = m[o] /\ r.len = RunEnd(m, o) - o /\ (r.hole <=> m[o] = 0)
             /\ r.file \in Nat /\ r.at \in Nat /\ r.len \in Nat \ {0}
             /\ Extent(r) = [file |-> r.file, at |-> r.at, len |-> r.len] /\ Extent(r) \in Extents
             /\ Hole(r) = [file |-> r.file, at |-> 0, len |-> 0] /\ Hole(r) \in Extents
<1> DEFINE r == RunFrom(m, o)
<1>1. r.file = o - 1 /\ r.at = m[o] /\ r.len = RunEnd(m, o) - o /\ (r.hole <=> m[o] = 0)
  BY DEF RunFrom
<1>2. o \in 1..Len(m) /\ m[o] \in Nat /\ RunEnd(m, o) \in Nat /\ o < RunEnd(m, o)
  BY RunEndIs DEF RunStarts
<1> HIDE DEF r
<1>3. r.file \in Nat /\ r.at \in Nat /\ r.len \in Nat \ {0}
  BY <1>1, <1>2
<1>4. /\ Extent(r) = [file |-> r.file, at |-> r.at, len |-> r.len] /\ Extent(r) \in Extents
      /\ Hole(r) = [file |-> r.file, at |-> 0, len |-> 0] /\ Hole(r) \in Extents
  BY <1>3 DEF Extent, Hole, Extents
<1> QED
  BY <1>1, <1>3, <1>4 DEF r

\* A byte the run from o holds, and where.
LEMMA RunMaps ==
  ASSUME NEW m \in Seq(Nat), NEW o \in RunStarts(m), m[o] # 0, NEW b \in Nat, NEW u
  PROVE  Maps({Extent(RunFrom(m, o))}, b, u) <=> HasUnit(m, b, u) /\ o <= b + 1 /\ b + 1 < RunEnd(m, o)
<1> DEFINE r == RunFrom(m, o)
           e == Extent(r)
<1>1. /\ r.file = o - 1 /\ r.at = m[o] /\ r.len = RunEnd(m, o) - o
      /\ e = [file |-> r.file, at |-> r.at, len |-> r.len]
  BY RunFromIs
<1>2. e.file = o - 1 /\ e.at = m[o] /\ e.len = RunEnd(m, o) - o
  <2> HIDE DEF e, r
  <2> QED
    BY <1>1
<1>3. /\ o \in Nat /\ o > 0 /\ m[o] \in Nat /\ RunEnd(m, o) \in Nat /\ o < RunEnd(m, o)
      /\ RunEnd(m, o) <= Len(m) + 1 /\ Len(m) \in Nat /\ DOMAIN m = 1..Len(m)
  BY RunEndIs DEF RunStarts
<1> HIDE DEF e, r
<1>4. Maps({e}, b, u) <=> e.len > 0 /\ e.file <= b /\ b < e.file + e.len /\ u = e.at + (b - e.file)
  BY DEF Maps
<1>5. (e.file <= b <=> o <= b + 1) /\ (b < e.file + e.len <=> b + 1 < RunEnd(m, o)) /\ e.len > 0
  BY <1>2, <1>3
<1>6. ASSUME o <= b + 1, b + 1 < RunEnd(m, o)
      PROVE  b + 1 \in DOMAIN m /\ m[b + 1] = e.at + (b - e.file) /\ m[b + 1] # 0
  <2>1. b + 1 \in Nat /\ (b + 1) - o = b - e.file /\ b - e.file \in Nat
    BY <1>2, <1>3, <1>6
  <2>2. b + 1 \in DOMAIN m /\ m[b + 1] = m[o] + ((b + 1) - o)
    BY <1>6, <2>1, RunIsContiguous
  <2> QED
    BY <1>2, <1>3, <2>1, <2>2
<1>7. Maps({e}, b, u) <=> o <= b + 1 /\ b + 1 < RunEnd(m, o) /\ u = e.at + (b - e.file)
  BY <1>4, <1>5
<1> QED
  BY <1>6, <1>7 DEF HasUnit, e, r

\* A map has finitely many runs.
LEMMA RunsFinite ==
  ASSUME NEW m \in Seq(Nat), NEW E, NEW f, DOMAIN f = RunStarts(m), E = {f[o] : o \in RunStarts(m)}
  PROVE  IsFiniteSet(E)
<1>1. RunStarts(m) \in SUBSET (1..Len(m)) /\ Len(m) \in Int /\ 1 \in Int
  BY DEF RunStarts
<1>2. IsFiniteSet(RunStarts(m))
  BY <1>1, FS_Interval, FS_Subset
<1> QED
  BY <1>2, ImageFinite

\* Where extents are the runs of a map, each by itself, one of their bytes is
\* where the map says, but for holes.
LEMMA ExtentsMap ==
  ASSUME NEW m \in Seq(Nat), NEW E, NEW f, DOMAIN f = RunStarts(m), E = {f[o] : o \in RunStarts(m)},
         \A o \in RunStarts(m) : f[o] = IF m[o] = 0 THEN Hole(RunFrom(m, o)) ELSE Extent(RunFrom(m, o))
  PROVE  /\ E \subseteq Extents /\ IsFiniteSet(E)
         /\ \A b \in Nat : \A u : Maps(E, b, u) <=> HasUnit(m, b, u)
<1>1. IsFiniteSet(E)
  BY RunsFinite
<1>2. \A o \in RunStarts(m) : f[o] \in Extents
  BY RunFromIs
<1>3. ASSUME NEW b \in Nat, NEW u PROVE Maps(E, b, u) <=> \E o \in RunStarts(m) : Maps({f[o]}, b, u)
  BY DEF Maps
<1>4. ASSUME NEW o \in RunStarts(m), m[o] = 0, NEW b \in Nat, NEW u PROVE ~Maps({f[o]}, b, u)
  <2>1. f[o].len = 0
    BY <1>4, RunFromIs
  <2> QED
    BY <2>1 DEF Maps
<1>5. ASSUME NEW o \in RunStarts(m), m[o] # 0, NEW b \in Nat, NEW u
      PROVE  Maps({f[o]}, b, u) <=> HasUnit(m, b, u) /\ o <= b + 1 /\ b + 1 < RunEnd(m, o)
  BY <1>5, RunMaps
<1>6. ASSUME NEW b \in Nat, NEW u, HasUnit(m, b, u)
      PROVE  \E o \in RunStarts(m) : m[o] # 0 /\ o <= b + 1 /\ b + 1 < RunEnd(m, o)
  <2>1. b + 1 \in DOMAIN m /\ m[b + 1] # 0 /\ b + 1 \in Nat
    BY <1>6 DEF HasUnit
  <2>2. PICK o \in RunStarts(m) : o <= b + 1 /\ b + 1 < RunEnd(m, o)
    BY <2>1, RunsCover
  <2>3. m[o] # 0
    BY <2>1, <2>2, RunIsContiguous
  <2> QED
    BY <2>2, <2>3
<1>7. ASSUME NEW b \in Nat, NEW u PROVE Maps(E, b, u) <=> HasUnit(m, b, u)
  <2>1. ASSUME NEW o \in RunStarts(m), Maps({f[o]}, b, u) PROVE HasUnit(m, b, u)
    BY <1>4, <1>5, <2>1
  <2>2. ASSUME HasUnit(m, b, u) PROVE \E o \in RunStarts(m) : Maps({f[o]}, b, u)
    BY <1>5, <1>6, <2>2
  <2> QED
    BY <1>3, <2>1, <2>2
<1> QED
  BY <1>1, <1>2, <1>7

\* A hole keeps its place and holds no byte of the disk.
LEMMA LocatedMaps ==
  ASSUME NEW m \in Seq(Nat)
  PROVE  /\ Located(Runs(m)) \subseteq Extents /\ IsFiniteSet(Located(Runs(m)))
         /\ \A b \in Nat : \A u : Maps(Located(Runs(m)), b, u) <=> HasUnit(m, b, u)
<1> DEFINE f == [o \in RunStarts(m) |-> IF m[o] = 0 THEN Hole(RunFrom(m, o)) ELSE Extent(RunFrom(m, o))]
<1>1. Located(Runs(m)) = {f[o] : o \in RunStarts(m)}
  <2>1. \A o \in RunStarts(m) : RunFrom(m, o).hole <=> m[o] = 0
    BY RunFromIs
  <2> QED
    BY <2>1 DEF Located, Runs
<1>2. /\ DOMAIN f = RunStarts(m)
      /\ \A o \in RunStarts(m) : f[o] = IF m[o] = 0 THEN Hole(RunFrom(m, o)) ELSE Extent(RunFrom(m, o))
  OBVIOUS
<1> HIDE DEF f
<1> QED
  BY <1>1, <1>2, ExtentsMap

\* Without holes, the runs are where they are.
LEMMA ConvertedMaps ==
  ASSUME NEW m \in Seq(Nat), \A k \in DOMAIN m : m[k] # 0
  PROVE  /\ Converted(Runs(m)) \subseteq Extents /\ IsFiniteSet(Converted(Runs(m)))
         /\ \A b \in Nat : \A u : Maps(Converted(Runs(m)), b, u) <=> HasUnit(m, b, u)
<1> DEFINE f == [o \in RunStarts(m) |-> Extent(RunFrom(m, o))]
<1>1. Converted(Runs(m)) = {f[o] : o \in RunStarts(m)}
  BY DEF Converted, Runs
<1>2. /\ DOMAIN f = RunStarts(m)
      /\ \A o \in RunStarts(m) : f[o] = IF m[o] = 0 THEN Hole(RunFrom(m, o)) ELSE Extent(RunFrom(m, o))
  BY DEF RunStarts
<1> HIDE DEF f
<1> QED
  BY <1>1, <1>2, ExtentsMap

HasFork(f, b, u) == b = 0 /\ u = f.fork /\ u # 0

\* The fork is one unit.
LEMMA ForkMaps ==
  ASSUME NEW f, f.fork \in Nat
  PROVE  /\ Located(ForkRuns(f)) \subseteq Extents /\ IsFiniteSet(Located(ForkRuns(f)))
         /\ Converted(ForkRuns(f)) \subseteq Extents /\ IsFiniteSet(Converted(ForkRuns(f)))
         /\ \A b \in Nat : \A u : /\ Maps(Located(ForkRuns(f)), b, u) <=> HasFork(f, b, u)
                                  /\ Maps(Converted(ForkRuns(f)), b, u) <=> HasFork(f, b, u)
<1>1. CASE f.fork = 0
  <2>1. Located(ForkRuns(f)) = {} /\ Converted(ForkRuns(f)) = {}
    BY <1>1 DEF ForkRuns, Located, Converted
  <2> QED
    BY <1>1, <2>1, FS_EmptySet DEF Maps, HasFork
<1>2. CASE f.fork # 0
  <2> DEFINE m == <<f.fork>>
  <2>1. m \in Seq(Nat) /\ DOMAIN m = {1} /\ m[1] = f.fork /\ \A k \in DOMAIN m : m[k] # 0
    BY <1>2
  <2>2. ForkRuns(f) = Runs(m)
    BY <1>2 DEF ForkRuns
  <2> HIDE DEF m
  <2>3. \A b \in Nat : \A u : HasUnit(m, b, u) <=> HasFork(f, b, u)
    BY <2>1 DEF HasUnit, HasFork
  <2> QED
    BY <2>1, <2>2, <2>3, LocatedMaps, ConvertedMaps
<1> QED
  BY <1>1, <1>2

\* Extents of two origins.
LEMMA MapsOfBoth ==
  ASSUME NEW D, NEW E, NEW b, NEW u
  PROVE  Maps(D \cup E, b, u) <=> Maps(D, b, u) \/ Maps(E, b, u)
BY DEF Maps

-----------------------------------------------------------------------------
(* The files of a volume, whatever its kind.                                *)

\* What every volume is that a comparison meets; a map may be lost.
Met(v) ==
  /\ v.kind \in Kinds /\ DOMAIN v.files = Slots
  /\ \A s \in Slots : LET f == v.files[s] IN
       /\ f.live \in BOOLEAN /\ f.isDir \in BOOLEAN /\ f.lost \in BOOLEAN
       /\ f.gen \in Nat /\ f.born \in Nat /\ f.name \in Nat /\ f.dir \in {Root, Sub} /\ f.fork \in Nat
       /\ f.map \in Seq(Nat) /\ f.uid \in Nat
       /\ f.live => f.name # 0
       /\ f.dir = Sub => v.files[Sub].gen \in Nat
       /\ \A k \in DOMAIN f.map : f.map[k] = 0 => v.kind \in HaveHoles
       /\ f.fork # 0 => v.kind \in HaveForks

Packed == {"fat", "exfat"}
IdAt(v, s) == IF v.kind \in Packed THEN ID(16 * v.files[s].dir + s, 0)
              ELSE IF v.kind = "hfs" THEN ID(s, v.files[s].born) ELSE ID(s, v.files[s].gen)
ParentAt(v, s) == IF v.kind \in Packed THEN ID(16 * v.files[s].dir, 0)
                  ELSE IF v.kind = "ntfs" THEN ID(v.files[s].dir, SeqNo(v, v.files[s].dir))
                  ELSE ID(v.files[s].dir, 0)
PathAt(v, s)  == IF v.kind = "exfat" THEN 0 ELSE PathOf(v.files[s])
EntryAt(v, s) == EntryAs(v.files[s], IdAt(v, s), ParentAt(v, s), PathAt(v, s), FALSE)

\* The slots are finitely many numbers below the root directory's packing of sixteen.
LEMMA SlotBounds ==
  /\ Slots \subseteq Nat /\ IsFiniteSet(Slots) /\ 1 \in Slots /\ Sub \in Slots /\ Root \notin Slots
  /\ \A s \in Slots : s \in Nat /\ 0 < s /\ s < 16
<1>1. Slots \subseteq 1..15 /\ Root \notin Slots /\ 1 \in Slots /\ Sub \in Slots
  BY SizesAreNat
<1>2. IsFiniteSet(1..15)
  <2>1. 1 \in Int /\ 15 \in Int
    OBVIOUS
  <2> QED
    BY <2>1, FS_Interval, Zenon
<1>3. IsFiniteSet(Slots)
  BY <1>1, <1>2, FS_Subset
<1>4. \A s \in 1..15 : s \in Nat /\ 0 < s /\ s < 16
  OBVIOUS
<1>5. \A s \in Slots : s \in Nat /\ 0 < s /\ s < 16
  BY <1>1, <1>4
<1> QED
  BY <1>1, <1>3, <1>5

\* The fields of an entry.
LEMMA EntryFields ==
  ASSUME NEW v, NEW s
  PROVE  /\ EntryAt(v, s).id = IdAt(v, s) /\ EntryAt(v, s).parent = ParentAt(v, s)
         /\ EntryAt(v, s).name = v.files[s].name /\ EntryAt(v, s).path = PathAt(v, s)
         /\ EntryAt(v, s).isDir = v.files[s].isDir /\ EntryAt(v, s).deleted = FALSE
BY DEF EntryAt, EntryAs

\* An identity of a file there is is none that stands for no file.
LEMMA IdIsId ==
  ASSUME NEW v, Met(v), NEW s \in Slots
  PROVE  /\ IdAt(v, s).num \in Nat /\ IdAt(v, s).num # 0 /\ IdAt(v, s) # NoId
         /\ v.kind \in Packed => IdAt(v, s).num = 16 * v.files[s].dir + s /\ IdAt(v, s).num % 16 = s
         /\ v.kind \notin Packed => IdAt(v, s).num = s
         /\ v.kind \notin Packed /\ v.kind # "hfs" => IdAt(v, s).gen = v.files[s].gen
<1>1. s \in Nat /\ 0 < s /\ s < 16
  BY SlotBounds
<1>2. v.files[s].dir = 8 \/ v.files[s].dir = 3
  BY DEF Met, Root, Sub
<1>3. /\ (16 * 8 + s) % 16 = s /\ (16 * 3 + s) % 16 = s
      /\ 16 * 8 + s \in Nat /\ 16 * 3 + s \in Nat /\ 16 * 8 + s # 0 /\ 16 * 3 + s # 0
  BY <1>1
<1>4. ASSUME NEW n, NEW g PROVE ID(n, g).num = n /\ ID(n, g).gen = g
  BY DEF ID
<1>5. NoId.num = 0
  BY DEF NoId, ID
<1>6. CASE v.kind \in Packed
  <2>1. IdAt(v, s) = ID(16 * v.files[s].dir + s, 0)
    BY <1>6 DEF IdAt
  <2>2. IdAt(v, s).num = 16 * v.files[s].dir + s
    BY <1>4, <2>1
  <2>3. IdAt(v, s).num \in Nat /\ IdAt(v, s).num # 0 /\ IdAt(v, s).num % 16 = s
    BY <1>2, <1>3, <2>2
  <2> QED
    BY <1>5, <1>6, <2>2, <2>3
<1>7. CASE v.kind \notin Packed
  <2>1. IdAt(v, s).num = s
    BY <1>4, <1>7 DEF IdAt
  <2>2. v.kind # "hfs" => IdAt(v, s).gen = v.files[s].gen
    BY <1>4, <1>7 DEF IdAt
  <2> QED
    BY <1>1, <1>5, <1>7, <2>1, <2>2
<1> QED
  BY <1>6, <1>7

\* What a walk finds, before deleted entries are dropped.
WalkedAt(v, s, deleted) == EntryAs(v.files[s], IdAt(v, s), ParentAt(v, s), PathAt(v, s), deleted)

\* The walk of every kind of filesystem, in one form.
LEMMA WalkIs ==
  ASSUME NEW v, Met(v)
  PROVE  WalkFiles(v) = IF v.kind \in {"xfs", "hfs"} THEN {WalkedAt(v, s, FALSE) : s \in Live(v)}
                        ELSE {WalkedAt(v, s, ~v.files[s].live) : s \in DOMAIN v.files}
<1>1. v.kind \in {"ntfs", "ext", "xfs", "hfs", "fat", "exfat"}
  BY DEF Met, Kinds, HaveHoles, HaveForks
<1>2. CASE v.kind = "ntfs"
  <2>1. WalkFiles(v) = NtfsWalk(v)
    BY <1>2 DEF WalkFiles
  <2>2. \A s : IdAt(v, s) = ID(s, v.files[s].gen) /\ PathAt(v, s) = PathOf(v.files[s])
               /\ ParentAt(v, s) = ID(v.files[s].dir, SeqNo(v, v.files[s].dir))
    BY <1>2 DEF IdAt, PathAt, ParentAt, Packed
  <2> QED
    BY <1>2, <2>1, <2>2 DEF NtfsWalk, WalkedAt
<1>3. CASE v.kind = "ext"
  <2>1. WalkFiles(v) = ExtWalk(v)
    BY <1>3 DEF WalkFiles
  <2>2. \A s : IdAt(v, s) = ID(s, v.files[s].gen) /\ PathAt(v, s) = PathOf(v.files[s])
               /\ ParentAt(v, s) = ID(v.files[s].dir, 0)
    BY <1>3 DEF IdAt, PathAt, ParentAt, Packed
  <2> QED
    BY <1>3, <2>1, <2>2 DEF ExtWalk, WalkedAt
<1>4. CASE v.kind = "xfs"
  <2>1. WalkFiles(v) = XfsWalk(v)
    BY <1>4 DEF WalkFiles
  <2>2. \A s : IdAt(v, s) = ID(s, v.files[s].gen) /\ PathAt(v, s) = PathOf(v.files[s])
               /\ ParentAt(v, s) = ID(v.files[s].dir, 0)
    BY <1>4 DEF IdAt, PathAt, ParentAt, Packed
  <2> QED
    BY <1>4, <2>1, <2>2 DEF XfsWalk, WalkedAt
<1>5. CASE v.kind = "hfs"
  <2>1. WalkFiles(v) = HfsWalk(v)
    BY <1>5 DEF WalkFiles
  <2>2. \A s : IdAt(v, s) = ID(s, v.files[s].born) /\ PathAt(v, s) = PathOf(v.files[s])
               /\ ParentAt(v, s) = ID(v.files[s].dir, 0)
    BY <1>5 DEF IdAt, PathAt, ParentAt, Packed
  <2> QED
    BY <1>5, <2>1, <2>2 DEF HfsWalk, WalkedAt
<1>6. CASE v.kind = "fat"
  <2>1. WalkFiles(v) = FatWalk(v)
    BY <1>6 DEF WalkFiles
  <2>2. \A s : IdAt(v, s) = Pack(v.files[s].dir, s) /\ PathAt(v, s) = PathOf(v.files[s])
    BY <1>6 DEF IdAt, PathAt, Packed, Pack
  <2>3. \A s \in Slots : ParentAt(v, s) = Pack(v.files[s].dir, 0)
    <3> SUFFICES ASSUME NEW s \in Slots PROVE ParentAt(v, s) = Pack(v.files[s].dir, 0)
      OBVIOUS
    <3>1. v.files[s].dir = 8 \/ v.files[s].dir = 3
      BY DEF Met, Root, Sub
    <3>2. 16 * v.files[s].dir + 0 = 16 * v.files[s].dir
      BY <3>1
    <3> QED
      BY <1>6, <3>2 DEF ParentAt, Packed, Pack
  <2>4. DOMAIN v.files = Slots
    BY DEF Met
  <2> QED
    BY <1>6, <2>1, <2>2, <2>3, <2>4 DEF FatWalk, WalkedAt
<1>7. CASE v.kind = "exfat"
  <2>1. WalkFiles(v) = ExfatWalk(v)
    BY <1>7 DEF WalkFiles
  <2>2. \A s : IdAt(v, s) = Pack(v.files[s].dir, s) /\ PathAt(v, s) = 0
    BY <1>7 DEF IdAt, PathAt, Packed, Pack
  <2>3. \A s \in Slots : ParentAt(v, s) = Pack(v.files[s].dir, 0)
    <3> SUFFICES ASSUME NEW s \in Slots PROVE ParentAt(v, s) = Pack(v.files[s].dir, 0)
      OBVIOUS
    <3>1. v.files[s].dir = 8 \/ v.files[s].dir = 3
      BY DEF Met, Root, Sub
    <3>2. 16 * v.files[s].dir + 0 = 16 * v.files[s].dir
      BY <3>1
    <3> QED
      BY <1>7, <3>2 DEF ParentAt, Packed, Pack
  <2>4. DOMAIN v.files = Slots
    BY DEF Met
  <2> QED
    BY <1>7, <2>1, <2>2, <2>3, <2>4 DEF ExfatWalk, WalkedAt
<1> QED
  BY <1>1, <1>2, <1>3, <1>4, <1>5, <1>6, <1>7

\* An inventory holds one entry for every live file.
LEMMA InventoryIs ==
  ASSUME NEW v, Met(v)
  PROVE  /\ Inventory(v) = {EntryAt(v, s) : s \in Live(v)}
         /\ Live(v) \subseteq Slots /\ IsFiniteSet(Inventory(v))
<1>1. DOMAIN v.files = Slots /\ Live(v) \subseteq Slots /\ \A s \in Slots : v.files[s].live \in BOOLEAN
  BY DEF Met, Live
<1>2. \A s \in Live(v) : v.files[s].live = TRUE
  BY <1>1, Zenon DEF Live
<1>3. \A s \in Slots \ Live(v) : v.files[s].live = FALSE
  BY <1>1, Zenon DEF Live
<1>4. \A s \in Slots : \A d : WalkedAt(v, s, d).id # NoId /\ WalkedAt(v, s, d).deleted = d
  BY IdIsId DEF WalkedAt, EntryAs
<1>5. \A s : EntryAt(v, s) = WalkedAt(v, s, FALSE)
  BY DEF EntryAt, WalkedAt
<1>6. Inventory(v) = {EntryAt(v, s) : s \in Live(v)}
  <2>1. CASE v.kind \in {"xfs", "hfs"}
    <3>1. WalkFiles(v) = {WalkedAt(v, s, FALSE) : s \in Live(v)}
      BY <2>1, WalkIs
    <3>2. \A s \in Live(v) : EntryAt(v, s).id # NoId /\ ~EntryAt(v, s).deleted
      <4>1. \A s \in Live(v) : EntryAt(v, s).id = IdAt(v, s) /\ EntryAt(v, s).deleted = FALSE
        BY EntryFields
      <4>2. \A s \in Live(v) : IdAt(v, s) # NoId
        BY <1>1, IdIsId
      <4> QED
        BY <4>1, <4>2
    <3>3. WalkFiles(v) = {EntryAt(v, s) : s \in Live(v)}
      BY <1>5, <3>1
    <3>4. \A e \in WalkFiles(v) : e.id # NoId /\ ~e.deleted
      BY <3>2, <3>3
    <3>5. Inventory(v) = WalkFiles(v)
      BY <3>4 DEF Inventory
    <3> QED
      BY <3>3, <3>5
  <2>2. CASE v.kind \notin {"xfs", "hfs"}
    <3>1. WalkFiles(v) = {WalkedAt(v, s, ~v.files[s].live) : s \in Slots}
      BY <1>1, <2>2, WalkIs
    <3>2. \A s \in Live(v) : WalkedAt(v, s, ~v.files[s].live) = EntryAt(v, s)
      <4>1. \A s \in Live(v) : (~v.files[s].live) = FALSE
        BY <1>2
      <4> QED
        BY <1>5, <4>1
    <3>3. \A s \in Slots \ Live(v) : WalkedAt(v, s, ~v.files[s].live).deleted
      <4>1. \A s \in Slots \ Live(v) : (~v.files[s].live) = TRUE
        BY <1>3
      <4>2. \A s \in Slots \ Live(v) : WalkedAt(v, s, ~v.files[s].live) = WalkedAt(v, s, TRUE)
        BY <4>1
      <4>3. \A s \in Slots : WalkedAt(v, s, TRUE).deleted = TRUE
        BY <1>4
      <4> QED
        BY <4>2, <4>3
    <3>4. \A s \in Live(v) : EntryAt(v, s).id # NoId /\ ~EntryAt(v, s).deleted
      <4>1. \A s \in Live(v) : EntryAt(v, s).id = IdAt(v, s) /\ EntryAt(v, s).deleted = FALSE
        BY EntryFields
      <4>2. \A s \in Live(v) : IdAt(v, s) # NoId
        BY <1>1, IdIsId
      <4> QED
        BY <4>1, <4>2
    <3>5. ASSUME NEW e \in WalkFiles(v), ~e.deleted PROVE \E s \in Live(v) : e = EntryAt(v, s)
      <4>1. PICK s \in Slots : e = WalkedAt(v, s, ~v.files[s].live)
        BY <3>1
      <4>2. s \in Live(v)
        BY <3>3, <3>5, <4>1
      <4> QED
        BY <3>2, <4>1, <4>2
    <3>6. \A s \in Live(v) : EntryAt(v, s) \in WalkFiles(v)
      BY <1>1, <3>1, <3>2
    <3>7. \A e \in Inventory(v) : \E s \in Live(v) : e = EntryAt(v, s)
      BY <3>5 DEF Inventory
    <3>8. \A s \in Live(v) : EntryAt(v, s) \in Inventory(v)
      BY <3>4, <3>6 DEF Inventory
    <3> QED
      BY <3>7, <3>8
  <2> QED
    BY <2>1, <2>2
<1>7. IsFiniteSet(Inventory(v))
  <2> DEFINE f == [s \in Live(v) |-> EntryAt(v, s)]
  <2>1. IsFiniteSet(Live(v))
    BY <1>1, SlotBounds, FS_Subset
  <2>2. DOMAIN f = Live(v) /\ Inventory(v) = {f[s] : s \in Live(v)}
    BY <1>6
  <2> HIDE DEF f
  <2> QED
    BY <2>1, <2>2, ImageFinite
<1> QED
  BY <1>1, <1>6, <1>7

\* No two files of a volume, and no two of its states, share an identity but
\* where it is the same slot.
LEMMA IdTellsSlot ==
  ASSUME NEW v, Met(v), NEW w, Met(w), v.kind = w.kind,
         NEW s \in Slots, NEW t \in Slots, IdAt(v, s) = IdAt(w, t)
  PROVE  s = t
<1>1. CASE v.kind \in Packed
  <2>1. IdAt(v, s).num % 16 = s
    BY <1>1, IdIsId
  <2>2. IdAt(w, t).num % 16 = t
    BY <1>1, IdIsId
  <2> QED
    BY <2>1, <2>2
<1>2. CASE v.kind \notin Packed
  <2>1. IdAt(v, s).num = s
    BY <1>2, IdIsId
  <2>2. IdAt(w, t).num = t
    BY <1>2, IdIsId
  <2> QED
    BY <2>1, <2>2
<1> QED
  BY <1>1, <1>2

\* An entry of the inventory, and its slot.
LEMMA EntryTellsSlot ==
  ASSUME NEW v, Met(v), NEW e \in Inventory(v)
  PROVE  \E s \in Live(v) : e = EntryAt(v, s) /\ \A d \in Inventory(v) : d.id = e.id => d = e
<1>1. PICK s \in Live(v) : e = EntryAt(v, s)
  BY InventoryIs
<1>2. ASSUME NEW d \in Inventory(v), d.id = e.id PROVE d = e
  <2>1. PICK t \in Live(v) : d = EntryAt(v, t)
    BY InventoryIs
  <2>2. s \in Slots /\ t \in Slots /\ IdAt(v, s) = IdAt(v, t)
    <3>1. e.id = IdAt(v, s) /\ d.id = IdAt(v, t)
      BY <1>1, <2>1, EntryFields
    <3>2. Live(v) \subseteq Slots
      BY InventoryIs
    <3> QED
      BY <1>2, <3>1, <3>2
  <2>3. s = t
    BY <2>2, IdTellsSlot
  <2> QED
    BY <1>1, <2>1, <2>3
<1> QED
  BY <1>1, <1>2

\* The units of a byte, by content and fork.
LEMMA UnitsAre ==
  ASSUME NEW f, NEW b \in Nat, NEW u
  PROVE  u \in UnitsOf(f, b) <=> HasUnit(f.map, b, u) \/ HasFork(f, b, u)
BY DEF UnitsOf, HasUnit, HasFork

\* Extents hold bytes of a file where they are.
MapsTruly(extents, f)     == \A b \in Nat : \A u : Maps(extents, b, u) => u \in UnitsOf(f, b)
MapsAll(extents, f) == \A b \in Nat : \A u \in UnitsOf(f, b) : Maps(extents, b, u)

\* Of every filesystem: a file's extents are where its bytes are, all of them
\* unless its map is lost; and only NTFS passes over a map that is.
LEMMA ExtentsAre ==
  ASSUME NEW v, Met(v), NEW s \in Live(v)
  PROVE  LET f   == v.files[s]
             map == ExtentsForFile(v, IdAt(v, s))
         IN  /\ map.extents \subseteq Extents /\ IsFiniteSet(map.extents)
             /\ f.lost /\ v.kind # "ntfs" => map.err = TRUE
             /\ ~(f.lost /\ v.kind # "ntfs") => map.err = FALSE /\ MapsTruly(map.extents, f)
             /\ ~f.lost => MapsAll(map.extents, f)
<1> DEFINE f   == v.files[s]
           map == ExtentsForFile(v, IdAt(v, s))
           id  == IdAt(v, s)
           L   == Located(Runs(f.map))
           C   == Converted(Runs(f.map))
           LF  == Located(ForkRuns(f))
           CF  == Converted(ForkRuns(f))
<1>1. /\ s \in Slots /\ f.lost \in BOOLEAN /\ f.map \in Seq(Nat) /\ f.fork \in Nat
      /\ \A k \in DOMAIN f.map : f.map[k] = 0 => v.kind \in HaveHoles
      /\ f.fork # 0 => v.kind \in HaveForks
  BY DEF Met, Live
<1>2. v.kind \in {"ntfs", "ext", "xfs", "hfs", "fat", "exfat"}
  BY DEF Met, Kinds, HaveHoles, HaveForks
<1>3. /\ v.kind \in Packed => id.num % 16 = s
      /\ v.kind \notin Packed => id.num = s
      /\ v.kind \notin Packed /\ v.kind # "hfs" => id.gen = f.gen
  BY <1>1, IdIsId
<1>4. /\ L \subseteq Extents /\ IsFiniteSet(L)
      /\ \A b \in Nat : \A u : Maps(L, b, u) <=> HasUnit(f.map, b, u)
  BY <1>1, LocatedMaps
<1>5. /\ LF \subseteq Extents /\ IsFiniteSet(LF) /\ CF \subseteq Extents /\ IsFiniteSet(CF)
      /\ \A b \in Nat : \A u : /\ Maps(LF, b, u) <=> HasFork(f, b, u)
                               /\ Maps(CF, b, u) <=> HasFork(f, b, u)
  BY <1>1, ForkMaps
<1>6. v.kind \notin HaveHoles =>
         /\ C \subseteq Extents /\ IsFiniteSet(C)
         /\ \A b \in Nat : \A u : Maps(C, b, u) <=> HasUnit(f.map, b, u)
  BY <1>1, ConvertedMaps
<1>7. v.kind \notin HaveForks => \A b \in Nat : \A u : ~HasFork(f, b, u)
  BY <1>1 DEF HasFork
<1>8. \A b \in Nat : \A u : u \in UnitsOf(f, b) <=> HasUnit(f.map, b, u) \/ HasFork(f, b, u)
  BY UnitsAre
<1>9. ASSUME NEW D, NEW E PROVE \A b, u : Maps(D \cup E, b, u) <=> Maps(D, b, u) \/ Maps(E, b, u)
  BY MapsOfBoth
<1>10. ASSUME NEW rs PROVE /\ Mapped(rs).err = FALSE /\ Mapped(rs).extents = rs
                           /\ Unmapped.err = TRUE /\ Unmapped.extents = {}
  BY DEF Mapped, Unmapped
<1>11. IsFiniteSet({}) /\ {} \subseteq Extents
  BY FS_EmptySet
<1> DEFINE Answer(full) == map = IF f.lost THEN Unmapped ELSE Mapped(full)
<1>12. ASSUME NEW full, v.kind # "ntfs", Answer(full), full \subseteq Extents, IsFiniteSet(full),
              \A b \in Nat : \A u : Maps(full, b, u) <=> HasUnit(f.map, b, u) \/ HasFork(f, b, u)
       PROVE  /\ map.extents \subseteq Extents /\ IsFiniteSet(map.extents)
              /\ f.lost /\ v.kind # "ntfs" => map.err = TRUE
              /\ ~(f.lost /\ v.kind # "ntfs") => map.err = FALSE /\ MapsTruly(map.extents, f)
              /\ ~f.lost => MapsAll(map.extents, f)
  <2> HIDE DEF map, f
  <2>1. CASE f.lost
    BY <1>10, <1>11, <1>12, <2>1
  <2>2. CASE ~f.lost
    <3>1. map.err = FALSE /\ map.extents = full
      BY <1>10, <1>12, <2>2
    <3>2. MapsTruly(full, f) /\ MapsAll(full, f)
      BY <1>8, <1>12 DEF MapsTruly, MapsAll
    <3> QED
      BY <1>12, <2>2, <3>1, <3>2
  <2> QED
    BY <2>1, <2>2
<1>13. CASE v.kind = "ntfs"
  <2>1. map = Mapped((IF f.lost THEN {} ELSE L) \cup LF)
    BY <1>3, <1>13 DEF ExtentsForFile, NtfsExtents, Packed
  <2> DEFINE some == IF f.lost THEN {} ELSE L
  <2>2. map.err = FALSE /\ map.extents = some \cup LF
    BY <1>10, <2>1
  <2>3. some \subseteq Extents /\ IsFiniteSet(some)
    BY <1>4, <1>11
  <2>4. \A b \in Nat : \A u : /\ Maps(some, b, u) => HasUnit(f.map, b, u)
                              /\ ~f.lost => (Maps(some, b, u) <=> HasUnit(f.map, b, u))
    <3>1. \A b, u : ~Maps({}, b, u)
      BY DEF Maps
    <3> QED
      BY <1>4, <3>1
  <2> HIDE DEF some, map, L, LF, f
  <2>5. some \cup LF \subseteq Extents /\ IsFiniteSet(some \cup LF)
    BY <1>5, <2>3, FS_Union
  <2>6. \A b, u : Maps(some \cup LF, b, u) <=> Maps(some, b, u) \/ Maps(LF, b, u)
    BY <1>9
  <2>7. MapsTruly(some \cup LF, f) /\ (~f.lost => MapsAll(some \cup LF, f))
    BY <1>5, <1>8, <2>4, <2>6 DEF MapsTruly, MapsAll
  <2>8. ~(f.lost /\ v.kind # "ntfs")
    BY <1>13
  <2> QED
    BY <2>2, <2>5, <2>7, <2>8 DEF map, f
<1>14. CASE v.kind = "ext"
  <2>1. Answer(L)
    BY <1>3, <1>14 DEF ExtentsForFile, ExtExtents, Packed
  <2>2. \A b \in Nat : \A u : ~HasFork(f, b, u)
    BY <1>7, <1>14 DEF HaveForks
  <2> HIDE DEF Answer, L, map, f
  <2> QED
    BY <1>4, <1>12, <1>14, <2>1, <2>2 DEF map, f
<1>15. CASE v.kind = "xfs"
  <2>1. Answer(L \cup LF)
    BY <1>3, <1>15 DEF ExtentsForFile, XfsExtents, Packed
  <2> HIDE DEF Answer, L, LF, map, f
  <2>2. L \cup LF \subseteq Extents /\ IsFiniteSet(L \cup LF)
    BY <1>4, <1>5, FS_Union
  <2>3. \A b \in Nat : \A u : Maps(L \cup LF, b, u) <=> HasUnit(f.map, b, u) \/ HasFork(f, b, u)
    BY <1>4, <1>5, <1>9
  <2> QED
    BY <1>12, <1>15, <2>1, <2>2, <2>3 DEF map, f
<1>16. CASE v.kind = "hfs"
  <2>1. Answer(C \cup CF)
    BY <1>3, <1>16 DEF ExtentsForFile, HfsExtents, Packed
  <2>2. /\ C \subseteq Extents /\ IsFiniteSet(C)
        /\ \A b \in Nat : \A u : Maps(C, b, u) <=> HasUnit(f.map, b, u)
    BY <1>6, <1>16 DEF HaveHoles
  <2> HIDE DEF Answer, C, CF, map, f
  <2>3. C \cup CF \subseteq Extents /\ IsFiniteSet(C \cup CF)
    BY <1>5, <2>2, FS_Union
  <2>4. \A b \in Nat : \A u : Maps(C \cup CF, b, u) <=> HasUnit(f.map, b, u) \/ HasFork(f, b, u)
    BY <1>5, <1>9, <2>2
  <2> QED
    BY <1>12, <1>16, <2>1, <2>3, <2>4 DEF map, f
<1>17. CASE v.kind \in {"fat", "exfat"}
  <2>1. Answer(C)
    <3>1. CASE v.kind = "fat"
      BY <1>3, <3>1 DEF ExtentsForFile, FatExtents, Packed
    <3>2. CASE v.kind = "exfat"
      BY <1>3, <3>2 DEF ExtentsForFile, ExfatExtents, Packed
    <3> QED
      BY <1>17, <3>1, <3>2
  <2>2. /\ C \subseteq Extents /\ IsFiniteSet(C)
        /\ \A b \in Nat : \A u : Maps(C, b, u) <=> HasUnit(f.map, b, u)
    BY <1>6, <1>17 DEF HaveHoles
  <2>3. \A b \in Nat : \A u : ~HasFork(f, b, u)
    BY <1>7, <1>17 DEF HaveForks
  <2>4. v.kind # "ntfs"
    BY <1>17
  <2> HIDE DEF Answer, C, map, f
  <2> QED
    BY <1>12, <2>1, <2>2, <2>3, <2>4 DEF map, f
<1> QED
  BY <1>2, <1>13, <1>14, <1>15, <1>16, <1>17

\* What was written in a file, in bytes of the file.
LEMMA ChangedWithinIs ==
  ASSUME NEW v, Met(v), NEW s \in Live(v), NEW written \in Seq(SomeRange)
  PROVE  LET f == v.files[s]
             c == ChangedWithin(v, IdAt(v, s), written)
         IN  /\ c.ranges \in Seq(SomeRange) /\ Normal(c.ranges)
             /\ f.lost /\ v.kind # "ntfs" => c.err = TRUE
             /\ ~(f.lost /\ v.kind # "ntfs") =>
                  /\ c.err = FALSE
                  /\ \A b \in AllBytes(c.ranges) : b \in Nat /\ UnitsOf(f, b) \cap AllBytes(written) # {}
             /\ ~f.lost => \A b \in Nat : UnitsOf(f, b) \cap AllBytes(written) # {} => b \in AllBytes(c.ranges)
<1> DEFINE f   == v.files[s]
           c   == ChangedWithin(v, IdAt(v, s), written)
           map == ExtentsForFile(v, IdAt(v, s))
           E   == {x \in map.extents : x.len > 0}
           g   == [e \in E |-> InFile(e, written)]
           all == UNION {InFile(e, written) : e \in E}
<1>1. /\ map.extents \subseteq Extents /\ IsFiniteSet(map.extents)
      /\ f.lost /\ v.kind # "ntfs" => map.err = TRUE
      /\ ~(f.lost /\ v.kind # "ntfs") => map.err = FALSE /\ MapsTruly(map.extents, f)
      /\ ~f.lost => MapsAll(map.extents, f)
  BY ExtentsAre
<1>2. c.err = map.err /\ c.ranges = Coalesce(all)
  BY DEF ChangedWithin
<1> HIDE DEF c, map, f
<1>3. E \subseteq Extents /\ IsFiniteSet(E)
  <2>1. E \in SUBSET map.extents
    OBVIOUS
  <2> QED
    BY <1>1, <2>1, FS_Subset
<1>4. \A e \in E : /\ InFile(e, written) \subseteq SomeRange /\ IsFiniteSet(InFile(e, written))
                   /\ \A b : b \in BytesOf(InFile(e, written)) <=>
                               /\ b \in Nat /\ e.file <= b /\ b < e.file + e.len
                               /\ e.at + (b - e.file) \in AllBytes(written)
  BY <1>3, InFileBytes
<1>5. all \subseteq SomeRange
  BY <1>4
<1>6. IsFiniteSet(all)
  <2>1. all = UNION {g[e] : e \in E} /\ DOMAIN g = E /\ \A e \in E : IsFiniteSet(g[e])
    BY <1>4
  <2> HIDE DEF g, all, E
  <2>2. IsFiniteSet(UNION {g[e] : e \in E})
    BY <1>3, <2>1, UnionFinite
  <2> QED
    BY <2>1, <2>2
<1>7. \A b : b \in BytesOf(all) <=> \E e \in E : b \in BytesOf(InFile(e, written))
  BY DEF BytesOf
<1>8. \A b : b \in BytesOf(all) <=> b \in Nat /\ \E u \in AllBytes(written) : Maps(map.extents, b, u)
  <2>1. ASSUME NEW b, NEW e \in E, b \in BytesOf(InFile(e, written))
        PROVE  b \in Nat /\ \E u \in AllBytes(written) : Maps(map.extents, b, u)
    <3>1. b \in Nat /\ e.file <= b /\ b < e.file + e.len /\ e.at + (b - e.file) \in AllBytes(written)
      BY <1>4, <2>1
    <3>2. Maps(map.extents, b, e.at + (b - e.file))
      BY <3>1 DEF Maps
    <3> QED
      BY <3>1, <3>2
  <2>2. ASSUME NEW b \in Nat, NEW u \in AllBytes(written), Maps(map.extents, b, u)
        PROVE  \E e \in E : b \in BytesOf(InFile(e, written))
    <3>1. PICK e \in map.extents : e.len > 0 /\ e.file <= b /\ b < e.file + e.len /\ u = e.at + (b - e.file)
      BY <2>2 DEF Maps
    <3>2. e \in E
      BY <3>1
    <3> QED
      BY <1>4, <3>1, <3>2
  <2> HIDE DEF all, E
  <2> QED
    BY <1>7, <2>1, <2>2
<1>9. c.ranges \in Seq(SomeRange) /\ Normal(c.ranges) /\ AllBytes(c.ranges) = BytesOf(all)
  <2>1. all \in SUBSET Ranges
    BY <1>5 DEF Ranges, SomeRange
  <2> HIDE DEF all
  <2> QED
    BY <1>2, <1>6, <2>1, CoalesceKeeps
<1> HIDE DEF all, E
<1>10. ASSUME ~(f.lost /\ v.kind # "ntfs"), NEW b \in AllBytes(c.ranges)
       PROVE  b \in Nat /\ UnitsOf(f, b) \cap AllBytes(written) # {}
  BY <1>1, <1>8, <1>9, <1>10 DEF MapsTruly
<1>11. ASSUME ~f.lost, NEW b \in Nat, UnitsOf(f, b) \cap AllBytes(written) # {} PROVE b \in AllBytes(c.ranges)
  BY <1>1, <1>8, <1>9, <1>11 DEF MapsAll
<1> QED
  BY <1>1, <1>2, <1>9, <1>10, <1>11 DEF c, f

-----------------------------------------------------------------------------
(* The order of the list, and its cut.                                      *)

\* A set of changes, each of a kind and with a place in the list.
Sortable(changes) == \A c \in changes : c.kind \in DOMAIN KindRank /\ SortKey(c) \in Nat
Place(c) == 5 * SortKey(c) + KindRank[c.kind]

\* The order of the list is an order of numbers.
LEMMA PlaceIs ==
  ASSUME NEW changes, Sortable(changes)
  PROVE  /\ \A c \in changes : Place(c) \in Nat
         /\ \A c, d \in changes : Before(c, d) <=> Place(c) < Place(d)
<1>1. \A c \in changes : KindRank[c.kind] \in 1..4
  BY DEF KindRank, Sortable
<1>2. \A k, l \in Nat : \A q, r \in 1..4 :
        (IF k # l THEN k < l ELSE q < r) <=> 5 * k + q < 5 * l + r
  OBVIOUS
<1> QED
  BY <1>1, <1>2 DEF Before, Place, Sortable

\* A list can be cut at any length.
LEMMA CutExists ==
  ASSUME NEW changes, IsFiniteSet(changes), Sortable(changes), NEW max \in Nat, max <= Cardinality(changes)
  PROVE  \E kept \in SUBSET changes :
           Cardinality(kept) = max /\ \A c \in kept, d \in changes \ kept : ~Before(d, c)
<1> DEFINE Cut(k) == \E kept \in SUBSET changes :
                       Cardinality(kept) = k /\ \A c \in kept, d \in changes \ kept : ~Before(d, c)
           S == {k \in Nat : k <= Cardinality(changes) => Cut(k)}
<1>1. 0 \in S
  <2>1. Cardinality({}) = 0
    BY FS_EmptySet
  <2> QED
    BY <2>1
<1>2. ASSUME NEW k \in S, k + 1 <= Cardinality(changes)
      PROVE  Cut(k + 1)
  <2>1. Cardinality(changes) \in Nat
    BY FS_CardinalityType
  <2>2. k \in Nat /\ Cut(k)
    BY <1>2, <2>1
  <2>3. PICK kept \in SUBSET changes : Cardinality(kept) = k /\ \A c \in kept, d \in changes \ kept : ~Before(d, c)
    BY <2>2
  <2> DEFINE rest   == changes \ kept
             places == {Place(d) : d \in rest}
  <2>4. IsFiniteSet(kept) /\ rest # {}
    <3>1. IsFiniteSet(kept)
      BY FS_Subset
    <3>2. kept # changes
      BY <1>2, <2>1, <2>2, <2>3
    <3> QED
      BY <3>1, <3>2
  <2>5. places \in SUBSET Nat /\ places # {}
    BY <2>4, PlaceIs
  <2>6. PICK d \in rest : \A e \in rest : Place(d) <= Place(e)
    <3> HIDE DEF rest
    <3>1. PICK m \in places : \A n \in places : m <= n
      <4> HIDE DEF places
      <4> QED
        BY <2>5, LeastExists
    <3> QED
      BY <3>1
  <2>7. Cardinality(kept \cup {d}) = k + 1
    BY <2>3, <2>4, <2>6, FS_AddElement
  <2>8. ASSUME NEW c \in kept \cup {d}, NEW e \in changes \ (kept \cup {d})
        PROVE  ~Before(e, c)
    <3>1. CASE c \in kept
      BY <2>3, <2>8, <3>1
    <3>2. CASE c = d
      <4>1. Place(c) <= Place(e) /\ Place(c) \in Nat /\ Place(e) \in Nat
        BY <2>6, <2>8, <3>2, PlaceIs
      <4>2. ~(Place(e) < Place(c))
        BY <4>1
      <4> QED
        BY <2>6, <2>8, <3>2, <4>2, PlaceIs
    <3> QED
      BY <2>8, <3>1, <3>2
  <2>9. kept \cup {d} \in SUBSET changes
    BY <2>6
  <2> QED
    BY <2>7, <2>8, <2>9
<1> HIDE DEF Cut
<1>3. \A k \in S : k + 1 \in S
  BY <1>2
<1>4. S = Nat
  <2> HIDE DEF S
  <2>1. S \in SUBSET Nat
    BY DEF S
  <2> QED
    BY <1>1, <1>3, <2>1, SetInduction
<1>5. Cut(max)
  BY <1>4
<1> QED
  BY <1>5 DEF Cut

\* What is left of a list is part of it, and a note tells of what is not.
LEMMA TruncateKeeps ==
  ASSUME NEW changes, IsFiniteSet(changes), Sortable(changes), NEW max \in Nat
  PROVE  LET t == Truncate(changes, max)
         IN  /\ t.list \subseteq changes
             /\ Note("truncated", NoId) \notin t.notes => t.list = changes
             /\ t.list = {} => changes = {}
             /\ t.notes \subseteq {Note("truncated", NoId)}
<1> DEFINE t == Truncate(changes, max)
<1>0. Cardinality(changes) \in Nat
  BY FS_CardinalityType
<1>1. CASE max > 0 /\ Cardinality(changes) > max
  <2>1. t = [list |-> Kept(changes, max), notes |-> {Note("truncated", NoId)}]
    BY <1>1 DEF Truncate
  <2>2. max <= Cardinality(changes)
    BY <1>0, <1>1
  <2>3. Kept(changes, max) \in SUBSET changes /\ Cardinality(Kept(changes, max)) = max
    BY <2>2, CutExists DEF Kept
  <2>4. Kept(changes, max) # {}
    BY <1>1, <2>3, FS_EmptySet
  <2> QED
    BY <2>1, <2>3, <2>4
<1>2. CASE ~(max > 0 /\ Cardinality(changes) > max)
  BY <1>2 DEF Truncate
<1> QED
  BY <1>1, <1>2

-----------------------------------------------------------------------------
(* The changes two inventories give.                                        *)

\* A file of the newer state that the older one has too, by its identity.
Same(from, to, s) == s \in Live(from) /\ s \in Live(to) /\ IdAt(from, s) = IdAt(to, s)
Lost(v, s)        == v.files[s].lost /\ v.kind # "ntfs"
RangesAt(to, s, written) == ChangedWithin(to, IdAt(to, s), written).ranges
KindAt(from, to, s) ==
  IF ~Same(from, to, s) THEN "added"
  ELSE IF from.files[s].name # to.files[s].name \/ ParentAt(from, s) # ParentAt(to, s) THEN "renamed"
  ELSE "modified"
ChangeAt(from, to, s, written, base) ==
  [kind |-> KindAt(from, to, s), entry |-> EntryAt(to, s),
   prev |-> IF Same(from, to, s) THEN EntryAt(from, s) ELSE NoEntry,
   modified |-> RangesAt(to, s, written) # <<>>, ranges |-> RangesAt(to, s, written),
   confidence |-> base, evidence |-> <<>>]
Seen(from, to, written, opts) ==
  {s \in Live(to) : /\ Wanted(to.files[s], opts) /\ ~Lost(to, s)
                    /\ KindAt(from, to, s) = "modified" => RangesAt(to, s, written) # <<>>}
Gone(from, to, opts) == {t \in Live(from) : Wanted(from.files[t], opts) /\ ~Same(from, to, t)}
Within(to, written)  == [e \in Inventory(to) |-> ChangedWithin(to, e.id, written)]

\* The entries of the older inventory with a file's identity.
LEMMA PrevsAre ==
  ASSUME NEW from, Met(from), NEW to, Met(to), from.kind = to.kind, NEW s \in Live(to)
  PROVE  {e \in Inventory(from) : e.id = EntryAt(to, s).id} = IF Same(from, to, s) THEN {EntryAt(from, s)} ELSE {}
<1>1. Inventory(from) = {EntryAt(from, t) : t \in Live(from)} /\ Live(from) \subseteq Slots /\ Live(to) \subseteq Slots
  BY InventoryIs
<1>2. EntryAt(to, s).id = IdAt(to, s) /\ \A t \in Live(from) : EntryAt(from, t).id = IdAt(from, t)
  BY EntryFields
<1>3. \A t \in Live(from) : IdAt(from, t) = IdAt(to, s) => t = s
  BY <1>1, IdTellsSlot
<1>4. CASE Same(from, to, s)
  <2>1. \A e \in Inventory(from) : e.id = EntryAt(to, s).id => e = EntryAt(from, s)
    BY <1>1, <1>2, <1>3
  <2>2. EntryAt(from, s) \in Inventory(from) /\ EntryAt(from, s).id = EntryAt(to, s).id
    BY <1>1, <1>2, <1>4 DEF Same
  <2> QED
    BY <1>4, <2>1, <2>2
<1>5. CASE ~Same(from, to, s)
  <2>1. \A e \in Inventory(from) : e.id # EntryAt(to, s).id
    BY <1>1, <1>2, <1>3, <1>5 DEF Same
  <2> QED
    BY <1>5, <2>1
<1> QED
  BY <1>4, <1>5

\* What one entry of the newer inventory comes to.
LEMMA ChangeOfIs ==
  ASSUME NEW from, Met(from), NEW to, Met(to), from.kind = to.kind, NEW s \in Live(to), NEW written, NEW base
  PROVE  ChangeOf(EntryAt(to, s), Inventory(from), ChangedWithin(to, IdAt(to, s), written), base)
           = IF KindAt(from, to, s) = "modified" /\ RangesAt(to, s, written) = <<>> THEN {}
             ELSE {ChangeAt(from, to, s, written, base)}
<1> DEFINE was    == Inventory(from)
           entry  == EntryAt(to, s)
           within == ChangedWithin(to, IdAt(to, s), written)
           prevs  == {e \in was : e.id = entry.id}
           prev   == IF prevs = {} THEN NoEntry ELSE CHOOSE e \in prevs : TRUE
           kind   == IF prevs = {} THEN "added"
                     ELSE IF prev.name # entry.name \/ prev.parent # entry.parent THEN "renamed"
                     ELSE "modified"
<1>1. ChangeOf(entry, was, within, base) =
        IF kind = "modified" /\ ~(within.ranges # <<>>) THEN {}
        ELSE {[kind |-> kind, entry |-> entry, prev |-> prev, modified |-> within.ranges # <<>>,
               ranges |-> within.ranges, confidence |-> base, evidence |-> <<>>]}
  BY DEF ChangeOf
<1>2. prevs = IF Same(from, to, s) THEN {EntryAt(from, s)} ELSE {}
  BY PrevsAre
<1> HIDE DEF prevs
<1>3. prev = IF Same(from, to, s) THEN EntryAt(from, s) ELSE NoEntry
  BY <1>2
<1>4. kind = KindAt(from, to, s)
  <2>1. entry.name = to.files[s].name /\ entry.parent = ParentAt(to, s)
    BY EntryFields
  <2>2. EntryAt(from, s).name = from.files[s].name /\ EntryAt(from, s).parent = ParentAt(from, s)
    BY EntryFields
  <2> QED
    BY <1>2, <1>3, <2>1, <2>2 DEF KindAt
<1> HIDE DEF prev, kind, was, entry
<1> QED
  BY <1>1, <1>3, <1>4 DEF ChangeAt, RangesAt, within, entry, was

\* The changes between two states, before the journal is asked.
LEMMA ChangesAre ==
  ASSUME NEW from, Met(from), NEW to, Met(to), from.kind = to.kind, NEW written \in Seq(SomeRange),
         NEW base, NEW opts
  PROVE  ChangesIn(Inventory(from), Inventory(to), Within(to, written), base, opts)
           = {ChangeAt(from, to, s, written, base) : s \in Seen(from, to, written, opts)}
             \cup {Deletion(EntryAt(from, t), base) : t \in Gone(from, to, opts)}
<1> DEFINE was == Inventory(from)
           new == Inventory(to)
           within == Within(to, written)
           seen == UNION {ChangeOf(e, was, within[e], base) : e \in {x \in new : Wanted(x, opts) /\ ~within[x].err}}
           gone == {Deletion(p, base) : p \in {q \in was : Wanted(q, opts) /\ ~\E e \in new : e.id = q.id}}
<1>1. /\ was = {EntryAt(from, t) : t \in Live(from)} /\ Live(from) \subseteq Slots
      /\ new = {EntryAt(to, t) : t \in Live(to)} /\ Live(to) \subseteq Slots
  BY InventoryIs
<1>2. \A v, s : /\ EntryAt(v, s).id = IdAt(v, s) 
                /\ Wanted(EntryAt(v, s), opts) <=> Wanted(v.files[s], opts)
  <2> TAKE v, s
  <2>1. EntryAt(v, s).id = IdAt(v, s) /\ EntryAt(v, s).isDir = v.files[s].isDir
    BY EntryFields
  <2> QED
    BY <2>1 DEF Wanted
<1>3. \A s \in Live(to) : within[EntryAt(to, s)] = ChangedWithin(to, IdAt(to, s), written)
  BY <1>1, <1>2 DEF Within
<1>4. \A s \in Live(to) : ChangedWithin(to, IdAt(to, s), written).err = TRUE <=> Lost(to, s)
  BY ChangedWithinIs DEF Lost
<1>4a. \A s \in Live(to) : ChangedWithin(to, IdAt(to, s), written).err \in BOOLEAN
  BY ChangedWithinIs
<1>5. \A s \in Live(to) : ChangeOf(EntryAt(to, s), was, within[EntryAt(to, s)], base)
           = IF KindAt(from, to, s) = "modified" /\ RangesAt(to, s, written) = <<>> THEN {}
             ELSE {ChangeAt(from, to, s, written, base)}
  <2> TAKE s \in Live(to)
  <2>1. within[EntryAt(to, s)] = ChangedWithin(to, IdAt(to, s), written)
    BY <1>3
  <2>2. ChangeOf(EntryAt(to, s), Inventory(from), ChangedWithin(to, IdAt(to, s), written), base)
           = IF KindAt(from, to, s) = "modified" /\ RangesAt(to, s, written) = <<>> THEN {}
             ELSE {ChangeAt(from, to, s, written, base)}
    BY ChangeOfIs
  <2> HIDE DEF within
  <2> QED
    BY <2>1, <2>2
<1>6. \A c : c \in seen <=> \E s \in Seen(from, to, written, opts) : c = ChangeAt(from, to, s, written, base)
  <2>1. \A c : c \in seen <=> \E s \in Live(to) : /\ Wanted(EntryAt(to, s), opts) /\ ~within[EntryAt(to, s)].err
                                                  /\ c \in ChangeOf(EntryAt(to, s), was, within[EntryAt(to, s)], base)
    <3> HIDE DEF was, within
    <3> QED
      BY <1>1
  <2>2. \A s \in Live(to) : /\ Wanted(EntryAt(to, s), opts) <=> Wanted(to.files[s], opts)
                            /\ ~within[EntryAt(to, s)].err <=> ~Lost(to, s)
    BY <1>2, <1>3, <1>4, <1>4a
  <2> HIDE DEF seen, was, within
  <2>3. ASSUME NEW c \in seen PROVE \E s \in Seen(from, to, written, opts) : c = ChangeAt(from, to, s, written, base)
    <3>1. PICK s \in Live(to) : /\ Wanted(EntryAt(to, s), opts) /\ ~within[EntryAt(to, s)].err
                                /\ c \in ChangeOf(EntryAt(to, s), was, within[EntryAt(to, s)], base)
      BY <2>1
    <3>2. /\ ~(KindAt(from, to, s) = "modified" /\ RangesAt(to, s, written) = <<>>)
          /\ c = ChangeAt(from, to, s, written, base)
      BY <1>5, <3>1
    <3>3. s \in Seen(from, to, written, opts)
      BY <2>2, <3>1, <3>2 DEF Seen
    <3> QED
      BY <3>2, <3>3
  <2>4. ASSUME NEW s \in Seen(from, to, written, opts) PROVE ChangeAt(from, to, s, written, base) \in seen
    <3>1. /\ s \in Live(to) /\ Wanted(to.files[s], opts) /\ ~Lost(to, s)
          /\ ~(KindAt(from, to, s) = "modified" /\ RangesAt(to, s, written) = <<>>)
      BY DEF Seen
    <3>2. ChangeAt(from, to, s, written, base) \in ChangeOf(EntryAt(to, s), was, within[EntryAt(to, s)], base)
      BY <1>5, <3>1
    <3> QED
      BY <2>1, <2>2, <3>1, <3>2
  <2> QED
    BY <2>3, <2>4
<1>7. \A t \in Live(from) : (\E e \in new : e.id = EntryAt(from, t).id) <=> Same(from, to, t)
  <2> TAKE t \in Live(from)
  <2>1. ASSUME NEW s \in Live(to), IdAt(to, s) = IdAt(from, t) PROVE s = t
    BY <1>1, <2>1, IdTellsSlot
  <2> HIDE DEF new, was
  <2> QED
    BY <1>1, <1>2, <2>1 DEF Same
<1>8. \A c : c \in gone <=> \E t \in Gone(from, to, opts) : c = Deletion(EntryAt(from, t), base)
  <2>1. \A c : c \in gone <=> \E t \in Live(from) : /\ Wanted(EntryAt(from, t), opts)
                                                    /\ ~\E e \in new : e.id = EntryAt(from, t).id
                                                    /\ c = Deletion(EntryAt(from, t), base)
    <3> HIDE DEF was, new
    <3> QED
      BY <1>1
  <2> HIDE DEF gone, new
  <2> QED
    BY <1>2, <1>7, <2>1 DEF Gone
<1>9. ChangesIn(was, new, within, base, opts) = seen \cup gone
  <2> HIDE DEF was, new, within
  <2> QED
    BY DEF ChangesIn
<1> HIDE DEF seen, gone, was, new, within
<1> QED
  BY <1>6, <1>8, <1>9 DEF was, new, within

-----------------------------------------------------------------------------
(* What the journal adds.                                                   *)

Proven(c, from, to) == Corroborated(c, Evidence(from, to).renames)
\* Both journals are there, and nothing fails that reads them.
JournalRead(from, to) ==
  /\ HasJournal(to) /\ HasJournal(from)
  /\ ~VolumeStateFails(from) /\ ~VolumeStateFails(to) /\ ~RenamesFail(to)
\* A record of the newer journal, of a new name, in the window between the states.
RecordOf(id, from, to) ==
  \E k \in DOMAIN to.journal : /\ to.journal[k].id = id /\ to.journal[k].reason = "new"
                               /\ ~(to.journal[k].usn < VolumeState(from))
FormOfChange(c) ==
  c = [kind |-> c.kind, entry |-> c.entry, prev |-> c.prev, modified |-> c.modified,
       ranges |-> c.ranges, confidence |-> c.confidence, evidence |-> c.evidence]

\* What the journals give, or the note that says which reading of them failed.
LEMMA EvidenceIs ==
  ASSUME NEW from, NEW to
  PROVE  LET e    == Evidence(from, to)
             both == HasJournal(to) /\ HasJournal(from)
         IN  /\ JournalRead(from, to) => e.renames = RenamesBetween(to, VolumeState(from), VolumeState(to))
             /\ ~JournalRead(from, to) => e.renames = {}
             /\ Note("older journal unread", NoId) \in e.notes <=> both /\ VolumeStateFails(from)
             /\ Note("newer journal unread", NoId) \in e.notes
                  <=> both /\ ~VolumeStateFails(from) /\ VolumeStateFails(to)
             /\ Note("journal unread", NoId) \in e.notes
                  <=> both /\ ~VolumeStateFails(from) /\ ~VolumeStateFails(to) /\ RenamesFail(to)
<1> DEFINE e    == Evidence(from, to)
           both == HasJournal(to) /\ HasJournal(from)
           found == RenamesBetween(to, VolumeState(from), VolumeState(to))
<1>1. \A what, id, other : Note(what, id) = Note(other, id) => what = other
  BY DEF Note
<1>2. CASE ~both
  <2>1. e.notes = {} /\ e.renames = {}
    BY <1>2 DEF Evidence
  <2> QED
    BY <1>2, <2>1 DEF JournalRead
<1>3. CASE both /\ VolumeStateFails(from)
  <2>1. e.notes = {Note("older journal unread", NoId)} /\ e.renames = {}
    BY <1>3 DEF Evidence, Unread
  <2> QED
    BY <1>1, <1>3, <2>1 DEF JournalRead
<1>4. CASE both /\ ~VolumeStateFails(from) /\ VolumeStateFails(to)
  <2>1. e.notes = {Note("newer journal unread", NoId)} /\ e.renames = {}
    BY <1>4 DEF Evidence, Unread
  <2> QED
    BY <1>1, <1>4, <2>1 DEF JournalRead
<1>5. CASE both /\ ~VolumeStateFails(from) /\ ~VolumeStateFails(to) /\ RenamesFail(to)
  <2>1. e.notes = {Note("journal unread", NoId)} /\ e.renames = {}
    BY <1>5 DEF Evidence, Unread
  <2> QED
    BY <1>1, <1>5, <2>1 DEF JournalRead
<1>6. CASE both /\ ~VolumeStateFails(from) /\ ~VolumeStateFails(to) /\ ~RenamesFail(to)
  <2>1. e.notes = {} /\ e.renames = found
    BY <1>6 DEF Evidence, Renames
  <2> HIDE DEF found
  <2> QED
    BY <1>6, <2>1 DEF JournalRead, found
<1> QED
  BY <1>2, <1>3, <1>4, <1>5, <1>6

\* A rename between two states is a record of a new name in their window.
LEMMA RenamesAre ==
  ASSUME NEW v, NEW lo, NEW hi, NEW r \in RenamesBetween(v, lo, hi)
  PROVE  \E k \in DOMAIN v.journal : /\ v.journal[k].reason = "new" /\ ~(v.journal[k].usn < lo)
                                     /\ r.id = v.journal[k].id /\ r.when = v.journal[k].usn
<1> DEFINE seen  == {k \in DOMAIN v.journal : InWindow(v.journal[k], lo, hi)}
           names(k) == {j \in seen : j < k /\ v.journal[j].id = v.journal[k].id /\ v.journal[j].reason \in {"old", "new"}}
           olds(k)  == {j \in names(k) : v.journal[j].reason = "old" /\ \A i \in names(k) : i <= j}
           from(k)  == IF olds(k) = {} THEN [name |-> 0, parent |-> NoId] ELSE v.journal[CHOOSE j \in olds(k) : TRUE]
           found(k) == [id |-> v.journal[k].id, oldName |-> from(k).name, oldParent |-> from(k).parent,
                        newName |-> v.journal[k].name, newParent |-> v.journal[k].parent, when |-> v.journal[k].usn]
<1>1. r \in {found(k) : k \in {j \in seen : v.journal[j].reason = "new"}}
  BY DEF RenamesBetween
<1> HIDE DEF from
<1>2. PICK k \in seen : v.journal[k].reason = "new" /\ r = found(k)
  BY <1>1
<1>3. r.id = v.journal[k].id /\ r.when = v.journal[k].usn
  BY <1>2
<1>4. k \in DOMAIN v.journal /\ ~(v.journal[k].usn < lo)
  BY <1>2 DEF InWindow
<1> QED
  BY <1>2, <1>3, <1>4

\* What the journal does to a change: nothing, or it proves a rename.
LEMMA ProvenIs ==
  ASSUME NEW from, NEW to, NEW c, FormOfChange(c), c.evidence = <<>>
  PROVE  LET d == Proven(c, from, to)
         IN  /\ FormOfChange(d)
             /\ d.entry = c.entry /\ d.prev = c.prev /\ d.ranges = c.ranges /\ d.modified = c.modified
             /\ \/ d = c
                \/ /\ d.evidence # <<>> /\ d.confidence = "proven"
                   /\ d.kind = (IF c.kind = "modified" THEN "renamed" ELSE c.kind)
                   /\ to.kind = "ntfs" /\ RecordOf(Identity(c), from, to) /\ JournalRead(from, to)
<1> DEFINE renames == Evidence(from, to).renames
           of == {r \in renames : r.id = Identity(c)}
           latest == CHOOSE r \in of : \A q \in of : q.when <= r.when
           d == Proven(c, from, to)
           kind == IF c.kind = "modified" THEN "renamed" ELSE c.kind
<1>0. d = Corroborated(c, renames)
  BY DEF Proven
<1>1. CASE ~JournalRead(from, to)
  <2>1. renames = {}
    BY <1>1, EvidenceIs
  <2> HIDE DEF renames
  <2>2. d = c
    BY <1>0, <2>1 DEF Corroborated
  <2> QED
    BY <2>2
<1>2. CASE JournalRead(from, to)
  <2>1. d = Corroborated(c, renames)
    BY <1>0
  <2>2. CASE of = {}
    <3>1. d = c
      BY <2>1, <2>2 DEF Corroborated
    <3> QED
      BY <3>1
  <2>3. CASE of # {}
    <3>1. d = [c EXCEPT !.evidence = <<latest>>, !.confidence = "proven", !.kind = IF @ = "modified" THEN "renamed" ELSE @]
      <4> HIDE DEF renames
      <4> QED
        BY <2>1, <2>3 DEF Corroborated
    <3>2. PICK r \in renames : r.id = Identity(c)
      BY <2>3
    <3>3. RecordOf(Identity(c), from, to)
      <4> HIDE DEF renames
      <4>1. r \in RenamesBetween(to, VolumeState(from), VolumeState(to))
        BY <1>2, <3>2, EvidenceIs DEF renames
      <4> QED
        BY <3>2, <4>1, RenamesAre DEF RecordOf
    <3> HIDE DEF latest
    <3>4. d = [kind |-> kind, entry |-> c.entry, prev |-> c.prev, modified |-> c.modified,
               ranges |-> c.ranges, confidence |-> "proven", evidence |-> <<latest>>]
      <4> HIDE DEF d
      <4>1. c = [kind |-> c.kind, entry |-> c.entry, prev |-> c.prev, modified |-> c.modified,
                 ranges |-> c.ranges, confidence |-> c.confidence, evidence |-> c.evidence]
        BY DEF FormOfChange
      <4> QED
        BY <3>1, <4>1
    <3>5. <<latest>> # <<>>
      OBVIOUS
    <3> HIDE DEF d, kind
    <3>6. /\ d.entry = c.entry /\ d.prev = c.prev /\ d.ranges = c.ranges /\ d.modified = c.modified
          /\ d.evidence # <<>> /\ d.confidence = "proven" /\ d.kind = kind /\ d.evidence = <<latest>>
      BY <3>4, <3>5
    <3>7. FormOfChange(d)
      BY <3>4, <3>6 DEF FormOfChange
    <3> QED
      BY <1>2, <3>3, <3>6, <3>7 DEF JournalRead, HasJournal, d, kind
  <2> QED
    BY <2>2, <2>3
<1> QED
  BY <1>1, <1>2

-----------------------------------------------------------------------------
(* All the changes of a comparison of two volumes.                          *)

Base(v) == Confidence(Capabilities(v))
Raw(from, to, written, opts) ==
  {ChangeAt(from, to, s, written, Base(to)) : s \in Seen(from, to, written, opts)}
  \cup {Deletion(EntryAt(from, t), Base(to)) : t \in Gone(from, to, opts)}
All(from, to, written, opts) == {Proven(c, from, to) : c \in Raw(from, to, written, opts)}

\* An entry's place can be told, and every file that has a name has a place.
LEMMA EntryPlaces ==
  ASSUME NEW v, Met(v), NEW s \in Live(v)
  PROVE  LET e == EntryAt(v, s)
         IN  /\ e.path \in Nat /\ e.name \in Nat /\ e.name # 0
             /\ e.id # NoId
<1>0. s \in Slots
  BY InventoryIs
<1>1. v.files[s].name \in Nat /\ v.files[s].dir \in {Root, Sub} /\ v.files[s].name # 0
  BY <1>0 DEF Met, Live
<1>2. v.files[s].dir \in Nat
  BY <1>1 DEF Root, Sub
<1>3. \A d, n \in Nat : 10 * d + n \in Nat
  OBVIOUS
<1>4. PathAt(v, s) \in Nat
  BY <1>1, <1>2, <1>3 DEF PathAt, PathOf
<1>5. IdAt(v, s) # NoId
  BY <1>0, IdIsId
<1>6. /\ EntryAt(v, s).id = IdAt(v, s) /\ EntryAt(v, s).name = v.files[s].name
      /\ EntryAt(v, s).path = PathAt(v, s)
  BY EntryFields
<1> QED
  BY <1>1, <1>4, <1>5, <1>6

\* What is known of every change.
LEMMA RawIs ==
  ASSUME NEW from, Met(from), NEW to, Met(to), from.kind = to.kind, NEW written, NEW opts,
         NEW c \in Raw(from, to, written, opts)
  PROVE  /\ FormOfChange(c) /\ c.evidence = <<>> /\ c.confidence = Base(to)
         /\ \/ \E s \in Seen(from, to, written, opts) :
                 /\ c.kind = KindAt(from, to, s) /\ c.entry = EntryAt(to, s)
                 /\ c.prev = (IF Same(from, to, s) THEN EntryAt(from, s) ELSE NoEntry)
                 /\ c.ranges = RangesAt(to, s, written)
            \/ \E t \in Gone(from, to, opts) :
                 c.kind = "deleted" /\ c.entry = NoEntry /\ c.prev = EntryAt(from, t) /\ c.ranges = <<>>
<1>1. CASE \E s \in Seen(from, to, written, opts) : c = ChangeAt(from, to, s, written, Base(to))
  <2>1. PICK s \in Seen(from, to, written, opts) : c = ChangeAt(from, to, s, written, Base(to))
    BY <1>1
  <2>2. /\ c.kind = KindAt(from, to, s) /\ c.entry = EntryAt(to, s)
        /\ c.prev = (IF Same(from, to, s) THEN EntryAt(from, s) ELSE NoEntry)
        /\ c.ranges = RangesAt(to, s, written)
        /\ c.evidence = <<>> /\ c.confidence = Base(to)
    BY <2>1 DEF ChangeAt
  <2>3. FormOfChange(c)
    BY <2>1 DEF ChangeAt, FormOfChange
  <2> QED
    BY <2>2, <2>3
<1>2. CASE \E t \in Gone(from, to, opts) : c = Deletion(EntryAt(from, t), Base(to))
  <2>1. PICK t \in Gone(from, to, opts) : c = Deletion(EntryAt(from, t), Base(to))
    BY <1>2
  <2>2. /\ c.kind = "deleted" /\ c.entry = NoEntry /\ c.prev = EntryAt(from, t) /\ c.ranges = <<>>
        /\ c.evidence = <<>> /\ c.confidence = Base(to)
    BY <2>1 DEF Deletion
  <2>3. FormOfChange(c)
    BY <2>1 DEF Deletion, FormOfChange
  <2> QED
    BY <2>2, <2>3
<1> QED
  BY <1>1, <1>2 DEF Raw

\* A change has a kind and a place.
LEMMA RawSorts ==
  ASSUME NEW from, Met(from), NEW to, Met(to), from.kind = to.kind, NEW written, NEW opts,
         NEW c, NEW d,
         c.kind \in DOMAIN KindRank,
         \/ \E s \in Live(to) : /\ c.entry = EntryAt(to, s)
                                /\ c.prev = (IF Same(from, to, s) THEN EntryAt(from, s) ELSE NoEntry)
         \/ \E t \in Live(from) : c.entry = NoEntry /\ c.prev = EntryAt(from, t)
  PROVE  SortKey(c) \in Nat
<1>1. NoEntry.path = 0 /\ NoEntry.name = 0
  BY DEF NoEntry
<1>2. /\ \A s \in Live(to) : EntryAt(to, s).path \in Nat /\ EntryAt(to, s).name \in Nat
      /\ \A s \in Live(from) : EntryAt(from, s).path \in Nat /\ EntryAt(from, s).name \in Nat
  BY EntryPlaces
<1>3. c.entry.path \in Nat /\ c.entry.name \in Nat /\ c.prev.path \in Nat /\ c.prev.name \in Nat
  <2>1. CASE \E t \in Live(from) : c.entry = NoEntry /\ c.prev = EntryAt(from, t)
    BY <1>1, <1>2, <2>1
  <2>2. CASE \E s \in Live(to) : /\ c.entry = EntryAt(to, s)
                                 /\ c.prev = (IF Same(from, to, s) THEN EntryAt(from, s) ELSE NoEntry)
    <3>1. PICK s \in Live(to) : /\ c.entry = EntryAt(to, s)
                                /\ c.prev = (IF Same(from, to, s) THEN EntryAt(from, s) ELSE NoEntry)
      BY <2>2
    <3>2. CASE Same(from, to, s)
      <4>1. s \in Live(from)
        BY <3>2 DEF Same
      <4> QED
        BY <1>2, <3>1, <3>2, <4>1
    <3>3. CASE ~Same(from, to, s)
      BY <1>1, <1>2, <3>1, <3>3
    <3> QED
      BY <3>2, <3>3
  <2> QED
    BY <2>1, <2>2
<1> QED
  BY <1>3 DEF SortKey

\* A change as it may be reported, by whether the journal proved it.
IsChangeAt(c, from, to, s, written) ==
  /\ c.entry = EntryAt(to, s)
  /\ c.prev = (IF Same(from, to, s) THEN EntryAt(from, s) ELSE NoEntry)
  /\ c.ranges = RangesAt(to, s, written)
  /\ c.kind = KindAt(from, to, s) \/ (KindAt(from, to, s) = "modified" /\ c.kind = "renamed" /\ c.evidence # <<>>)
IsDeletionAt(c, from, t) ==
  c.kind = "deleted" /\ c.entry = NoEntry /\ c.prev = EntryAt(from, t) /\ c.ranges = <<>>
IsSupported(c, from, to) ==
  \/ c.confidence = Base(to) /\ c.evidence = <<>>
  \/ /\ c.confidence = "proven" /\ c.evidence # <<>> /\ to.kind = "ntfs"
     /\ RecordOf(Identity(c), from, to) /\ JournalRead(from, to)

\* What a change of a comparison is: one of a file of the newer state, or the
\* deletion of one of the older; and what its confidence rests on.
LEMMA AllIs ==
  ASSUME NEW from, Met(from), NEW to, Met(to), from.kind = to.kind, NEW written, NEW opts,
         NEW c \in All(from, to, written, opts)
  PROVE  /\ FormOfChange(c) /\ IsSupported(c, from, to)
         /\ \/ \E s \in Seen(from, to, written, opts) : IsChangeAt(c, from, to, s, written)
            \/ \E t \in Gone(from, to, opts) : IsDeletionAt(c, from, t)
<1>1. PICK r \in Raw(from, to, written, opts) : c = Proven(r, from, to)
  BY DEF All
<1>2. /\ FormOfChange(r) /\ r.evidence = <<>> /\ r.confidence = Base(to)
      /\ \/ \E s \in Seen(from, to, written, opts) :
                 /\ r.kind = KindAt(from, to, s) /\ r.entry = EntryAt(to, s)
                 /\ r.prev = (IF Same(from, to, s) THEN EntryAt(from, s) ELSE NoEntry)
                 /\ r.ranges = RangesAt(to, s, written)
         \/ \E t \in Gone(from, to, opts) :
                 r.kind = "deleted" /\ r.entry = NoEntry /\ r.prev = EntryAt(from, t) /\ r.ranges = <<>>
  BY RawIs
<1>3. /\ FormOfChange(c)
      /\ c.entry = r.entry /\ c.prev = r.prev /\ c.ranges = r.ranges /\ c.modified = r.modified
      /\ \/ c = r
         \/ /\ c.evidence # <<>> /\ c.confidence = "proven"
            /\ c.kind = (IF r.kind = "modified" THEN "renamed" ELSE r.kind)
            /\ to.kind = "ntfs" /\ RecordOf(Identity(r), from, to) /\ JournalRead(from, to)
  BY <1>1, <1>2, ProvenIs
<1>4. Identity(c) = Identity(r)
  BY <1>3 DEF Identity
<1>5. IsSupported(c, from, to)
  BY <1>2, <1>3, <1>4 DEF IsSupported
<1>6. CASE \E s \in Seen(from, to, written, opts) :
                 /\ r.kind = KindAt(from, to, s) /\ r.entry = EntryAt(to, s)
                 /\ r.prev = (IF Same(from, to, s) THEN EntryAt(from, s) ELSE NoEntry)
                 /\ r.ranges = RangesAt(to, s, written)
  <2>1. PICK s \in Seen(from, to, written, opts) :
                 /\ r.kind = KindAt(from, to, s) /\ r.entry = EntryAt(to, s)
                 /\ r.prev = (IF Same(from, to, s) THEN EntryAt(from, s) ELSE NoEntry)
                 /\ r.ranges = RangesAt(to, s, written)
    BY <1>6
  <2>2. IsChangeAt(c, from, to, s, written)
    BY <1>3, <2>1 DEF IsChangeAt
  <2> QED
    BY <1>3, <1>5, <2>2
<1>7. CASE \E t \in Gone(from, to, opts) :
                 r.kind = "deleted" /\ r.entry = NoEntry /\ r.prev = EntryAt(from, t) /\ r.ranges = <<>>
  <2>1. \E t \in Gone(from, to, opts) : IsDeletionAt(c, from, t)
    BY <1>3, <1>7 DEF IsDeletionAt
  <2> QED
    BY <1>3, <1>5, <2>1
<1> QED
  BY <1>2, <1>6, <1>7

\* Of every file there is a change to report of, there is one.
LEMMA AllHas ==
  ASSUME NEW from, Met(from), NEW to, Met(to), from.kind = to.kind, NEW written, NEW opts
  PROVE  /\ \A s \in Seen(from, to, written, opts) :
              \E c \in All(from, to, written, opts) : IsChangeAt(c, from, to, s, written)
         /\ \A t \in Gone(from, to, opts) :
              \E c \in All(from, to, written, opts) : IsDeletionAt(c, from, t)
<1>1. ASSUME NEW s \in Seen(from, to, written, opts)
      PROVE  \E c \in All(from, to, written, opts) : IsChangeAt(c, from, to, s, written)
  <2> DEFINE r == ChangeAt(from, to, s, written, Base(to))
             c == Proven(r, from, to)
  <2>1. /\ r.kind = KindAt(from, to, s) /\ r.entry = EntryAt(to, s)
        /\ r.prev = (IF Same(from, to, s) THEN EntryAt(from, s) ELSE NoEntry)
        /\ r.ranges = RangesAt(to, s, written) /\ r.evidence = <<>>
    BY DEF ChangeAt
  <2>2. FormOfChange(r)
    BY DEF ChangeAt, FormOfChange
  <2>3. c \in All(from, to, written, opts)
    BY DEF All, Raw
  <2> HIDE DEF r
  <2>4. /\ c.entry = r.entry /\ c.prev = r.prev /\ c.ranges = r.ranges
        /\ c = r \/ (c.evidence # <<>> /\ c.kind = (IF r.kind = "modified" THEN "renamed" ELSE r.kind))
    <3>1. r.evidence = <<>>
      BY <2>1
    <3> QED
      BY <2>2, <3>1, ProvenIs
  <2> HIDE DEF c
  <2>5. IsChangeAt(c, from, to, s, written)
    BY <2>1, <2>4 DEF IsChangeAt
  <2> QED
    BY <2>3, <2>5
<1>2. ASSUME NEW t \in Gone(from, to, opts)
      PROVE  \E c \in All(from, to, written, opts) : IsDeletionAt(c, from, t)
  <2> DEFINE r == Deletion(EntryAt(from, t), Base(to))
             c == Proven(r, from, to)
  <2>1. r.kind = "deleted" /\ r.entry = NoEntry /\ r.prev = EntryAt(from, t) /\ r.ranges = <<>> /\ r.evidence = <<>>
    BY DEF Deletion
  <2>2. FormOfChange(r)
    BY DEF Deletion, FormOfChange
  <2>3. c \in All(from, to, written, opts)
    BY DEF All, Raw
  <2> HIDE DEF r
  <2>4. /\ c.entry = r.entry /\ c.prev = r.prev /\ c.ranges = r.ranges
        /\ c = r \/ (c.evidence # <<>> /\ c.kind = (IF r.kind = "modified" THEN "renamed" ELSE r.kind))
    <3>1. r.evidence = <<>>
      BY <2>1
    <3> QED
      BY <2>2, <3>1, ProvenIs
  <2> HIDE DEF c
  <2>5. IsDeletionAt(c, from, t)
    BY <2>1, <2>4 DEF IsDeletionAt
  <2> QED
    BY <2>3, <2>5
<1> QED
  BY <1>1, <1>2

\* The entry that stands for no file.
LEMMA NoEntryFields == NoEntry.id = NoId /\ NoEntry.path = 0 /\ NoEntry.name = 0
  BY DEF NoEntry

\* The changes of a comparison are finitely many, and can be put in order.
LEMMA AllFinite ==
  ASSUME NEW from, Met(from), NEW to, Met(to), from.kind = to.kind, NEW written, NEW opts
  PROVE  IsFiniteSet(All(from, to, written, opts)) /\ Sortable(All(from, to, written, opts))
<1> DEFINE seen == Seen(from, to, written, opts)
           gone == Gone(from, to, opts)
           raw  == Raw(from, to, written, opts)
           f == [s \in seen |-> ChangeAt(from, to, s, written, Base(to))]
           g == [t \in gone |-> Deletion(EntryAt(from, t), Base(to))]
           h == [r \in raw |-> Proven(r, from, to)]
<1>1. seen \subseteq Live(to) /\ gone \subseteq Live(from)
  BY DEF Seen, Gone
<1>2. IsFiniteSet(seen) /\ IsFiniteSet(gone)
  <2>1. seen \in SUBSET Slots /\ gone \in SUBSET Slots
    BY <1>1, InventoryIs
  <2> QED
    BY <2>1, SlotBounds, FS_Subset
<1>3. IsFiniteSet({f[s] : s \in seen}) /\ IsFiniteSet({g[t] : t \in gone})
  <2>1. DOMAIN f = seen /\ DOMAIN g = gone
    OBVIOUS
  <2> HIDE DEF f, g, seen, gone
  <2> QED
    BY <1>2, <2>1, ImageFinite
<1>4. raw = {f[s] : s \in seen} \cup {g[t] : t \in gone}
  BY DEF Raw
<1>5. IsFiniteSet(raw)
  <2> HIDE DEF f, g, seen, gone, raw
  <2> QED
    BY <1>3, <1>4, FS_Union
<1>6. IsFiniteSet({h[r] : r \in raw})
  <2>1. DOMAIN h = raw
    OBVIOUS
  <2> HIDE DEF h, raw
  <2> QED
    BY <1>5, <2>1, ImageFinite
<1>7. All(from, to, written, opts) = {h[r] : r \in raw}
  BY DEF All
<1>8. ASSUME NEW c \in All(from, to, written, opts)
      PROVE  c.kind \in DOMAIN KindRank /\ SortKey(c) \in Nat
  <2>0. DOMAIN KindRank = {"added", "deleted", "modified", "renamed"}
    BY DEF KindRank
  <2>1. CASE \E s \in seen : IsChangeAt(c, from, to, s, written)
    <3>1. PICK s \in seen : IsChangeAt(c, from, to, s, written)
      BY <2>1
    <3>2. /\ c.entry = EntryAt(to, s)
          /\ c.prev = (IF Same(from, to, s) THEN EntryAt(from, s) ELSE NoEntry)
          /\ c.kind \in DOMAIN KindRank
      BY <2>0, <3>1 DEF IsChangeAt, KindAt
    <3>3. s \in Live(to)
      BY <1>1
    <3> QED
      BY <3>2, <3>3, RawSorts
  <2>2. CASE \E t \in gone : IsDeletionAt(c, from, t)
    <3>1. PICK t \in gone : IsDeletionAt(c, from, t)
      BY <2>2
    <3>2. c.entry = NoEntry /\ c.prev = EntryAt(from, t) /\ c.kind \in DOMAIN KindRank
      BY <2>0, <3>1 DEF IsDeletionAt
    <3>3. t \in Live(from)
      BY <1>1
    <3> QED
      BY <3>2, <3>3, RawSorts
  <2> QED
    BY <2>1, <2>2, AllIs
<1> HIDE DEF h, raw
<1> QED
  BY <1>6, <1>7, <1>8 DEF Sortable

\* Of each identity there is one change.
LEMMA RawIds ==
  ASSUME NEW from, Met(from), NEW to, Met(to), from.kind = to.kind, NEW written, NEW opts,
         NEW c \in Raw(from, to, written, opts), NEW d \in Raw(from, to, written, opts), Identity(c) = Identity(d)
  PROVE  c = d
<1> DEFINE seen == Seen(from, to, written, opts)
           gone == Gone(from, to, opts)
           At(s) == ChangeAt(from, to, s, written, Base(to))
           Del(t) == Deletion(EntryAt(from, t), Base(to))
<1>1. seen \subseteq Slots /\ gone \subseteq Slots /\ seen \subseteq Live(to) /\ gone \subseteq Live(from)
  BY InventoryIs DEF Seen, Gone
<1>2. \A s \in seen : Identity(At(s)) = IdAt(to, s)
  <2> TAKE s \in seen
  <2>1. At(s).entry = EntryAt(to, s)
    BY DEF ChangeAt
  <2>2. EntryAt(to, s).id = IdAt(to, s) /\ IdAt(to, s) # NoId
    BY <1>1, EntryFields, IdIsId
  <2> QED
    BY <2>1, <2>2 DEF Identity
<1>3. \A t \in gone : Identity(Del(t)) = IdAt(from, t)
  <2> TAKE t \in gone
  <2>1. Del(t).entry = NoEntry /\ Del(t).prev = EntryAt(from, t)
    BY DEF Deletion
  <2>2. EntryAt(from, t).id = IdAt(from, t) /\ NoEntry.id = NoId
    BY EntryFields, NoEntryFields
  <2> QED
    BY <2>1, <2>2 DEF Identity
<1>4. \A s, t \in seen : IdAt(to, s) = IdAt(to, t) => s = t
  BY <1>1, IdTellsSlot
<1>5. \A s, t \in gone : IdAt(from, s) = IdAt(from, t) => s = t
  BY <1>1, IdTellsSlot
<1>6. \A s \in seen, t \in gone : IdAt(to, s) # IdAt(from, t)
  <2> SUFFICES ASSUME NEW s \in seen, NEW t \in gone, IdAt(to, s) = IdAt(from, t) PROVE FALSE
    OBVIOUS
  <2>1. s = t
    BY <1>1, IdTellsSlot
  <2>2. Same(from, to, t)
    BY <1>1, <2>1 DEF Same
  <2> QED
    BY <2>2 DEF Gone
<1>7. /\ (\E s \in seen : c = At(s)) \/ (\E t \in gone : c = Del(t))
      /\ (\E s \in seen : d = At(s)) \/ (\E t \in gone : d = Del(t))
  BY DEF Raw
<1> HIDE DEF seen, gone, At, Del
<1>8. CASE \E s \in seen : c = At(s)
  BY <1>2, <1>3, <1>4, <1>6, <1>7, <1>8
<1>9. CASE \E t \in gone : c = Del(t)
  BY <1>2, <1>3, <1>5, <1>6, <1>7, <1>9
<1> QED
  BY <1>7, <1>8, <1>9

\* No identity has two changes.
LEMMA AllIds ==
  ASSUME NEW from, Met(from), NEW to, Met(to), from.kind = to.kind, NEW written, NEW opts,
         NEW c \in All(from, to, written, opts), NEW d \in All(from, to, written, opts), Identity(c) = Identity(d)
  PROVE  c = d
<1>1. PICK r \in Raw(from, to, written, opts) : c = Proven(r, from, to)
  BY DEF All
<1>2. PICK q \in Raw(from, to, written, opts) : d = Proven(q, from, to)
  BY DEF All
<1>3. /\ FormOfChange(r) /\ r.evidence = <<>>
      /\ FormOfChange(q) /\ q.evidence = <<>>
  BY RawIs
<1>4. c.entry = r.entry /\ c.prev = r.prev /\ d.entry = q.entry /\ d.prev = q.prev
  BY <1>1, <1>2, <1>3, ProvenIs
<1>5. Identity(r) = Identity(q)
  BY <1>4 DEF Identity
<1>6. r = q
  BY <1>5, RawIds
<1> QED
  BY <1>1, <1>2, <1>6

\* A comparison of two states of a volume in which something was written.
LEMMA DiffIs ==
  ASSUME NEW from, Met(from), NEW to, Met(to), from.kind = to.kind,
         NEW changed \in SUBSET SomeRange, IsFiniteSet(changed), changed # {},
         NEW opts, opts.maxFiles \in Nat, opts.allowMismatch \in BOOLEAN
  PROVE  LET diff    == Diff(from, to, changed, opts)
             written == Coalesce(changed)
             all     == All(from, to, written, opts)
         IN  /\ written \in Seq(SomeRange) /\ AllBytes(written) = BytesOf(changed)
             /\ diff.ok \in BOOLEAN
             /\ diff.ok = TRUE =>
                  /\ diff.changes \subseteq all
                  /\ Note("truncated", NoId) \notin diff.notes => diff.changes = all
                  /\ \A s \in Live(to) : Lost(to, s) /\ Wanted(to.files[s], opts)
                       => Note("map unreadable", IdAt(to, s)) \in diff.notes
                  /\ from.serial # 0 /\ to.serial # 0 /\ from.serial # to.serial
                       => Note("identity differs", NoId) \in diff.notes
                  /\ ~Capabilities(to).stable => Note("identity synthesised", NoId) \in diff.notes
                  /\ \A what \in FailedJournals :
                       Note(what, NoId) \in diff.notes <=> Note(what, NoId) \in Evidence(from, to).notes
             /\ from.serial = to.serial /\ WalkFails(from)
                  => diff.ok = FALSE /\ diff.why = "older walk failed"
             /\ from.serial = to.serial /\ ~WalkFails(from) /\ WalkFails(to)
                  => diff.ok = FALSE /\ diff.why = "newer walk failed"
<1> DEFINE diff    == Diff(from, to, changed, opts)
           written == Coalesce(changed)
           all     == All(from, to, written, opts)
           same    == CheckIdentity(from, to, opts)
           was     == Inventory(from)
           new     == Inventory(to)
           within  == Within(to, written)
           caps    == Capabilities(to)
           raw     == ChangesIn(was, new, within, Confidence(caps), opts)
           evid    == Evidence(from, to)
           cor     == Corroborate(raw, evid)
           cut     == Truncate(cor, opts.maxFiles)
           lost    == {Note("map unreadable", e.id) : e \in {x \in new : Wanted(x, opts) /\ within[x].err}}
           inv     == DiffInventories(from, to, was, new, within, opts)
<1>1. written \in Seq(SomeRange) /\ Normal(written) /\ AllBytes(written) = BytesOf(changed)
  <2>1. changed \in SUBSET Ranges
    BY DEF SomeRange, Ranges
  <2> QED
    BY <2>1, CoalesceKeeps
<1>2. written # <<>>
  <2>1. PICK r \in changed : TRUE
    OBVIOUS
  <2>2. r \in Ranges /\ r.len > 0
    BY DEF SomeRange, Ranges
  <2>3. r.at \in Bytes(r)
    BY <2>2, BytesBounds DEF Ranges
  <2>4. AllBytes(written) # {}
    BY <1>1, <2>3 DEF BytesOf
  <2>5. AllBytes(<<>>) = {}
    BY DEF AllBytes
  <2> HIDE DEF written
  <2> QED
    BY <2>4, <2>5
<1> HIDE DEF written
<1>3. /\ same.ok \in BOOLEAN
      /\ same.ok = TRUE /\ from.serial # 0 /\ to.serial # 0 /\ from.serial # to.serial
           => Note("identity differs", NoId) \in same.notes
      /\ from.serial = to.serial => same.ok = TRUE
  BY DEF CheckIdentity
<1>4. diff = IF ~same.ok THEN Refusal("different volumes")
             ELSE IF WalkFails(from) THEN Refusal("older walk failed")
             ELSE IF WalkFails(to) THEN Refusal("newer walk failed")
             ELSE [inv EXCEPT !.notes = @ \cup same.notes]
  <2>1. diff = DiffWithin(from, to, written, same, opts)
    BY DEF Diff, written
  <2> HIDE DEF same, diff
  <2> QED
    BY <1>2, <2>1 DEF DiffWithin, Within, InventoryFails
<1>5. inv = Result(to, cut, (CapabilityNotes(caps) \cup evid.notes) \cup lost)
  <2> HIDE DEF was, new, within
  <2> QED
    BY DEF DiffInventories
<1>6. cor = all
  <2>1. raw = Raw(from, to, written, opts)
    BY <1>1, ChangesAre DEF Raw, Base
  <2> HIDE DEF raw
  <2> QED
    BY <2>1 DEF Corroborate, All, Proven
<1>7. /\ cut.list \subseteq all
      /\ Note("truncated", NoId) \notin cut.notes => cut.list = all
  <2> HIDE DEF cor, all
  <2>1. IsFiniteSet(cor) /\ Sortable(cor)
    BY <1>6, AllFinite DEF all
  <2> QED
    BY <1>6, <2>1, TruncateKeeps
<1>8. \A s \in Live(to) : Lost(to, s) /\ Wanted(to.files[s], opts) => Note("map unreadable", IdAt(to, s)) \in lost
  <2> SUFFICES ASSUME NEW s \in Live(to), Lost(to, s), Wanted(to.files[s], opts)
               PROVE  Note("map unreadable", IdAt(to, s)) \in lost
    OBVIOUS
  <2> DEFINE e == EntryAt(to, s)
  <2>1. e \in new
    BY InventoryIs
  <2>2. e.id = IdAt(to, s) /\ Wanted(e, opts)
    BY EntryFields DEF Wanted
  <2>3. within[e] = ChangedWithin(to, IdAt(to, s), written)
    BY <2>1, <2>2 DEF Within
  <2>4. ChangedWithin(to, IdAt(to, s), written).err = TRUE
    BY <1>1, ChangedWithinIs DEF Lost
  <2> HIDE DEF e, new, within
  <2>5. within[e].err
    BY <2>3, <2>4
  <2> QED
    BY <2>1, <2>2, <2>5
<1>9. ~caps.stable => Note("identity synthesised", NoId) \in CapabilityNotes(caps)
  <2> HIDE DEF caps
  <2> QED
    BY DEF CapabilityNotes
<1>13. \A what \in FailedJournals : /\ Note(what, NoId) \notin cut.notes
                                    /\ Note(what, NoId) \notin CapabilityNotes(caps)
                                    /\ Note(what, NoId) \notin lost /\ Note(what, NoId) \notin same.notes
  <2>1. \A what, id, other, jd : Note(what, id) = Note(other, jd) => what = other
    BY DEF Note
  <2>2. /\ "truncated" \notin FailedJournals /\ "map unreadable" \notin FailedJournals
        /\ "identity synthesised" \notin FailedJournals /\ "no reuse counter" \notin FailedJournals
        /\ "streams belong to the file" \notin FailedJournals
        /\ "identity not confirmed" \notin FailedJournals /\ "identity differs" \notin FailedJournals
    BY DEF FailedJournals
  <2>3. \A what \in FailedJournals : Note(what, NoId) \notin cut.notes
    <3> HIDE DEF cor
    <3>1. cut.notes \subseteq {Note("truncated", NoId)}
      BY DEF Truncate
    <3> HIDE DEF cut
    <3> QED
      BY <2>1, <2>2, <3>1
  <2>4. \A what \in FailedJournals : Note(what, NoId) \notin CapabilityNotes(caps)
    <3> HIDE DEF caps
    <3>1. CapabilityNotes(caps) \subseteq {Note("identity synthesised", NoId), Note("no reuse counter", NoId),
                                          Note("streams belong to the file", NoId)}
      BY DEF CapabilityNotes
    <3>2. ASSUME NEW what \in FailedJournals, Note(what, NoId) \in CapabilityNotes(caps) PROVE FALSE
      <4>1. \/ Note(what, NoId) = Note("identity synthesised", NoId)
            \/ Note(what, NoId) = Note("no reuse counter", NoId)
            \/ Note(what, NoId) = Note("streams belong to the file", NoId)
        BY <3>1, <3>2
      <4>2. what \in {"identity synthesised", "no reuse counter", "streams belong to the file"}
        BY <2>1, <4>1
      <4> QED
        BY <2>2, <4>2
    <3> QED
      BY <3>2
  <2>5. \A what \in FailedJournals : Note(what, NoId) \notin lost
    <3>1. \A n \in lost : \E id : n = Note("map unreadable", id)
      OBVIOUS
    <3> HIDE DEF lost
    <3>2. ASSUME NEW what \in FailedJournals, Note(what, NoId) \in lost PROVE FALSE
      <4>1. PICK id : Note(what, NoId) = Note("map unreadable", id)
        BY <3>1, <3>2
      <4>2. what = "map unreadable"
        BY <2>1, <4>1
      <4> QED
        BY <2>2, <4>2
    <3> QED
      BY <3>2
  <2>6. \A what \in FailedJournals : Note(what, NoId) \notin same.notes
    <3>1. same.notes \subseteq {Note("identity not confirmed", NoId), Note("identity differs", NoId)}
      BY DEF CheckIdentity
    <3> HIDE DEF same
    <3>2. ASSUME NEW what \in FailedJournals, Note(what, NoId) \in same.notes PROVE FALSE
      <4>1. \/ Note(what, NoId) = Note("identity not confirmed", NoId)
            \/ Note(what, NoId) = Note("identity differs", NoId)
        BY <3>1, <3>2
      <4>2. what \in {"identity not confirmed", "identity differs"}
        BY <2>1, <4>1
      <4> QED
        BY <2>2, <4>2
    <3> QED
      BY <3>2
  <2> QED
    BY <2>3, <2>4, <2>5, <2>6
<1> HIDE DEF cut, lost, caps, same, diff, all, evid
<1> DEFINE notes == cut.notes \cup ((CapabilityNotes(caps) \cup evid.notes) \cup lost)
<1>10. /\ inv.ok = TRUE /\ inv.changes = cut.list /\ inv.notes = notes
       /\ inv = [ok |-> TRUE, identity |-> to.serial, caps |-> Capabilities(to), changes |-> cut.list,
                 notes |-> notes]
  <2> HIDE DEF inv
  <2> QED
    BY <1>5 DEF Result
<1> HIDE DEF inv
<1>11. CASE same.ok = FALSE \/ WalkFails(from) \/ WalkFails(to)
  <2>1. diff.ok = FALSE
    BY <1>3, <1>4, <1>11 DEF Refusal
  <2>2. from.serial = to.serial /\ WalkFails(from) => diff.why = "older walk failed"
    BY <1>3, <1>4 DEF Refusal
  <2>3. from.serial = to.serial /\ ~WalkFails(from) /\ WalkFails(to) => diff.why = "newer walk failed"
    BY <1>3, <1>4 DEF Refusal
  <2> QED
    BY <1>1, <2>1, <2>2, <2>3 DEF diff, written
<1>12. CASE same.ok = TRUE /\ ~WalkFails(from) /\ ~WalkFails(to)
  <2>1. diff.ok = TRUE /\ diff.changes = cut.list /\ diff.notes = notes \cup same.notes
    <3> HIDE DEF notes
    <3> QED
      BY <1>4, <1>10, <1>12
  <2>2. /\ diff.changes \subseteq all
        /\ Note("truncated", NoId) \notin diff.notes => diff.changes = all
    BY <1>7, <2>1
  <2>3. \A s \in Live(to) : Lost(to, s) /\ Wanted(to.files[s], opts) => Note("map unreadable", IdAt(to, s)) \in diff.notes
    BY <1>8, <2>1
  <2>4. /\ from.serial # 0 /\ to.serial # 0 /\ from.serial # to.serial => Note("identity differs", NoId) \in diff.notes
        /\ ~caps.stable => Note("identity synthesised", NoId) \in diff.notes
    BY <1>3, <1>9, <1>12, <2>1
  <2>5. \A what \in FailedJournals : Note(what, NoId) \in diff.notes <=> Note(what, NoId) \in evid.notes
    BY <1>13, <2>1
  <2> QED
    BY <1>1, <1>12, <2>1, <2>2, <2>3, <2>4, <2>5 DEF diff, written, all, caps, evid
<1> QED
  BY <1>3, <1>11, <1>12

-----------------------------------------------------------------------------
(* The invariant: what is so of the guest's disk and of its checkpoint.     *)

\* What the guest wrote of a file is where the disk says so.
Written(v, w) ==
  \A s \in Slots : LET f == v.files[s] IN
    /\ \A b \in f.dirty : b + 1 \in DOMAIN f.map /\ f.map[b + 1] # 0 /\ f.map[b + 1] \in w
    /\ f.forkDirty => f.fork # 0 /\ f.fork \in w

\* A record names the file its slot held at the time.
JournalTrue(v) ==
  \A k \in DOMAIN v.journal : LET r == v.journal[k] IN
    /\ r.usn <= v.usn /\ r.id.num \in Slots
    /\ r.id.gen <= v.files[r.id.num].gen
    /\ r.id.gen = v.files[r.id.num].gen => r.uid = v.files[r.id.num].uid

Known(v, below) == \A s \in Slots : v.files[s].uid < below

Alike(v, was) ==
  /\ v.kind = was.kind /\ v.base = was.base /\ v.len = was.len /\ v.root = was.root /\ v.sub = was.sub
  /\ v.serial = was.serial /\ v.readable = was.readable

\* What has become of a volume since its checkpoint.
Since(v, was) ==
  /\ \A s \in Slots : LET f == v.files[s]  g == was.files[s] IN
       /\ f.isDir = g.isDir
       /\ f.isDir => f.gen = g.gen /\ f.name = g.name /\ f.dir = g.dir
       /\ g.gen <= f.gen
       /\ f.gen = g.gen => f.uid = g.uid /\ (f.live => g.live)
       /\ f.gen # g.gen => \A t \in Slots : f.uid # was.files[t].uid
  /\ \A k \in DOMAIN v.journal : LET r == v.journal[k] IN
       r.id.gen = was.files[r.id.num].gen => r.uid = was.files[r.id.num].uid
  /\ \A s \in Slots : was.files[s].dirty = {} /\ was.files[s].forkDirty = FALSE

VolumeInv(v, w, below) == SoundVolume(v) /\ Written(v, w) /\ JournalTrue(v) /\ Known(v, below)

GuestInv ==
  /\ nextUid \in Nat /\ ops \in 0..MaxOps /\ writes \subseteq 0..(Size - 1)
  /\ vols \in Seq(Volume) /\ vols # <<>> /\ SoundTable([vols |-> vols, table |-> table])
  /\ \A i \in DOMAIN vols : VolumeInv(vols[i], writes, nextUid)
  /\ old = <<>> \/ (/\ Len(old) = 1 /\ old = <<[vols |-> old[1].vols, table |-> table]>>
                    /\ DOMAIN old[1].vols = DOMAIN vols
                    /\ \A i \in DOMAIN vols : LET v == vols[i]  was == old[1].vols[i] IN
                         /\ SoundVolume(was) /\ JournalTrue(was) /\ Known(was, nextUid) /\ Alike(v, was) /\ Since(v, was)
                         /\ v # was => writes \cap Room(v) # {})
  /\ doc = <<>> \/ (old # <<>> /\ \E c \in Cases : doc = Document(c))

\* The fields of a volume.
LEMMA VolumeFields ==
  ASSUME NEW v \in Volume
  PROVE  /\ v.kind \in Kinds /\ v.base \in Nat /\ v.len \in Nat /\ v.root \in Nat /\ v.sub \in Nat
         /\ v.serial \in Nat /\ v.serial # 0 /\ v.readable = TRUE /\ v.unread = {} /\ v.files \in [Slots -> File]
         /\ v.journal \in Seq(Record) /\ v.usn \in Nat /\ DOMAIN v.files = Slots
         /\ \A s \in Slots : v.files[s] \in File
  BY DEF Volume

\* The fields of a file.
LEMMA FileFields ==
  ASSUME NEW f \in File
  PROVE  /\ f.live \in BOOLEAN /\ f.isDir \in BOOLEAN /\ f.gen \in Nat /\ f.born \in Nat /\ f.name \in Nat
         /\ f.dir \in {Root, Sub} /\ f.map \in Seq(Nat) /\ f.fork \in Nat /\ f.lost = FALSE /\ f.uid \in Nat
         /\ f.dirty \in SUBSET Nat /\ f.forkDirty \in BOOLEAN
  BY DEF File

\* The journal after an operation: what it held before, or some of it, and a
\* record for each reason.
LEMMA LoggedIs ==
  ASSUME NEW v \in Volume, NEW s \in Slots, NEW reasons \in Seq({"old", "new", "other"}), NEW f,
         \A k \in DOMAIN reasons : f[k] \in File
  PROVE  LET u == Logged(v, f, s, reasons)
         IN  /\ u \in Volume /\ u.files = v.files /\ Alike(u, v) /\ v.usn <= u.usn
             /\ \A k \in DOMAIN u.journal :
                  \/ \E j \in DOMAIN v.journal : u.journal[k] = v.journal[j]
                  \/ \E j \in DOMAIN reasons : /\ u.journal[k].id = ID(s, f[j].gen) /\ u.journal[k].uid = f[j].uid
                                               /\ u.journal[k].usn <= u.usn
<1> DEFINE record(k) == [usn |-> v.usn + k - 1, id |-> ID(s, f[k].gen), reason |-> reasons[k], name |-> f[k].name,
                         parent |-> ID(f[k].dir, SeqNo(v, f[k].dir)), uid |-> f[k].uid]
           more == [k \in DOMAIN reasons |-> record(k)]
           all == v.journal \o more
           kept == IF Len(all) > MaxJournal THEN SubSeq(all, Len(all) - MaxJournal + 1, Len(all)) ELSE all
           u == Logged(v, f, s, reasons)
<1>0. /\ v.journal \in Seq(Record) /\ v.usn \in Nat /\ DOMAIN v.files = Slots /\ MaxJournal \in Nat
      /\ \A t \in Slots : v.files[t] \in File
  BY VolumeFields, SizesAreNat
<1>1. CASE ~HasJournal(v)
  <2>1. u = v
    BY <1>1 DEF Logged
  <2> QED
    BY <1>0, <2>1 DEF Alike
<1>2. CASE HasJournal(v)
  <2>1. u = [v EXCEPT !.usn = @ + Len(reasons), !.journal = kept]
    BY <1>2 DEF Logged
  <2>2. Len(reasons) \in Nat /\ DOMAIN reasons = 1..Len(reasons) /\ \A k \in DOMAIN reasons : reasons[k] \in {"old", "new", "other"}
    OBVIOUS
  <2>3. \A k \in DOMAIN reasons : record(k) \in Record
    <3> TAKE k \in DOMAIN reasons
    <3>1. k \in Nat /\ 0 < k /\ f[k] \in File
      BY <2>2
    <3>2. /\ f[k].gen \in Nat /\ f[k].name \in Nat /\ f[k].dir \in {Root, Sub} /\ f[k].uid \in Nat
      BY <3>1, FileFields
    <3>3. SeqNo(v, f[k].dir) \in Nat /\ f[k].dir \in Nat
      <4>1. Sub \in Slots /\ Root # Sub /\ Root \in Nat /\ Sub \in Nat
        BY SlotBounds DEF Root, Sub
      <4>2. v.files[Sub].gen \in Nat
        BY <1>0, <4>1, FileFields
      <4> QED
        BY <3>2, <4>1, <4>2 DEF SeqNo
    <3>4. v.usn + k - 1 \in Nat /\ s \in Nat
      BY <1>0, <3>1, SlotBounds
    <3>5. ID(s, f[k].gen) \in Id /\ ID(f[k].dir, SeqNo(v, f[k].dir)) \in Id
      BY <3>2, <3>3, <3>4 DEF ID, Id
    <3> QED
      BY <2>2, <3>2, <3>4, <3>5 DEF Record
  <2> HIDE DEF record
  <2>4. more \in Seq(Record)
    <3>1. more \in [1..Len(reasons) -> Record]
      BY <2>2, <2>3
    <3> HIDE DEF more
    <3> QED
      BY <2>2, <3>1, SeqDef
  <2>5. Len(more) = Len(reasons) /\ DOMAIN more = DOMAIN reasons /\ \A k \in DOMAIN more : more[k] = record(k)
    <3>1. DOMAIN more = DOMAIN reasons /\ \A k \in DOMAIN more : more[k] = record(k)
      OBVIOUS
    <3> HIDE DEF more
    <3> QED
      BY <2>2, <2>4, <3>1
  <2> HIDE DEF more
  <2>6. /\ all \in Seq(Record) /\ Len(all) = Len(v.journal) + Len(more)
        /\ \A k \in 1..Len(all) : \/ k \in DOMAIN v.journal /\ all[k] = v.journal[k]
                                 \/ \E j \in DOMAIN more : all[k] = more[j]
    <3>1. all \in Seq(Record) /\ Len(all) = Len(v.journal) + Len(more)
      BY <1>0, <2>4
    <3>2. ASSUME NEW k \in 1..Len(all)
          PROVE  \/ k \in DOMAIN v.journal /\ all[k] = v.journal[k]
                 \/ \E j \in DOMAIN more : all[k] = more[j]
      <4>1. CASE k <= Len(v.journal)
        BY <1>0, <2>4, <4>1
      <4>2. CASE ~(k <= Len(v.journal))
        <5>1. all[k] = more[k - Len(v.journal)] /\ k - Len(v.journal) \in 1..Len(more)
          BY <1>0, <2>4, <3>1, <4>2
        <5> QED
          BY <2>4, <5>1
      <4> QED
        BY <4>1, <4>2
    <3> HIDE DEF all
    <3> QED
      BY <3>1, <3>2
  <2> HIDE DEF all
  <2>7. kept \in Seq(Record) /\ \A k \in DOMAIN kept : \E j \in 1..Len(all) : kept[k] = all[j]
    <3>1. Len(all) \in Nat /\ DOMAIN all = 1..Len(all)
      BY <2>6
    <3>2. CASE Len(all) > MaxJournal
      <4> DEFINE m == Len(all) - MaxJournal + 1
      <4>1. kept = SubSeq(all, m, Len(all)) /\ m \in 1..(Len(all) + 1)
        BY <1>0, <3>1, <3>2
      <4> HIDE DEF m, kept
      <4>2. kept \in Seq(Record) /\ Len(kept) = (IF m <= Len(all) THEN Len(all) - m + 1 ELSE 0)
            /\ \A k \in 1..(Len(all) - m + 1) : kept[k] = all[m + k - 1]
        BY <2>6, <3>1, <4>1, SubSeqProperties
      <4>3. DOMAIN kept = 1..Len(kept) /\ Len(kept) = Len(all) - m + 1
        BY <3>1, <4>1, <4>2
      <4>4. \A k \in DOMAIN kept : m + k - 1 \in 1..Len(all) /\ kept[k] = all[m + k - 1]
        BY <3>1, <4>1, <4>2, <4>3
      <4> QED
        BY <4>2, <4>4
    <3>3. CASE ~(Len(all) > MaxJournal)
      BY <2>6, <3>1, <3>3
    <3> QED
      BY <3>2, <3>3
  <2> HIDE DEF kept
  <2>8. u \in Volume
    <3>1. v.usn + Len(reasons) \in Nat
      BY <1>0, <2>2
    <3> HIDE DEF u
    <3> QED
      BY <2>1, <2>7, <3>1 DEF Volume
  <2>9. u.files = v.files /\ Alike(u, v) /\ u.usn = v.usn + Len(reasons) /\ u.journal = kept
    <3> HIDE DEF u
    <3> QED
      BY <2>1 DEF Alike, Volume
  <2> HIDE DEF u
  <2>10. v.usn <= u.usn
    BY <1>0, <2>2, <2>9
  <2>11. ASSUME NEW k \in DOMAIN u.journal
         PROVE \/ \E j \in DOMAIN v.journal : u.journal[k] = v.journal[j]
               \/ \E j \in DOMAIN reasons : /\ u.journal[k].id = ID(s, f[j].gen) /\ u.journal[k].uid = f[j].uid
                                            /\ u.journal[k].usn <= u.usn
    <3>1. PICK i \in 1..Len(all) : u.journal[k] = all[i]
      BY <2>7, <2>9
    <3>2. CASE \E j \in DOMAIN more : all[i] = more[j]
      <4>1. PICK j \in DOMAIN reasons : u.journal[k] = record(j)
        BY <2>5, <3>1, <3>2
      <4>2. /\ u.journal[k].id = ID(s, f[j].gen) /\ u.journal[k].uid = f[j].uid
            /\ u.journal[k].usn = v.usn + j - 1
        BY <4>1 DEF record
      <4>3. v.usn + j - 1 <= v.usn + Len(reasons)
        BY <1>0, <2>2
      <4> QED
        BY <2>9, <4>2, <4>3
    <3> QED
      BY <2>6, <3>1, <3>2
  <2> QED
    BY <2>8, <2>9, <2>10, <2>11 DEF u
<1> QED
  BY <1>1, <1>2

-----------------------------------------------------------------------------
(* What an operation of the guest does to a volume.                         *)

\* A volume with one file changed, and perhaps a name entered in its subdirectory.
Stepped(v, s0, g, dirs) ==
  [v EXCEPT !.files = [s \in Slots |-> IF s = s0 THEN g
                                       ELSE IF s = Sub /\ s \in dirs THEN [v.files[Sub] EXCEPT !.dirty = {0}]
                                       ELSE v.files[s]]]
\* A file that is as it was, but perhaps for its content.
Quiet(x, y) ==
  /\ x.live = y.live /\ x.isDir = y.isDir /\ x.gen = y.gen /\ x.name = y.name /\ x.dir = y.dir
  /\ x.map = y.map /\ x.fork = y.fork /\ x.uid = y.uid /\ x.forkDirty = y.forkDirty
SameFile(g, f) == g.gen = f.gen /\ g.uid = f.uid /\ (g.live => f.live)
NewFile(g, f, below) == f.gen < g.gen /\ g.uid = below
PlacedIn(v, g) ==
  /\ g.live => g.name # 0
  /\ g.dir = Sub => v.files[Sub].isDir
  /\ \A k \in DOMAIN g.map : g.map[k] \in Room(v) \/ (g.map[k] = 0 /\ v.kind \in HaveHoles)
  /\ g.fork = 0 \/ (g.fork \in Room(v) /\ v.kind \in HaveForks)
WrittenIn(g, w) ==
  /\ \A b \in g.dirty : b + 1 \in DOMAIN g.map /\ g.map[b + 1] # 0 /\ g.map[b + 1] \in w
  /\ g.forkDirty => g.fork # 0 /\ g.fork \in w

\* What the guest changes of a volume is one file, and the directories it enters.
LEMMA SteppedIs ==
  ASSUME NEW v \in Volume, NEW s0 \in Slots, NEW g \in File, NEW dirs, Sub \in dirs => s0 # Sub
  PROVE  LET m == Stepped(v, s0, g, dirs)
         IN  /\ m \in Volume /\ Alike(m, v) /\ m.journal = v.journal /\ m.usn = v.usn
             /\ m.files[s0] = g
             /\ \A s \in Slots : s # s0 =>
                  /\ Quiet(m.files[s], v.files[s])
                  /\ m.files[s].dirty = v.files[s].dirty \/ (Sub \in dirs /\ s = Sub /\ m.files[s].dirty = {0})
<1> DEFINE F == [s \in Slots |-> IF s = s0 THEN g
                                 ELSE IF s = Sub /\ s \in dirs THEN [v.files[Sub] EXCEPT !.dirty = {0}]
                                 ELSE v.files[s]]
           m == Stepped(v, s0, g, dirs)
           h == [v.files[Sub] EXCEPT !.dirty = {0}]
<1>1. \A s \in Slots : v.files[s] \in File
  BY VolumeFields
<1>2. h \in File /\ Quiet(h, v.files[Sub]) /\ h.dirty = {0}
  <2>1. v.files[Sub] \in File
    BY <1>1, SlotBounds
  <2>2. {0} \in SUBSET Nat
    OBVIOUS
  <2> QED
    BY <2>1, <2>2 DEF File, Quiet
<1> HIDE DEF h
<1>3. F \in [Slots -> File]
  BY <1>1, <1>2 DEF h
<1>4. /\ F[s0] = g
      /\ \A s \in Slots : s # s0 => F[s] = v.files[s] \/ (Sub \in dirs /\ s = Sub /\ F[s] = h)
  BY DEF h
<1>5. \A s \in Slots : Quiet(v.files[s], v.files[s])
  BY DEF Quiet
<1> HIDE DEF F
<1>6. m = [v EXCEPT !.files = F]
  BY DEF Stepped, F
<1> HIDE DEF m
<1>7. m \in Volume /\ m.files = F /\ m.journal = v.journal /\ m.usn = v.usn /\ Alike(m, v)
  BY <1>3, <1>6 DEF Volume, Alike
<1> QED
  BY <1>2, <1>4, <1>5, <1>7 DEF m

\* An operation on one file keeps what is known of its volume, and of what has
\* become of it since the checkpoint.
LEMMA StepKeeps ==
  ASSUME NEW v, NEW w, NEW w2, NEW below \in Nat, NEW below2 \in Nat, VolumeInv(v, w, below),
         w \subseteq w2, below <= below2,
         NEW s0 \in Slots, NEW g \in File, NEW dirs,
         NEW f, NEW reasons \in Seq({"old", "new", "other"}),
         ~v.files[s0].isDir, ~g.isDir, Sub \in dirs => v.files[Sub].isDir /\ v.sub \in w2,
         PlacedIn(v, g), WrittenIn(g, w2),
         SameFile(g, v.files[s0]) \/ (NewFile(g, v.files[s0], below) /\ below < below2),
         \A k \in DOMAIN reasons : f[k] \in File /\ f[k].gen = g.gen /\ f[k].uid = g.uid
  PROVE  LET u == Logged(Stepped(v, s0, g, dirs), f, s0, reasons)
         IN  /\ VolumeInv(u, w2, below2) /\ Alike(u, v)
             /\ \A was : SoundVolume(was) /\ Known(was, below) /\ Since(v, was) => Since(u, was)
<1> DEFINE m == Stepped(v, s0, g, dirs)
           u == Logged(m, f, s0, reasons)
<1>1. v \in Volume /\ SoundVolume(v) /\ Written(v, w) /\ JournalTrue(v) /\ Known(v, below)
  BY DEF VolumeInv, SoundVolume
<1>2. Sub \in dirs => s0 # Sub
  OBVIOUS
<1>3. /\ m \in Volume /\ Alike(m, v) /\ m.journal = v.journal /\ m.usn = v.usn
      /\ m.files[s0] = g
      /\ \A s \in Slots : s # s0 =>
           /\ Quiet(m.files[s], v.files[s])
           /\ m.files[s].dirty = v.files[s].dirty \/ (Sub \in dirs /\ s = Sub /\ m.files[s].dirty = {0})
  BY <1>1, <1>2, SteppedIs
<1> HIDE DEF m
<1>4. /\ u \in Volume /\ u.files = m.files /\ Alike(u, m) /\ v.usn <= u.usn
      /\ \A k \in DOMAIN u.journal :
           \/ \E j \in DOMAIN v.journal : u.journal[k] = v.journal[j]
           \/ \E j \in DOMAIN reasons : /\ u.journal[k].id = ID(s0, f[j].gen) /\ u.journal[k].uid = f[j].uid
                                        /\ u.journal[k].usn <= u.usn
  BY <1>3, LoggedIs
<1> HIDE DEF u
<1>5. Alike(u, v)
  BY <1>3, <1>4 DEF Alike
<1>6. /\ u.files[s0] = g
      /\ \A s \in Slots : s # s0 =>
           /\ Quiet(u.files[s], v.files[s])
           /\ u.files[s].dirty = v.files[s].dirty \/ (Sub \in dirs /\ s = Sub /\ u.files[s].dirty = {0})
  BY <1>3, <1>4
<1>7. Sub \in Slots /\ u.kind = v.kind /\ u.sub = v.sub /\ Room(u) = Room(v)
  BY <1>5, SlotBounds DEF Alike, Room
<1>8. u.files[Sub].isDir = v.files[Sub].isDir
  <2>1. CASE s0 = Sub
    <3>1. u.files[Sub] = g /\ g.isDir \in BOOLEAN /\ v.files[Sub].isDir \in BOOLEAN
      BY <1>1, <1>6, <1>7, <2>1, FileFields, VolumeFields
    <3> QED
      BY <2>1, <3>1
  <2>2. CASE s0 # Sub
    BY <1>6, <1>7, <2>2 DEF Quiet
  <2> QED
    BY <2>1, <2>2
<1>9. \A s \in Slots : SoundFile(u, s)
  <2> TAKE s \in Slots
  <2>1. CASE s = s0
    BY <1>6, <1>7, <1>8, <2>1 DEF SoundFile, PlacedIn
  <2>2. CASE s # s0
    <3>1. SoundFile(v, s)
      BY <1>1 DEF SoundVolume
    <3> QED
      BY <1>6, <1>7, <1>8, <2>2, <3>1 DEF SoundFile, Quiet
  <2> QED
    BY <2>1, <2>2
<1>10. \A s \in Slots : v.files[s] \in File /\ v.files[s].uid \in Nat /\ v.files[s].gen \in Nat /\ v.files[s].uid < below
  BY <1>1, VolumeFields, FileFields DEF Known
<1>11. g.gen \in Nat /\ g.uid \in Nat
  BY FileFields
<1>12. DOMAIN u.files = Slots /\ DOMAIN v.files = Slots /\ \A s \in Slots : u.files[s] \in File
  BY <1>1, <1>4, VolumeFields
<1>13. \A s, t \in Live(u) : u.files[s].uid = u.files[t].uid => s = t
  <2>1. \A s, t \in Live(v) : v.files[s].uid = v.files[t].uid => s = t
    BY <1>1 DEF SoundVolume
  <2>2. ASSUME NEW s \in Live(u), s # s0 PROVE s \in Slots /\ s \in Live(v) /\ u.files[s].uid = v.files[s].uid
    BY <1>6, <1>12, <2>2 DEF Live, Quiet
  <2>3. CASE SameFile(g, v.files[s0])
    <3>1. ASSUME NEW s \in Live(u) PROVE s \in Live(v) /\ u.files[s].uid = v.files[s].uid
      <4>1. CASE s = s0
        BY <1>6, <1>12, <2>3, <4>1 DEF Live, SameFile
      <4> QED
        BY <2>2, <4>1
    <3> QED
      BY <2>1, <3>1
  <2>4. CASE NewFile(g, v.files[s0], below)
    <3>1. \A s \in Live(u) : s # s0 => u.files[s].uid # below
      BY <1>10, <2>2
    <3>2. u.files[s0].uid = below
      BY <1>6, <2>4 DEF NewFile
    <3> QED
      BY <2>1, <2>2, <3>1, <3>2
  <2> QED
    BY <2>3, <2>4
<1>14. SoundVolume(u)
  <2>1. /\ v.base + v.len <= Size /\ v.root > 0 /\ v.root >= v.base /\ {v.root, v.sub} \subseteq Room(v)
    BY <1>1 DEF SoundVolume
  <2>2. u.base = v.base /\ u.len = v.len /\ u.root = v.root
    BY <1>5 DEF Alike
  <2> QED
    BY <1>4, <1>7, <1>9, <1>13, <2>1, <2>2 DEF SoundVolume
<1>15. Written(u, w2)
  <2> SUFFICES ASSUME NEW s \in Slots PROVE WrittenIn(u.files[s], w2)
    BY DEF Written, WrittenIn
  <2>1. CASE s = s0
    BY <1>6, <2>1
  <2>2. CASE s # s0 /\ u.files[s].dirty = v.files[s].dirty
    <3>1. WrittenIn(v.files[s], w)
      BY <1>1 DEF Written, WrittenIn
    <3> QED
      BY <1>6, <2>2, <3>1 DEF Quiet, WrittenIn
  <2>3. CASE s # s0 /\ Sub \in dirs /\ s = Sub /\ u.files[s].dirty = {0}
    <3>1. v.files[Sub].isDir /\ v.sub \in w2 /\ v.files[Sub].map = <<v.sub>>
      BY <1>1, <1>7, <2>3 DEF SoundVolume, SoundFile
    <3>2. v.sub # 0
      <4>1. v.sub \in Room(v) /\ v.root > 0
        BY <1>1 DEF SoundVolume
      <4>2. v.root \in Nat /\ v.sub \in Nat
        BY <1>1, VolumeFields
      <4> QED
        BY <4>1, <4>2 DEF Room
    <3>3. WrittenIn(v.files[s], w)
      BY <1>1 DEF Written, WrittenIn
    <3>4. u.files[s].map = <<v.sub>>
      BY <1>6, <2>3, <3>1 DEF Quiet
    <3>5. \A b \in u.files[s].dirty : b + 1 \in DOMAIN u.files[s].map /\ u.files[s].map[b + 1] = v.sub
      BY <2>3, <3>4
    <3>6. u.files[s].forkDirty => u.files[s].fork # 0 /\ u.files[s].fork \in w2
      BY <1>6, <2>3, <3>3 DEF Quiet, WrittenIn
    <3> QED
      BY <3>1, <3>2, <3>5, <3>6 DEF WrittenIn
  <2> QED
    BY <1>6, <2>1, <2>2, <2>3
<1>16. \A k \in DOMAIN v.journal : v.journal[k] \in Record
  <2>1. v.journal \in Seq(Record)
    BY <1>1, VolumeFields
  <2> QED
    BY <2>1
<1>17. v.usn \in Nat /\ u.usn \in Nat
  BY <1>1, <1>4, VolumeFields
<1>18. \A r \in Record : r.usn \in Nat /\ r.id.gen \in Nat /\ r.id.num \in Nat /\ r.uid \in Nat
  BY DEF Record, Id
<1>19. \A n, x : ID(n, x).num = n /\ ID(n, x).gen = x
  BY DEF ID
<1>20. JournalTrue(u)
  <2> SUFFICES ASSUME NEW k \in DOMAIN u.journal
               PROVE  LET r == u.journal[k] IN
                        /\ r.usn <= u.usn /\ r.id.num \in Slots
                        /\ r.id.gen <= u.files[r.id.num].gen
                        /\ r.id.gen = u.files[r.id.num].gen => r.uid = u.files[r.id.num].uid
    BY DEF JournalTrue
  <2> DEFINE r == u.journal[k]
  <2>1. CASE \E j \in DOMAIN v.journal : r = v.journal[j]
    <3>1. PICK j \in DOMAIN v.journal : r = v.journal[j]
      BY <2>1
    <3> HIDE DEF r
    <3>2. /\ r.usn <= v.usn /\ r.id.num \in Slots
          /\ r.id.gen <= v.files[r.id.num].gen
          /\ r.id.gen = v.files[r.id.num].gen => r.uid = v.files[r.id.num].uid
      BY <1>1, <3>1 DEF JournalTrue
    <3>3. r.usn \in Nat /\ r.id.gen \in Nat
      BY <1>16, <1>18, <3>1
    <3>4. r.usn <= u.usn
      BY <1>4, <1>17, <3>2, <3>3
    <3>5. CASE r.id.num # s0
      BY <1>6, <3>2, <3>4, <3>5 DEF Quiet, r
    <3>6. CASE r.id.num = s0 /\ SameFile(g, v.files[s0])
      BY <1>6, <3>2, <3>4, <3>6 DEF SameFile, r
    <3>7. CASE r.id.num = s0 /\ NewFile(g, v.files[s0], below)
      <4>1. r.id.gen < g.gen
        BY <1>10, <1>11, <3>2, <3>3, <3>7 DEF NewFile
      <4>2. r.id.gen <= g.gen /\ r.id.gen # g.gen
        BY <1>11, <3>3, <4>1
      <4> QED
        BY <1>6, <3>2, <3>4, <3>7, <4>2 DEF r
    <3> QED
      BY <3>5, <3>6, <3>7
  <2>2. CASE \E j \in DOMAIN reasons : r.id = ID(s0, f[j].gen) /\ r.uid = f[j].uid /\ r.usn <= u.usn
    <3>1. r.id.num = s0 /\ r.id.gen = g.gen /\ r.uid = g.uid /\ r.usn <= u.usn
      BY <1>19, <2>2
    <3> HIDE DEF r
    <3> QED
      BY <1>6, <1>11, <3>1 DEF r
  <2> QED
    BY <1>4, <2>1, <2>2
<1>21. Known(u, below2)
  <2> SUFFICES ASSUME NEW s \in Slots PROVE u.files[s].uid < below2
    BY DEF Known
  <2>1. CASE s # s0
    BY <1>6, <1>10, <2>1 DEF Quiet
  <2>2. CASE s = s0 /\ SameFile(g, v.files[s0])
    BY <1>6, <1>10, <2>2 DEF SameFile
  <2>3. CASE s = s0 /\ NewFile(g, v.files[s0], below) /\ below < below2
    BY <1>6, <2>3 DEF NewFile
  <2> QED
    BY <2>1, <2>2, <2>3
<1>22. ASSUME NEW was, SoundVolume(was), Known(was, below), Since(v, was)
       PROVE  Since(u, was)
  <2>1. \A s \in Slots : was.files[s].uid \in Nat /\ was.files[s].gen \in Nat /\ was.files[s].uid < below
                         /\ was.files[s].isDir \in BOOLEAN
    <3>1. was \in Volume
      BY <1>22 DEF SoundVolume
    <3>2. \A s \in Slots : was.files[s] \in File
      BY <3>1, VolumeFields
    <3> QED
      BY <1>22, <3>2, FileFields DEF Known
  <2> DEFINE Became(x, y) == /\ x.isDir = y.isDir
                             /\ x.isDir => x.gen = y.gen /\ x.name = y.name /\ x.dir = y.dir
                             /\ y.gen <= x.gen
                             /\ x.gen = y.gen => x.uid = y.uid /\ (x.live => y.live)
                             /\ x.gen # y.gen => \A t \in Slots : x.uid # was.files[t].uid
  <2>2. \A s \in Slots : Became(v.files[s], was.files[s])
    BY <1>22 DEF Since
  <2>3. \A s \in Slots : Became(u.files[s], was.files[s])
    <3> TAKE s \in Slots
    <3>1. CASE s # s0
      <4>1. Quiet(u.files[s], v.files[s]) /\ Became(v.files[s], was.files[s])
        BY <1>6, <2>2, <3>1
      <4> QED
        BY <4>1 DEF Quiet
    <3>2. CASE s = s0
      <4> DEFINE y == was.files[s0]
      <4>0. Became(v.files[s0], y) /\ y.gen \in Nat /\ v.files[s0].gen \in Nat
        BY <1>10, <2>1, <2>2
      <4>1. g.isDir = FALSE /\ y.isDir = FALSE
        <5>1. g.isDir \in BOOLEAN /\ v.files[s0].isDir \in BOOLEAN
          BY <1>10, FileFields
        <5> QED
          BY <4>0, <5>1
      <4>2. CASE SameFile(g, v.files[s0])
        <5>1. Became(g, y)
          BY <4>0, <4>1, <4>2 DEF SameFile
        <5> QED
          BY <1>6, <3>2, <5>1
      <4>3. CASE NewFile(g, v.files[s0], below)
        <5>1. g.uid = below /\ y.gen < g.gen
          BY <1>11, <4>0, <4>3 DEF NewFile
        <5>2. \A t \in Slots : g.uid # was.files[t].uid
          BY <2>1, <5>1
        <5>3. y.gen <= g.gen /\ g.gen # y.gen
          BY <1>11, <4>0, <5>1
        <5>4. Became(g, y)
          BY <4>1, <5>2, <5>3
        <5> QED
          BY <1>6, <3>2, <5>4
      <4> QED
        BY <4>2, <4>3
    <3> QED
      BY <3>1, <3>2
  <2>4. \A k \in DOMAIN u.journal : u.journal[k].id.gen = was.files[u.journal[k].id.num].gen
                                      => u.journal[k].uid = was.files[u.journal[k].id.num].uid
    <3> TAKE k \in DOMAIN u.journal
    <3>1. CASE \E j \in DOMAIN v.journal : u.journal[k] = v.journal[j]
      <4>1. PICK j \in DOMAIN v.journal : u.journal[k] = v.journal[j]
        BY <3>1
      <4>2. v.journal[j].id.gen = was.files[v.journal[j].id.num].gen
              => v.journal[j].uid = was.files[v.journal[j].id.num].uid
        BY <1>22 DEF Since
      <4> QED
        BY <4>1, <4>2
    <3>2. CASE \E j \in DOMAIN reasons : u.journal[k].id = ID(s0, f[j].gen) /\ u.journal[k].uid = f[j].uid
      <4>1. u.journal[k].id.num = s0 /\ u.journal[k].id.gen = g.gen /\ u.journal[k].uid = g.uid
        BY <1>19, <3>2
      <4>2. Became(g, was.files[s0])
        BY <1>6, <2>3
      <4> QED
        BY <4>1, <4>2
    <3> QED
      BY <1>4, <3>1, <3>2
  <2>5. \A s \in Slots : was.files[s].dirty = {} /\ was.files[s].forkDirty = FALSE
    BY <1>22 DEF Since
  <2> QED
    BY <2>3, <2>4, <2>5 DEF Since
<1>23. VolumeInv(u, w2, below2)
  BY <1>14, <1>15, <1>20, <1>21 DEF VolumeInv
<1> QED
  BY <1>5, <1>22, <1>23 DEF u, m

\* The room of a volume lies on the disk and holds its directories.
LEMMA RoomIsDisk ==
  ASSUME NEW v, SoundVolume(v)
  PROVE  /\ Room(v) \subseteq 0..(Size - 1) /\ Room(v) \subseteq Nat /\ 0 \notin Room(v)
         /\ v.root \in Room(v) /\ v.sub \in Room(v) /\ v.len \in Nat /\ v.len # 0 /\ v.base < Size
<1>1. /\ v.base + v.len <= Size /\ v.root > 0 /\ v.root >= v.base /\ {v.root, v.sub} \subseteq Room(v) /\ v \in Volume
  BY DEF SoundVolume
<1>2. v.base \in Nat /\ v.len \in Nat /\ v.root \in Nat /\ Size \in Nat
  BY <1>1, VolumeFields, SizesAreNat
<1>3. v.root \in v.root..(v.base + v.len - 1)
  BY <1>1 DEF Room
<1> QED
  BY <1>1, <1>2, <1>3 DEF Room

\* A unit that is taken for content lies in the room.
LEMMA FirstFreeIs ==
  ASSUME NEW v, SoundVolume(v), Free(v) # {}
  PROVE  FirstFree(v) \in Room(v) /\ FirstFree(v) # 0 /\ FirstFree(v) \in Nat
<1>1. Free(v) \in SUBSET Nat /\ Free(v) \subseteq Room(v) /\ 0 \notin Room(v)
  BY RoomIsDisk DEF Free
<1>2. FirstFree(v) \in Free(v)
  BY <1>1, LeastExists DEF FirstFree
<1> QED
  BY <1>1, <1>2

\* More of the guest's writes, and more files, take nothing from a volume.
LEMMA VolumeStays ==
  ASSUME NEW v, NEW w, NEW w2, NEW below \in Nat, NEW below2 \in Nat, VolumeInv(v, w, below),
         w \subseteq w2, below <= below2
  PROVE  VolumeInv(v, w2, below2)
<1>1. Written(v, w2)
  BY DEF VolumeInv, Written
<1>2. Known(v, below2)
  <2>1. \A s \in Slots : v.files[s].uid \in Nat
    BY VolumeFields, FileFields DEF VolumeInv, SoundVolume
  <2> QED
    BY <2>1 DEF VolumeInv, Known
<1> QED
  BY <1>1, <1>2 DEF VolumeInv

\* Files known below one number are known below a greater one.
LEMMA KnownStays ==
  ASSUME NEW v, SoundVolume(v), NEW below \in Nat, NEW below2 \in Nat, Known(v, below), below <= below2
  PROVE  Known(v, below2)
<1>1. \A s \in Slots : v.files[s].uid \in Nat
  BY VolumeFields, FileFields DEF SoundVolume
<1> QED
  BY <1>1 DEF Known

\* A table suits volumes that lie where those it suits do.
LEMMA TableSuits ==
  ASSUME NEW vs, NEW ws, NEW t, SoundTable([vols |-> vs, table |-> t]), DOMAIN ws = DOMAIN vs,
         \A i \in DOMAIN vs : ws[i].base = vs[i].base /\ ws[i].len = vs[i].len
  PROVE  SoundTable([vols |-> ws, table |-> t])
<1>1. /\ [vols |-> vs, table |-> t].vols = vs /\ [vols |-> vs, table |-> t].table = t
      /\ [vols |-> ws, table |-> t].vols = ws /\ [vols |-> ws, table |-> t].table = t
  OBVIOUS
<1> QED
  BY <1>1 DEF SoundTable

\* An operation that keeps its volume keeps the disk.
LEMMA PutKeeps ==
  ASSUME GuestInv, NEW i \in DOMAIN vols, NEW u, NEW units, Put(i, u, units), nextUid' \in Nat, nextUid <= nextUid',
         units \subseteq Room(vols[i]), units # {},
         VolumeInv(u, writes \cup units, nextUid'), Alike(u, vols[i]),
         \A was : SoundVolume(was) /\ Known(was, nextUid) /\ Since(vols[i], was) => Since(u, was)
  PROVE  GuestInv'
<1>1. /\ doc = <<>> /\ ops < MaxOps
      /\ vols' = [vols EXCEPT ![i] = u]
      /\ writes' = writes \cup units
      /\ ops' = ops + 1
      /\ table' = table /\ old' = old /\ doc' = doc
  BY DEF Put
<1>2. /\ nextUid \in Nat /\ ops \in 0..MaxOps /\ writes \subseteq 0..(Size - 1)
      /\ vols \in Seq(Volume) /\ vols # <<>> /\ SoundTable([vols |-> vols, table |-> table])
      /\ \A j \in DOMAIN vols : VolumeInv(vols[j], writes, nextUid)
  BY DEF GuestInv
<1>3. u \in Volume
  BY DEF VolumeInv, SoundVolume
<1>4. /\ DOMAIN vols' = DOMAIN vols /\ vols'[i] = u
      /\ \A j \in DOMAIN vols : j # i => vols'[j] = vols[j]
  BY <1>1
<1>5. vols' \in Seq(Volume) /\ vols' # <<>>
  <2>1. vols' \in Seq(Volume)
    BY <1>1, <1>2, <1>3
  <2>2. DOMAIN vols' # {}
    BY <1>4
  <2> QED
    BY <2>1, <2>2
<1>6. writes' \subseteq 0..(Size - 1)
  <2>1. SoundVolume(vols[i])
    BY <1>2 DEF VolumeInv
  <2> QED
    BY <1>1, <1>2, <2>1, RoomIsDisk
<1>7. ops' \in 0..MaxOps
  BY <1>1, <1>2, SizesAreNat
<1>8. \A j \in DOMAIN vols : /\ Alike(vols'[j], vols[j])
                             /\ VolumeInv(vols'[j], writes', nextUid')
  <2> TAKE j \in DOMAIN vols
  <2>1. CASE j = i
    BY <1>1, <1>4, <2>1
  <2>2. CASE j # i
    <3>1. vols'[j] = vols[j] /\ VolumeInv(vols[j], writes, nextUid) /\ writes \subseteq writes'
      BY <1>1, <1>2, <1>4, <2>2
    <3>2. VolumeInv(vols[j], writes', nextUid')
      BY <1>2, <3>1, VolumeStays
    <3> QED
      BY <3>1, <3>2 DEF Alike
  <2> QED
    BY <2>1, <2>2
<1>9. SoundTable([vols |-> vols', table |-> table'])
  <2>1. \A j \in DOMAIN vols : vols'[j].base = vols[j].base /\ vols'[j].len = vols[j].len
    BY <1>8 DEF Alike
  <2> QED
    BY <1>1, <1>2, <1>4, <2>1, TableSuits
<1>10. old' = <<>> \/ (/\ Len(old') = 1 /\ old' = <<[vols |-> old'[1].vols, table |-> table']>>
                       /\ DOMAIN old'[1].vols = DOMAIN vols'
                       /\ \A j \in DOMAIN vols' : LET v == vols'[j]  was == old'[1].vols[j] IN
                            /\ SoundVolume(was) /\ JournalTrue(was) /\ Known(was, nextUid') /\ Alike(v, was) /\ Since(v, was)
                            /\ v # was => writes' \cap Room(v) # {})
  <2>1. CASE old = <<>>
    BY <1>1, <2>1
  <2>2. CASE old # <<>>
    <3>1. /\ Len(old) = 1 /\ old = <<[vols |-> old[1].vols, table |-> table]>>
          /\ DOMAIN old[1].vols = DOMAIN vols
          /\ \A j \in DOMAIN vols : LET v == vols[j]  was == old[1].vols[j] IN
               /\ SoundVolume(was) /\ JournalTrue(was) /\ Known(was, nextUid) /\ Alike(v, was) /\ Since(v, was)
               /\ v # was => writes \cap Room(v) # {}
      BY <2>2 DEF GuestInv
    <3>2. ASSUME NEW j \in DOMAIN vols
          PROVE  LET v == vols'[j]  was == old[1].vols[j] IN
                   /\ SoundVolume(was) /\ JournalTrue(was) /\ Known(was, nextUid') /\ Alike(v, was) /\ Since(v, was)
                   /\ v # was => writes' \cap Room(v) # {}
      <4> DEFINE was == old[1].vols[j]
      <4>1. /\ SoundVolume(was) /\ JournalTrue(was) /\ Known(was, nextUid) /\ Alike(vols[j], was) /\ Since(vols[j], was)
            /\ vols[j] # was => writes \cap Room(vols[j]) # {}
        BY <3>1
      <4> HIDE DEF was
      <4>2. Known(was, nextUid')
        BY <1>2, <4>1, KnownStays
      <4>3. Alike(vols'[j], was)
        BY <1>8, <4>1 DEF Alike
      <4>4. CASE j = i
        <5>1. Since(vols'[j], was)
          BY <1>4, <4>1, <4>4
        <5>2. Room(vols'[j]) = Room(vols[i])
          BY <1>8, <4>4 DEF Alike, Room
        <5>3. writes' \cap Room(vols'[j]) # {}
          BY <1>1, <5>2
        <5> QED
          BY <4>1, <4>2, <4>3, <5>1, <5>3 DEF was
      <4>5. CASE j # i
        <5>1. vols'[j] = vols[j] /\ writes \subseteq writes'
          BY <1>1, <1>4, <4>5
        <5>2. Since(vols'[j], was) /\ (vols'[j] # was => writes' \cap Room(vols'[j]) # {})
          BY <4>1, <5>1
        <5> QED
          BY <4>1, <4>2, <4>3, <5>2 DEF was
      <4> QED
        BY <4>4, <4>5
    <3> QED
      BY <1>1, <1>4, <3>1, <3>2
  <2> QED
    BY <2>1, <2>2
<1>11. doc' = <<>>
  BY <1>1
<1> QED
  BY <1>4, <1>5, <1>6, <1>7, <1>8, <1>9, <1>10, <1>11 DEF GuestInv

\* An operation changes one file, and perhaps enters a name in the subdirectory.
One(v, s, g)         == [v EXCEPT !.files = [@ EXCEPT ![s] = g]]
Entering(v, s, g, d) == [v EXCEPT !.files = InDir([@ EXCEPT ![s] = g], d)]
EnteringTwice(v, s, g, d, e) == [v EXCEPT !.files = InDir(InDir([@ EXCEPT ![s] = g], d), e)]

\* A file put in place and entered in two directories is one step of a volume.
LEMMA EnteredBothIs ==
  ASSUME NEW v \in Volume, NEW s \in Slots, NEW g \in File, NEW d, NEW e, d = Sub => s # Sub, e = Sub => s # Sub
  PROVE  EnteringTwice(v, s, g, d, e) = Stepped(v, s, g, {d, e})
<1> DEFINE F(sub) == [t \in Slots |-> IF t = s THEN g
                                      ELSE IF t = Sub /\ sub THEN [v.files[Sub] EXCEPT !.dirty = {0}]
                                      ELSE v.files[t]]
           P == [v.files EXCEPT ![s] = g]
           h == [v.files[Sub] EXCEPT !.dirty = {0}]
<1>1. v.files \in [Slots -> File] /\ Sub \in Slots /\ DOMAIN v.files = Slots /\ v.files[Sub] \in File
  BY VolumeFields, SlotBounds
<1>2. [h EXCEPT !.dirty = {0}] = h
  BY <1>1 DEF File
<1>3. P = F(FALSE) /\ P \in [Slots -> File]
  BY <1>1
<1>4. s # Sub => [P EXCEPT ![Sub].dirty = {0}] = F(TRUE)
  <2> SUFFICES ASSUME s # Sub PROVE [P EXCEPT ![Sub].dirty = {0}] = F(TRUE)
    OBVIOUS
  <2>1. P[Sub] = v.files[Sub]
    BY <1>1
  <2>2. [P EXCEPT ![Sub].dirty = {0}] = [P EXCEPT ![Sub] = h]
    BY <2>1
  <2> HIDE DEF h
  <2>3. [P EXCEPT ![Sub] = h] = F(TRUE)
    <3>1. F(TRUE) = [t \in Slots |-> IF t = s THEN g ELSE IF t = Sub THEN h ELSE v.files[t]]
      BY DEF h
    <3> QED
      BY <1>1, <3>1
  <2> QED
    BY <2>2, <2>3
<1>5. s # Sub => [F(TRUE) EXCEPT ![Sub].dirty = {0}] = F(TRUE)
  <2> SUFFICES ASSUME s # Sub PROVE [F(TRUE) EXCEPT ![Sub].dirty = {0}] = F(TRUE)
    OBVIOUS
  <2>1. F(TRUE)[Sub] = h /\ DOMAIN F(TRUE) = Slots
    BY <1>1
  <2> DEFINE ft == F(TRUE)
  <2>2. ft = [t \in Slots |-> ft[t]]
    OBVIOUS
  <2> HIDE DEF ft, h
  <2>3. [ft EXCEPT ![Sub].dirty = {0}] = [ft EXCEPT ![Sub] = h]
    BY <1>2, <2>1 DEF ft
  <2>4. [ft EXCEPT ![Sub] = h] = ft
    BY <1>1, <2>1, <2>2 DEF ft
  <2> QED
    BY <2>3, <2>4 DEF ft
<1> DEFINE ff == F(FALSE)
           ft == F(TRUE)
<1>6. \A dirs : Stepped(v, s, g, dirs) = [v EXCEPT !.files = IF Sub \in dirs THEN ft ELSE ff]
  <2> TAKE dirs
  <2> DEFINE G == [t \in Slots |-> IF t = s THEN g
                                   ELSE IF t = Sub /\ t \in dirs THEN [v.files[Sub] EXCEPT !.dirty = {0}]
                                   ELSE v.files[t]]
  <2>1. G = IF Sub \in dirs THEN ft ELSE ff
    OBVIOUS
  <2>2. Stepped(v, s, g, dirs) = [v EXCEPT !.files = G]
    BY DEF Stepped
  <2> HIDE DEF G, ff, ft
  <2> QED
    BY <2>1, <2>2
<1>7. /\ P = ff /\ (s # Sub => [P EXCEPT ![Sub].dirty = {0}] = ft /\ [ft EXCEPT ![Sub].dirty = {0}] = ft)
  BY <1>3, <1>4, <1>5
<1>8. \A x, y : InDir(x, y) = IF y = Sub THEN [x EXCEPT ![Sub].dirty = {0}] ELSE x
  BY DEF InDir
<1> HIDE DEF P, ff, ft, F
<1>9. InDir(InDir(P, d), e) = IF d = Sub \/ e = Sub THEN ft ELSE ff
  BY <1>7, <1>8
<1>10. EnteringTwice(v, s, g, d, e) = [v EXCEPT !.files = InDir(InDir(P, d), e)]
  BY DEF P, EnteringTwice
<1>11. InDir(InDir(P, d), e) = IF Sub \in {d, e} THEN ft ELSE ff
  BY <1>9
<1>12. Stepped(v, s, g, {d, e}) = [v EXCEPT !.files = IF Sub \in {d, e} THEN ft ELSE ff]
  BY <1>6
<1> QED
  BY <1>10, <1>11, <1>12

\* The same with one directory, and with none.
LEMMA EnteredIs ==
  ASSUME NEW v \in Volume, NEW s \in Slots, NEW g \in File, NEW d, d = Sub => s # Sub
  PROVE  Entering(v, s, g, d) = Stepped(v, s, g, {d}) /\ One(v, s, g) = Stepped(v, s, g, {})
<1>1. Root # Sub
  BY DEF Root, Sub
<1>2. \A x : InDir(x, Root) = x
  BY <1>1 DEF InDir
<1>3. \A D, E : (Sub \in D <=> Sub \in E) => Stepped(v, s, g, D) = Stepped(v, s, g, E)
  BY DEF Stepped
<1>4. EnteringTwice(v, s, g, d, Root) = Stepped(v, s, g, {d, Root})
  BY <1>1, EnteredBothIs
<1>5. EnteringTwice(v, s, g, Root, Root) = Stepped(v, s, g, {Root, Root})
  BY <1>1, EnteredBothIs
<1>6. EnteringTwice(v, s, g, d, Root) = Entering(v, s, g, d)
  BY <1>2 DEF EnteringTwice, Entering
<1>7. EnteringTwice(v, s, g, Root, Root) = One(v, s, g)
  BY <1>2 DEF EnteringTwice, One
<1>8. Stepped(v, s, g, {d, Root}) = Stepped(v, s, g, {d})
  <2>1. Sub \in {d, Root} <=> Sub \in {d}
    BY <1>1
  <2> QED
    BY <1>3, <2>1
<1>9. Stepped(v, s, g, {Root, Root}) = Stepped(v, s, g, {})
  <2>1. Sub \in {Root, Root} <=> Sub \in {}
    BY <1>1
  <2> QED
    BY <1>3, <2>1
<1> QED
  BY <1>4, <1>5, <1>6, <1>7, <1>8, <1>9

\* An operation of the guest keeps the invariant: it changes one volume, one file
\* of it and directories, writes what it touches, logs what it did, and gives a
\* new file a number no file had.
LEMMA OperationKeeps ==
  ASSUME GuestInv, NEW i \in DOMAIN vols, NEW s \in Slots, NEW g \in File, NEW dirs,
         NEW f, NEW reasons \in Seq({"old", "new", "other"}), NEW units,
         Put(i, Logged(Stepped(vols[i], s, g, dirs), f, s, reasons), units),
         nextUid' \in Nat, nextUid <= nextUid', units \subseteq Room(vols[i]), units # {},
         ~vols[i].files[s].isDir, ~g.isDir, Sub \in dirs => vols[i].files[Sub].isDir /\ vols[i].sub \in units,
         PlacedIn(vols[i], g), WrittenIn(g, writes \cup units),
         SameFile(g, vols[i].files[s]) \/ (NewFile(g, vols[i].files[s], nextUid) /\ nextUid < nextUid'),
         \A k \in DOMAIN reasons : f[k] \in File /\ f[k].gen = g.gen /\ f[k].uid = g.uid
  PROVE  GuestInv'
<1> DEFINE u == Logged(Stepped(vols[i], s, g, dirs), f, s, reasons)
<1>1. nextUid \in Nat /\ VolumeInv(vols[i], writes, nextUid)
  BY DEF GuestInv
<1>2. Sub \in dirs => vols[i].files[Sub].isDir /\ vols[i].sub \in (writes \cup units)
  OBVIOUS
<1>3. writes \subseteq writes \cup units
  OBVIOUS
<1>4. /\ VolumeInv(u, writes \cup units, nextUid') /\ Alike(u, vols[i])
      /\ \A was : SoundVolume(was) /\ Known(was, nextUid) /\ Since(vols[i], was) => Since(u, was)
  BY <1>1, <1>2, <1>3, StepKeeps
<1> HIDE DEF u
<1>5. Put(i, u, units)
  BY DEF u
<1> QED
  BY <1>4, <1>5, PutKeeps

\* What every operation can rely on.
LEMMA FileOf ==
  ASSUME GuestInv, NEW i \in DOMAIN vols, NEW s \in Slots
  PROVE  LET v == vols[i]  f == v.files[s]
         IN  /\ v \in Volume /\ SoundVolume(v) /\ f \in File /\ PlacedIn(v, f) /\ WrittenIn(f, writes)
             /\ f.isDir => s = Sub /\ f.live
             /\ nextUid \in Nat
<1>1. VolumeInv(vols[i], writes, nextUid) /\ nextUid \in Nat
  BY DEF GuestInv
<1>2. SoundVolume(vols[i]) /\ Written(vols[i], writes) /\ vols[i] \in Volume
  BY <1>1 DEF VolumeInv, SoundVolume
<1>3. SoundFile(vols[i], s) /\ vols[i].files[s] \in File
  BY <1>2, VolumeFields DEF SoundVolume
<1>4. WrittenIn(vols[i].files[s], writes)
  BY <1>2 DEF Written, WrittenIn
<1>5. PlacedIn(vols[i], vols[i].files[s])
  BY <1>3 DEF SoundFile, PlacedIn
<1> QED
  BY <1>1, <1>2, <1>3, <1>4, <1>5 DEF SoundFile

\* The unit of a directory lies in the room.
LEMMA DirUnitIs ==
  ASSUME NEW v, SoundVolume(v), NEW dir \in {Root, Sub}
  PROVE  DirUnit(v, dir) \in Room(v) /\ (dir = Sub => DirUnit(v, dir) = v.sub)
<1>1. Root # Sub
  BY DEF Root, Sub
<1> QED
  BY <1>1, RoomIsDisk DEF DirUnit

\* The subdirectory is named only when there is one.
LEMMA DirectoryIs ==
  ASSUME NEW v, NEW dir \in {Root, Sub}, dir \in Directories(v)
  PROVE  dir = Sub => v.files[Sub].isDir
<1>1. Root # Sub
  BY DEF Root, Sub
<1> QED
  BY <1>1 DEF Directories

\* Create keeps the invariant.
LEMMA CreateKeeps ==
  ASSUME GuestInv, NEW i \in DOMAIN vols, NEW s \in Slots, NEW dir \in {Root, Sub}, NEW n \in Names,
         NEW later \in {0, 1}, Create(i, s, dir, n, later)
  PROVE  GuestInv'
<1> DEFINE v == vols[i]
           x == v.files[s]
           m == <<FirstFree(v)>>
           a == x.gen + 1
           b == x.born + later
           f == [x EXCEPT !.live = TRUE, !.gen = a, !.born = b, !.name = n, !.dir = dir,
                   !.map = m, !.fork = 0, !.uid = nextUid, !.dirty = {0}, !.forkDirty = FALSE]
           units == {FirstFree(v), DirUnit(v, dir)}
<1>1. /\ ~v.files[s].live /\ dir \in Directories(v) /\ Free(v) # {}
      /\ Put(i, Logged([v EXCEPT !.files = InDir([@ EXCEPT ![s] = f], dir)], <<f>>, s, <<"other">>), units)
      /\ nextUid' = nextUid + 1
  BY DEF Create
<1>2. v \in Volume /\ SoundVolume(v) /\ v.files[s] \in File /\ ~v.files[s].isDir /\ nextUid \in Nat
  BY <1>1, FileOf
<1> HIDE DEF v
<1>3. FirstFree(v) \in Room(v) /\ FirstFree(v) # 0 /\ FirstFree(v) \in Nat
  BY <1>1, <1>2, FirstFreeIs
<1>4. /\ v.files[s].gen \in Nat /\ v.files[s].born \in Nat /\ v.files[s].isDir \in BOOLEAN /\ v.files[s].lost = FALSE
  BY <1>2, FileFields
<1>5. n \in Nat /\ n # 0 /\ later \in Nat
  BY SizesAreNat
<1>6. a \in Nat /\ b \in Nat /\ m \in Seq(Nat) /\ {0} \in SUBSET Nat
  BY <1>3, <1>4, <1>5
<1>7. f \in File
  <2>0. x \in File
    BY <1>2
  <2> HIDE DEF x, m, a, b
  <2> QED
    BY <1>2, <1>5, <1>6, <2>0 DEF File
<1>8. /\ f.live = TRUE /\ f.isDir = v.files[s].isDir /\ f.gen = v.files[s].gen + 1 /\ f.name = n /\ f.dir = dir
      /\ f.map = <<FirstFree(v)>> /\ f.fork = 0 /\ f.uid = nextUid /\ f.dirty = {0} /\ f.forkDirty = FALSE
  <2>0. x \in File
    BY <1>2
  <2> HIDE DEF x, m, a, b
  <2>1. /\ f.live = TRUE /\ f.isDir = x.isDir /\ f.gen = a /\ f.name = n /\ f.dir = dir
        /\ f.map = m /\ f.fork = 0 /\ f.uid = nextUid /\ f.dirty = {0} /\ f.forkDirty = FALSE
    BY <2>0 DEF File
  <2> HIDE DEF f
  <2> QED
    BY <2>1 DEF x, m, a
<1> HIDE DEF f
<1>9. dir = Sub => v.files[Sub].isDir
  BY <1>1, DirectoryIs
<1>10. dir = Sub => s # Sub
  BY <1>2, <1>9
<1>11. Entering(v, s, f, dir) = Stepped(v, s, f, {dir})
  BY <1>2, <1>7, <1>10, EnteredIs
<1>12. DirUnit(v, dir) \in Room(v) /\ (dir = Sub => DirUnit(v, dir) = v.sub)
  BY <1>2, DirUnitIs
<1>13. units \subseteq Room(v) /\ units # {} /\ FirstFree(v) \in units /\ (dir = Sub => v.sub \in units)
  BY <1>3, <1>12
<1> HIDE DEF units
<1>14. PlacedIn(v, f)
  BY <1>3, <1>5, <1>8, <1>9 DEF PlacedIn
<1>15. WrittenIn(f, writes \cup units)
  <2>1. f.dirty = {0} /\ 0 + 1 \in DOMAIN f.map /\ f.map[0 + 1] = FirstFree(v)
    BY <1>8
  <2> QED
    BY <1>3, <1>8, <1>13, <2>1 DEF WrittenIn
<1>16. NewFile(f, v.files[s], nextUid) /\ nextUid < nextUid' /\ nextUid <= nextUid' /\ nextUid' \in Nat
  BY <1>1, <1>2, <1>4, <1>8 DEF NewFile
<1>17. <<"other">> \in Seq({"old", "new", "other"}) /\ \A k \in DOMAIN <<"other">> : <<f>>[k] = f
  OBVIOUS
<1>19. ~f.isDir
  BY <1>2, <1>8
<1> DEFINE dirs == {dir}
           ff == <<f>>
           rs == <<"other">>
<1>20. /\ Put(i, Logged(Stepped(v, s, f, dirs), ff, s, rs), units)
       /\ rs \in Seq({"old", "new", "other"}) /\ (Sub \in dirs => v.files[Sub].isDir /\ v.sub \in units)
       /\ \A k \in DOMAIN rs : ff[k] \in File /\ ff[k].gen = f.gen /\ ff[k].uid = f.uid
  BY <1>1, <1>7, <1>9, <1>11, <1>13, <1>17 DEF Entering
<1> HIDE DEF dirs, ff, rs
<1> QED
  BY <1>2, <1>7, <1>13, <1>14, <1>15, <1>16, <1>19, <1>20, OperationKeeps DEF v

\* Delete keeps the invariant.
LEMMA DeleteKeeps ==
  ASSUME GuestInv, NEW i \in DOMAIN vols, NEW s \in Slots, Delete(i, s)
  PROVE  GuestInv'
<1> DEFINE v == vols[i]
           f == v.files[s]
           g == [f EXCEPT !.live = FALSE]
           units == {DirUnit(v, f.dir)}
           dirs == {f.dir}
           ff == <<f>>
           rs == <<"other">>
<1>1. /\ ~f.isDir
      /\ Put(i, Logged([v EXCEPT !.files = InDir([@ EXCEPT ![s].live = FALSE], f.dir)], ff, s, rs), units)
      /\ nextUid' = nextUid
  BY DEF Delete
<1>2. v \in Volume /\ SoundVolume(v) /\ f \in File /\ PlacedIn(v, f) /\ WrittenIn(f, writes) /\ nextUid \in Nat
  BY FileOf
<1>3. Logged([v EXCEPT !.files = InDir([@ EXCEPT ![s].live = FALSE], f.dir)], ff, s, rs) = Logged(Entering(v, s, g, f.dir), ff, s, rs)
  BY DEF Entering
<1>4. g \in File /\ g.live = FALSE /\ g.isDir = f.isDir /\ g.gen = f.gen /\ g.name = f.name /\ g.dir = f.dir /\ g.map = f.map
      /\ g.fork = f.fork /\ g.uid = f.uid /\ g.dirty = f.dirty /\ g.forkDirty = f.forkDirty
  <2> HIDE DEF f
  <2> QED
    BY <1>2 DEF File
<1>5. f.dir \in {Root, Sub} /\ f.isDir \in BOOLEAN
  BY <1>2, FileFields
<1>6. f.dir = Sub => v.files[Sub].isDir /\ s # Sub
  BY <1>1, <1>2 DEF PlacedIn
<1>7. DirUnit(v, f.dir) \in Room(v) /\ (f.dir = Sub => DirUnit(v, f.dir) = v.sub)
  BY <1>2, <1>5, DirUnitIs
<1>8. units \subseteq Room(v) /\ units # {} /\ (Sub \in dirs => v.files[Sub].isDir /\ v.sub \in units)
  BY <1>6, <1>7
<1>9. \A k \in DOMAIN rs : ff[k] \in File /\ ff[k].gen = g.gen /\ ff[k].uid = g.uid
  BY <1>2, <1>4
<1>10. rs \in Seq({"old", "new", "other"})
  OBVIOUS
<1> HIDE DEF ff, rs, units
<1>11. Entering(v, s, g, f.dir) = Stepped(v, s, g, dirs)
  <2> HIDE DEF g
  <2> QED
    BY <1>2, <1>4, <1>6, EnteredIs
<1>12. PlacedIn(v, g) /\ WrittenIn(g, writes \cup units) /\ SameFile(g, f) /\ ~g.isDir
  BY <1>1, <1>2, <1>4 DEF PlacedIn, WrittenIn, SameFile
<1>13. Put(i, Logged(Stepped(v, s, g, dirs), ff, s, rs), units)
  BY <1>1, <1>3, <1>11
<1>14. nextUid' \in Nat /\ nextUid <= nextUid'
  BY <1>1, <1>2
<1>15. SameFile(g, v.files[s]) /\ ~v.files[s].isDir /\ g \in File /\ ~g.isDir
  BY <1>1, <1>4, <1>12
<1> HIDE DEF g, dirs, f, v
<1> QED
  BY <1>8, <1>9, <1>10, <1>12, <1>13, <1>14, <1>15, OperationKeeps DEF v

\* Rename keeps the invariant.
LEMMA RenameKeeps ==
  ASSUME GuestInv, NEW i \in DOMAIN vols, NEW s \in Slots, NEW dir \in {Root, Sub}, NEW n \in Names,
         Rename(i, s, dir, n)
  PROVE  GuestInv'
<1> DEFINE v == vols[i]
           f == v.files[s]
           g == [f EXCEPT !.dir = dir, !.name = n]
           units == {DirUnit(v, f.dir), DirUnit(v, dir)}
           dirs == {f.dir, dir}
           ff == <<f, g>>
           rs == <<"old", "new">>
<1>1. /\ ~f.isDir /\ dir \in Directories(v)
      /\ Put(i, Logged(EnteringTwice(v, s, g, f.dir, dir), ff, s, rs), units)
      /\ nextUid' = nextUid
  BY DEF Rename, EnteringTwice
<1>2. v \in Volume /\ SoundVolume(v) /\ f \in File /\ PlacedIn(v, f) /\ WrittenIn(f, writes) /\ nextUid \in Nat
  BY FileOf
<1>3. n \in Nat /\ n # 0
  BY SizesAreNat
<1>4. g \in File /\ g.live = f.live /\ g.isDir = f.isDir /\ g.gen = f.gen /\ g.name = n /\ g.dir = dir /\ g.map = f.map
      /\ g.fork = f.fork /\ g.uid = f.uid /\ g.dirty = f.dirty /\ g.forkDirty = f.forkDirty
  <2> HIDE DEF f
  <2> QED
    BY <1>2, <1>3 DEF File
<1>5. f.dir \in {Root, Sub} /\ f.isDir \in BOOLEAN
  BY <1>2, FileFields
<1>6. f.dir = Sub \/ dir = Sub => v.files[Sub].isDir /\ s # Sub
  <2>1. f.dir = Sub => v.files[Sub].isDir
    BY <1>2 DEF PlacedIn
  <2>2. dir = Sub => v.files[Sub].isDir
    BY <1>1, DirectoryIs
  <2> QED
    BY <1>1, <2>1, <2>2
<1>7. /\ DirUnit(v, f.dir) \in Room(v) /\ (f.dir = Sub => DirUnit(v, f.dir) = v.sub)
      /\ DirUnit(v, dir) \in Room(v) /\ (dir = Sub => DirUnit(v, dir) = v.sub)
  BY <1>2, <1>5, DirUnitIs
<1>8. units \subseteq Room(v) /\ units # {} /\ (Sub \in dirs => v.files[Sub].isDir /\ v.sub \in units)
  BY <1>6, <1>7
<1>9. \A k \in DOMAIN rs : ff[k] \in File /\ ff[k].gen = g.gen /\ ff[k].uid = g.uid
  <2>1. DOMAIN rs = {1, 2} /\ ff[1] = f /\ ff[2] = g
    OBVIOUS
  <2> HIDE DEF ff, rs, g
  <2> QED
    BY <1>2, <1>4, <2>1
<1>10. rs \in Seq({"old", "new", "other"})
  OBVIOUS
<1> HIDE DEF ff, rs, units
<1>11. EnteringTwice(v, s, g, f.dir, dir) = Stepped(v, s, g, dirs)
  <2> DEFINE d == f.dir
  <2>1. d = Sub => s # Sub
    BY <1>6
  <2>2. dir = Sub => s # Sub
    BY <1>6
  <2>3. v \in Volume /\ g \in File
    BY <1>2, <1>4
  <2> HIDE DEF g, d, v
  <2>4. EnteringTwice(v, s, g, d, dir) = Stepped(v, s, g, {d, dir})
    BY <2>1, <2>2, <2>3, EnteredBothIs
  <2> QED
    BY <2>4 DEF d
<1>12. PlacedIn(v, g) /\ WrittenIn(g, writes \cup units) /\ SameFile(g, f) /\ ~g.isDir
  <2> HIDE DEF g
  <2> QED
    BY <1>1, <1>2, <1>3, <1>4, <1>6 DEF PlacedIn, WrittenIn, SameFile
<1>13. Put(i, Logged(Stepped(v, s, g, dirs), ff, s, rs), units)
  <2> HIDE DEF g, dirs
  <2> QED
    BY <1>1, <1>11
<1>14. nextUid' \in Nat /\ nextUid <= nextUid'
  BY <1>1, <1>2
<1>15. SameFile(g, v.files[s]) /\ ~v.files[s].isDir /\ g \in File /\ ~g.isDir
  BY <1>1, <1>4, <1>12
<1> HIDE DEF g, dirs, f, v
<1> QED
  BY <1>8, <1>9, <1>10, <1>12, <1>13, <1>14, <1>15, OperationKeeps DEF v

\* Of a file that is written in place, or gets one more unit.
LEMMA FileWritten ==
  ASSUME GuestInv, NEW i \in DOMAIN vols, NEW s \in Slots, NEW g \in File, NEW unit,
         Put(i, Logged(One(vols[i], s, g), <<g>>, s, <<"other">>), {unit}), nextUid' = nextUid,
         ~vols[i].files[s].isDir, ~g.isDir, unit \in Room(vols[i]), PlacedIn(vols[i], g),
         WrittenIn(g, writes \cup {unit}), SameFile(g, vols[i].files[s])
  PROVE  GuestInv'
<1> DEFINE dirs == {}
           ff == <<g>>
           rs == <<"other">>
           units == {unit}
<1>1. vols[i] \in Volume /\ nextUid \in Nat
  BY FileOf
<1>2. One(vols[i], s, g) = Stepped(vols[i], s, g, dirs)
  <2>1. Root = Sub => s # Sub
    BY DEF Root, Sub
  <2> QED
    BY <1>1, <2>1, EnteredIs
<1>3. \A k \in DOMAIN rs : ff[k] \in File /\ ff[k].gen = g.gen /\ ff[k].uid = g.uid
  OBVIOUS
<1>4. rs \in Seq({"old", "new", "other"}) /\ Sub \notin dirs
  OBVIOUS
<1>5. Put(i, Logged(Stepped(vols[i], s, g, dirs), ff, s, rs), units)
  BY <1>2
<1>6. units \subseteq Room(vols[i]) /\ units # {} /\ WrittenIn(g, writes \cup units)
  OBVIOUS
<1>7. nextUid' \in Nat /\ nextUid <= nextUid'
  BY <1>1
<1> HIDE DEF dirs, ff, rs, units
<1> QED
  BY <1>3, <1>4, <1>5, <1>6, <1>7, OperationKeeps

\* WriteFork keeps the invariant.
LEMMA WriteForkKeeps ==
  ASSUME GuestInv, NEW i \in DOMAIN vols, NEW s \in Slots, WriteFork(i, s)
  PROVE  GuestInv'
<1> DEFINE v == vols[i]
           f == v.files[s]
           unit == IF f.fork = 0 THEN FirstFree(v) ELSE f.fork
           g == [f EXCEPT !.fork = unit, !.forkDirty = TRUE]
<1>1. /\ ~f.isDir /\ v.kind \in HaveForks /\ (f.fork = 0 => Free(v) # {})
      /\ Put(i, Logged(One(v, s, g), <<g>>, s, <<"other">>), {unit})
      /\ nextUid' = nextUid
  BY DEF WriteFork, One
<1>2. v \in Volume /\ SoundVolume(v) /\ f \in File /\ PlacedIn(v, f) /\ WrittenIn(f, writes) /\ nextUid \in Nat
  BY FileOf
<1>3. unit \in Room(v) /\ unit \in Nat /\ unit # 0
  <2>1. Room(v) \subseteq Nat /\ 0 \notin Room(v)
    BY <1>2, RoomIsDisk
  <2>2. f.fork # 0 => f.fork \in Room(v)
    BY <1>2 DEF PlacedIn
  <2>3. Free(v) # {} => FirstFree(v) \in Room(v)
    BY <1>2, FirstFreeIs
  <2> QED
    BY <1>1, <2>1, <2>2, <2>3
<1> HIDE DEF unit
<1>4. g \in File /\ g.live = f.live /\ g.isDir = f.isDir /\ g.gen = f.gen /\ g.name = f.name /\ g.dir = f.dir /\ g.map = f.map
      /\ g.fork = unit /\ g.uid = f.uid /\ g.dirty = f.dirty /\ g.forkDirty = TRUE
  <2> HIDE DEF f
  <2> QED
    BY <1>2, <1>3 DEF File
<1> HIDE DEF g
<1>5. PlacedIn(v, g) /\ WrittenIn(g, writes \cup {unit}) /\ SameFile(g, f) /\ ~g.isDir
  BY <1>1, <1>2, <1>3, <1>4 DEF PlacedIn, WrittenIn, SameFile
<1> QED
  BY <1>1, <1>3, <1>4, <1>5, FileWritten

\* Write keeps the invariant.
LEMMA WriteKeeps ==
  ASSUME GuestInv, NEW i \in DOMAIN vols, NEW s \in Slots, NEW o \in 1..(Len(vols[i].files[s].map) + 1), Write(i, s, o)
  PROVE  GuestInv'
<1> DEFINE v == vols[i]
           f == v.files[s]
           fresh == IF o > Len(f.map) THEN TRUE ELSE f.map[o] = 0
           unit == IF fresh THEN FirstFree(v) ELSE f.map[o]
           map == [k \in DOMAIN f.map \cup {o} |-> IF k = o THEN unit ELSE f.map[k]]
           dirty == f.dirty \cup {o - 1}
           g == [f EXCEPT !.map = map, !.dirty = dirty]
<1>1. /\ ~f.isDir /\ (fresh => Free(v) # {})
      /\ Put(i, Logged(One(v, s, g), <<g>>, s, <<"other">>), {unit})
      /\ nextUid' = nextUid
  BY DEF Write, One
<1>2. v \in Volume /\ SoundVolume(v) /\ f \in File /\ PlacedIn(v, f) /\ WrittenIn(f, writes) /\ nextUid \in Nat
  BY FileOf
<1>3. /\ f.map \in Seq(Nat) /\ f.dirty \in SUBSET Nat /\ DOMAIN f.map = 1..Len(f.map) /\ Len(f.map) \in Nat
      /\ o \in Nat /\ 0 < o /\ o <= Len(f.map) + 1
  <2>1. f.map \in Seq(Nat) /\ f.dirty \in SUBSET Nat
    BY <1>2, FileFields
  <2>2. DOMAIN f.map = 1..Len(f.map) /\ Len(f.map) \in Nat
    BY <2>1
  <2> QED
    BY <2>1, <2>2
<1>4. unit \in Room(v) /\ unit \in Nat /\ unit # 0
  <2>1. Room(v) \subseteq Nat /\ 0 \notin Room(v)
    BY <1>2, RoomIsDisk
  <2>2. ~fresh => f.map[o] \in Room(v)
    <3> SUFFICES ASSUME ~fresh PROVE f.map[o] \in Room(v)
      OBVIOUS
    <3>1. o \in DOMAIN f.map /\ f.map[o] # 0
      BY <1>3
    <3> QED
      BY <1>2, <3>1 DEF PlacedIn
  <2>3. Free(v) # {} => FirstFree(v) \in Room(v)
    BY <1>2, FirstFreeIs
  <2> QED
    BY <1>1, <2>1, <2>2, <2>3
<1> HIDE DEF unit
<1>5. /\ map \in Seq(Nat) /\ DOMAIN map = DOMAIN f.map \cup {o}
      /\ \A k \in DOMAIN map : map[k] = unit \/ (k \in DOMAIN f.map /\ map[k] = f.map[k])
      /\ map[o] = unit
  <2> DEFINE n == IF o > Len(f.map) THEN o ELSE Len(f.map)
  <2>1. n \in Nat /\ DOMAIN f.map \cup {o} = 1..n
    BY <1>3
  <2>2. \A k \in 1..n : (IF k = o THEN unit ELSE f.map[k]) \in Nat
    <3> TAKE k \in 1..n
    <3>1. CASE k = o
      BY <1>4, <3>1
    <3>2. CASE k # o
      <4>1. k \in DOMAIN f.map
        BY <2>1, <3>2
      <4>2. f.map[k] \in Nat
        <5>1. f.map \in Seq(Nat)
          BY <1>3
        <5> QED
          BY <4>1, <5>1
      <4> QED
        BY <3>2, <4>2
    <3> QED
      BY <3>1, <3>2
  <2> HIDE DEF n
  <2>3. map \in [1..n -> Nat]
    BY <2>1, <2>2
  <2>4. map \in Seq(Nat)
    <3> HIDE DEF map
    <3> QED
      BY <2>1, <2>3, SeqDef
  <2> QED
    BY <2>4
<1>6. dirty \in SUBSET Nat /\ \A b \in dirty : b \in f.dirty \/ b = o - 1
  BY <1>3
<1> HIDE DEF map, dirty
<1>7. g \in File /\ g.live = f.live /\ g.isDir = f.isDir /\ g.gen = f.gen /\ g.name = f.name /\ g.dir = f.dir /\ g.map = map
      /\ g.fork = f.fork /\ g.uid = f.uid /\ g.dirty = dirty /\ g.forkDirty = f.forkDirty
  <2> HIDE DEF f
  <2> QED
    BY <1>2, <1>5, <1>6 DEF File
<1> HIDE DEF g
<1>8. PlacedIn(v, g)
  <2>1. \A k \in DOMAIN g.map : g.map[k] \in Room(v) \/ (g.map[k] = 0 /\ v.kind \in HaveHoles)
    BY <1>2, <1>4, <1>5, <1>7 DEF PlacedIn
  <2> QED
    BY <1>2, <1>7, <2>1 DEF PlacedIn
<1>9. WrittenIn(g, writes \cup {unit})
  <2>1. ASSUME NEW b \in g.dirty
        PROVE  b + 1 \in DOMAIN g.map /\ g.map[b + 1] # 0 /\ g.map[b + 1] \in writes \cup {unit}
    <3>1. CASE b = o - 1
      <4>1. b + 1 = o
        BY <1>3, <3>1
      <4> QED
        BY <1>4, <1>5, <1>7, <4>1
    <3>2. CASE b \in f.dirty
      <4>1. b + 1 \in DOMAIN f.map /\ f.map[b + 1] # 0 /\ f.map[b + 1] \in writes
        BY <1>2, <3>2 DEF WrittenIn
      <4> QED
        BY <1>4, <1>5, <1>7, <4>1
    <3> QED
      BY <1>6, <1>7, <3>1, <3>2
  <2>2. g.forkDirty => g.fork # 0 /\ g.fork \in writes \cup {unit}
    BY <1>2, <1>7 DEF WrittenIn
  <2> QED
    BY <2>1, <2>2 DEF WrittenIn
<1>10. SameFile(g, f) /\ ~g.isDir
  BY <1>1, <1>7 DEF SameFile
<1> QED
  BY <1>1, <1>4, <1>7, <1>8, <1>9, <1>10, FileWritten

\* A volume at its checkpoint is what it was, with nothing marked as written.
LEMMA CleanIs ==
  ASSUME NEW v \in Volume
  PROVE  /\ Clean(v) \in Volume /\ Alike(Clean(v), v) /\ Clean(v).journal = v.journal /\ Clean(v).usn = v.usn
         /\ \A s \in Slots : /\ Quiet([Clean(v).files[s] EXCEPT !.forkDirty = v.files[s].forkDirty], v.files[s])
                             /\ Clean(v).files[s].dirty = {} /\ Clean(v).files[s].forkDirty = FALSE
<1> DEFINE h(s) == [v.files[s] EXCEPT !.dirty = {}, !.forkDirty = FALSE]
           F == [s \in Slots |-> h(s)]
<1>1. DOMAIN v.files = Slots /\ \A s \in Slots : v.files[s] \in File
  BY VolumeFields
<1>2. ASSUME NEW f \in File
      PROVE  LET x == [f EXCEPT !.dirty = {}, !.forkDirty = FALSE]
             IN  x \in File /\ Quiet([x EXCEPT !.forkDirty = f.forkDirty], f) /\ x.dirty = {} /\ x.forkDirty = FALSE
  <2>1. {} \in SUBSET Nat
    OBVIOUS
  <2> QED
    BY <2>1 DEF File, Quiet
<1>3. \A s \in Slots : /\ h(s) \in File /\ Quiet([h(s) EXCEPT !.forkDirty = v.files[s].forkDirty], v.files[s])
                       /\ h(s).dirty = {} /\ h(s).forkDirty = FALSE
  BY <1>1, <1>2
<1>4. Clean(v) = [v EXCEPT !.files = F]
  BY <1>1 DEF Clean
<1> HIDE DEF h
<1>5. F \in [Slots -> File] /\ \A s \in Slots : F[s] = h(s)
  BY <1>3
<1> HIDE DEF F
<1>6. Clean(v) \in Volume /\ Clean(v).files = F /\ Clean(v).journal = v.journal /\ Clean(v).usn = v.usn /\ Alike(Clean(v), v)
  BY <1>4, <1>5 DEF Volume, Alike
<1> QED
  BY <1>3, <1>5, <1>6

\* A volume of which no content counts as written is its own older state.
LEMMA CleanKeeps ==
  ASSUME NEW v, NEW w, NEW below \in Nat, VolumeInv(v, w, below)
  PROVE  LET was == Clean(v)
         IN  VolumeInv(was, {}, below) /\ Alike(was, v) /\ Alike(was, was) /\ Since(was, was)
<1> DEFINE was == Clean(v)
<1>1. v \in Volume /\ SoundVolume(v) /\ JournalTrue(v) /\ Known(v, below)
  BY DEF VolumeInv, SoundVolume
<1>2. /\ was \in Volume /\ Alike(was, v) /\ was.journal = v.journal /\ was.usn = v.usn
      /\ \A s \in Slots : /\ Quiet([was.files[s] EXCEPT !.forkDirty = v.files[s].forkDirty], v.files[s])
                          /\ was.files[s].dirty = {} /\ was.files[s].forkDirty = FALSE
  BY <1>1, CleanIs
<1> HIDE DEF was
<1>3. \A s \in Slots : LET x == was.files[s]  y == v.files[s] IN
        /\ x.live = y.live /\ x.isDir = y.isDir /\ x.gen = y.gen /\ x.name = y.name /\ x.dir = y.dir
        /\ x.map = y.map /\ x.fork = y.fork /\ x.uid = y.uid
  <2> TAKE s \in Slots
  <2>1. was.files[s] \in File
    BY <1>2, VolumeFields
  <2>2. Quiet([was.files[s] EXCEPT !.forkDirty = v.files[s].forkDirty], v.files[s])
    BY <1>2
  <2> QED
    BY <2>1, <2>2 DEF Quiet, File
<1>4. DOMAIN was.files = Slots /\ DOMAIN v.files = Slots /\ Sub \in Slots
  BY <1>1, <1>2, VolumeFields, SlotBounds
<1>5. Live(was) = Live(v)
  BY <1>3, <1>4 DEF Live
<1>6. Room(was) = Room(v) /\ Live(v) \subseteq Slots
  BY <1>2, <1>4 DEF Alike, Room, Live
<1>7. SoundVolume(was)
  <2>1. \A s \in Slots : SoundFile(was, s)
    <3> TAKE s \in Slots
    <3>1. SoundFile(v, s)
      BY <1>1 DEF SoundVolume
    <3> QED
      BY <1>2, <1>3, <1>4, <1>6, <3>1 DEF SoundFile, Alike
  <2>2. \A s, t \in Live(was) : was.files[s].uid = was.files[t].uid => s = t
    BY <1>1, <1>3, <1>5, <1>6 DEF SoundVolume
  <2>3. /\ v.base + v.len <= Size /\ v.root > 0 /\ v.root >= v.base /\ {v.root, v.sub} \subseteq Room(v)
    BY <1>1 DEF SoundVolume
  <2>4. was.base = v.base /\ was.len = v.len /\ was.root = v.root /\ was.sub = v.sub
    BY <1>2 DEF Alike
  <2>5. /\ was.base + was.len <= Size /\ was.root > 0 /\ was.root >= was.base /\ {was.root, was.sub} \subseteq Room(was)
    BY <1>6, <2>3, <2>4
  <2> QED
    BY <1>2, <2>1, <2>2, <2>5 DEF SoundVolume
<1>8. JournalTrue(was)
  <2>1. was.journal = v.journal /\ was.usn = v.usn
    BY <1>2
  <2>2. \A s \in Slots : was.files[s].gen = v.files[s].gen /\ was.files[s].uid = v.files[s].uid
    BY <1>3
  <2>3. JournalTrue(v)
    BY <1>1
  <2> QED
    BY <2>1, <2>2, <2>3 DEF JournalTrue
<1>9. Known(was, below)
  BY <1>1, <1>3 DEF Known
<1>10. Written(was, {})
  BY <1>2 DEF Written
<1>11. Since(was, was)
  <2>1. \A s \in Slots : was.files[s].gen \in Nat
    BY <1>2, VolumeFields, FileFields
  <2>4. \A s \in Slots : was.files[s].gen <= was.files[s].gen
    BY <2>1
  <2>3. \A k \in DOMAIN was.journal : LET r == was.journal[k] IN
          r.id.gen = was.files[r.id.num].gen => r.uid = was.files[r.id.num].uid
    BY <1>8 DEF JournalTrue
  <2> QED
    BY <1>2, <2>3, <2>4 DEF Since
<1>12. Alike(was, was)
  BY DEF Alike
<1> QED
  BY <1>2, <1>7, <1>8, <1>9, <1>10, <1>11, <1>12 DEF was, VolumeInv

\* TakeCheckpoint keeps the invariant.
LEMMA TakeCheckpointKeeps ==
  ASSUME GuestInv, TakeCheckpoint
  PROVE  GuestInv'
<1> DEFINE cleaned == [i \in DOMAIN vols |-> Clean(vols[i])]
<1>1. /\ old = <<>> /\ old' = <<[vols |-> cleaned, table |-> table]>> /\ vols' = cleaned /\ writes' = {}
      /\ table' = table /\ ops' = ops /\ nextUid' = nextUid /\ doc' = doc
  BY DEF TakeCheckpoint
<1>2. /\ nextUid \in Nat /\ ops \in 0..MaxOps
      /\ vols \in Seq(Volume) /\ vols # <<>> /\ SoundTable([vols |-> vols, table |-> table])
      /\ \A i \in DOMAIN vols : VolumeInv(vols[i], writes, nextUid)
      /\ doc = <<>>
  BY <1>1 DEF GuestInv
<1>3. ASSUME NEW i \in DOMAIN vols
      PROVE  LET was == cleaned[i]
             IN  VolumeInv(was, {}, nextUid) /\ Alike(was, vols[i]) /\ Alike(was, was) /\ Since(was, was) /\ was \in Volume
  <2>1. cleaned[i] = Clean(vols[i]) /\ VolumeInv(vols[i], writes, nextUid)
    BY <1>2
  <2> QED
    BY <1>2, <2>1, CleanKeeps DEF VolumeInv, SoundVolume
<1>4. DOMAIN cleaned = DOMAIN vols
  OBVIOUS
<1>5. cleaned \in Seq(Volume) /\ cleaned # <<>>
  <2>1. DOMAIN vols = 1..Len(vols) /\ Len(vols) \in Nat /\ DOMAIN vols # {}
    BY <1>2
  <2>2. cleaned \in [1..Len(vols) -> Volume]
    BY <1>3, <2>1
  <2> HIDE DEF cleaned
  <2> QED
    BY <1>4, <2>1, <2>2, SeqDef
<1> HIDE DEF cleaned
<1>6. SoundTable([vols |-> cleaned, table |-> table])
  <2>1. \A i \in DOMAIN vols : cleaned[i].base = vols[i].base /\ cleaned[i].len = vols[i].len
    BY <1>3 DEF Alike
  <2> QED
    BY <1>2, <1>4, <2>1, TableSuits
<1>7. Len(old') = 1 /\ old'[1].vols = cleaned /\ old' = <<[vols |-> old'[1].vols, table |-> table']>>
  BY <1>1
<1>8. \A i \in DOMAIN vols' : LET v == vols'[i]  was == old'[1].vols[i] IN
        /\ SoundVolume(was) /\ JournalTrue(was) /\ Known(was, nextUid') /\ Alike(v, was) /\ Since(v, was)
        /\ v # was => writes' \cap Room(v) # {}
  BY <1>1, <1>3, <1>4, <1>7 DEF VolumeInv
<1>9. \A i \in DOMAIN vols' : VolumeInv(vols'[i], writes', nextUid')
  BY <1>1, <1>3, <1>4
<1>10. vols' \in Seq(Volume) /\ vols' # <<>> /\ SoundTable([vols |-> vols', table |-> table'])
  BY <1>1, <1>5, <1>6
<1>11. writes' \subseteq 0..(Size - 1)
  BY <1>1
<1>12. doc' = <<>> /\ nextUid' \in Nat /\ ops' \in 0..MaxOps
  BY <1>1, <1>2
<1>13. DOMAIN old'[1].vols = DOMAIN vols'
  BY <1>1, <1>7
<1> QED
  BY <1>7, <1>8, <1>9, <1>10, <1>11, <1>12, <1>13 DEF GuestInv

\* What a document says rests on the disk and its checkpoint alone.
LEMMA DocumentStays ==
  ASSUME UNCHANGED <<vols, table, writes, old>>, NEW c
  PROVE  Document(c)' = Document(c)
<1>1. Newer(c.fault)' = Newer(c.fault) /\ Older(c.fault)' = Older(c.fault)
  BY DEF Newer, Older
<1>2. ChangedExtents' = ChangedExtents
  BY DEF ChangedExtents, ExtentAt
<1> QED
  BY <1>1, <1>2 DEF Document

\* Compare keeps the invariant.
LEMMA CompareKeeps ==
  ASSUME GuestInv, NEW c \in Cases, Compare(c)
  PROVE  GuestInv'
<1>1. old # <<>> /\ doc' = Document(c) /\ UNCHANGED <<vols, table, writes, old, ops, nextUid>>
  BY DEF Compare
<1>2. Document(c)' = Document(c)
  BY <1>1, DocumentStays
<1>3. old' # <<>> /\ \E d \in Cases : doc' = Document(d)'
  BY <1>1, <1>2
<1>4. \A i \in DOMAIN vols : VolumeInv(vols[i], writes, nextUid)
  BY DEF GuestInv
<1> QED
  BY <1>1, <1>3 DEF GuestInv

\* A step that changes nothing keeps the invariant.
LEMMA StutterKeeps ==
  ASSUME GuestInv, UNCHANGED vars
  PROVE  GuestInv'
<1>1. UNCHANGED <<vols, table, writes, old, ops, nextUid, doc>>
  BY DEF vars
<1>2. \A c : Document(c)' = Document(c)
  BY <1>1, DocumentStays
<1>3. doc = <<>> \/ (old # <<>> /\ \E c \in Cases : doc' = Document(c)')
  BY <1>1, <1>2 DEF GuestInv
<1> QED
  BY <1>1, <1>3 DEF GuestInv

\* The disks to start from satisfy the invariant.
LEMMA InitGuest ==
  ASSUME Init
  PROVE  GuestInv
<1>1. PICK l \in Layouts : /\ vols = l.vols /\ table = l.table
                           /\ writes = {} /\ old = <<>> /\ ops = 0 /\ nextUid = 10 /\ doc = <<>>
  BY DEF Init
<1>2. SoundLayout(l)
  BY LayoutsAreSound
<1>3. vols \in Seq(Volume) /\ vols # <<>>
  BY <1>1, <1>2 DEF SoundLayout
<1>4. SoundTable([vols |-> vols, table |-> table])
  <2>1. SoundTable(l)
    BY <1>2 DEF SoundLayout
  <2> QED
    BY <1>1, <2>1 DEF SoundTable
<1>5. ASSUME NEW i \in DOMAIN vols
      PROVE  VolumeInv(vols[i], writes, nextUid)
  <2>1. /\ SoundVolume(vols[i]) /\ vols[i].journal = <<>>
        /\ \A s \in Slots : /\ vols[i].files[s].uid < 10
                            /\ vols[i].files[s].dirty = {} /\ ~vols[i].files[s].forkDirty
    BY <1>1, <1>2 DEF SoundLayout
  <2>2. JournalTrue(vols[i])
    <3>1. DOMAIN vols[i].journal = {}
      BY <2>1
    <3> QED
      BY <3>1 DEF JournalTrue
  <2> QED
    BY <1>1, <2>1, <2>2 DEF VolumeInv, Written, Known
<1>6. 10 \in Nat /\ ops \in 0..MaxOps
  BY <1>1, SizesAreNat
<1> QED
  BY <1>1, <1>3, <1>4, <1>5, <1>6 DEF GuestInv

\* Whatever the guest does, and whenever the checkpoint is taken, its files
\* stay where the disk says, the checkpoint stays a state the volumes were in,
\* and what changed of them since is known from the units written.
THEOREM GuestInvariant == Spec => []GuestInv
<1>1. Init => GuestInv
  BY InitGuest
<1>2. ASSUME GuestInv, [Next]_vars
      PROVE  GuestInv'
  <2>1. ASSUME NEW i \in DOMAIN vols, NEW s \in Slots, NEW dir \in {Root, Sub}, NEW n \in Names,
               NEW later \in {0, 1}, Create(i, s, dir, n, later)
        PROVE  GuestInv'
    BY <1>2, <2>1, CreateKeeps
  <2>2. ASSUME NEW i \in DOMAIN vols, NEW s \in Slots, NEW dir \in {Root, Sub}, NEW n \in Names, Rename(i, s, dir, n)
        PROVE  GuestInv'
    BY <1>2, <2>2, RenameKeeps
  <2>3. ASSUME NEW i \in DOMAIN vols, NEW s \in Slots, Delete(i, s)
        PROVE  GuestInv'
    BY <1>2, <2>3, DeleteKeeps
  <2>4. ASSUME NEW i \in DOMAIN vols, NEW s \in Slots, NEW o \in 1..(Len(vols[i].files[s].map) + 1), Write(i, s, o)
        PROVE  GuestInv'
    BY <1>2, <2>4, WriteKeeps
  <2>5. ASSUME NEW i \in DOMAIN vols, NEW s \in Slots, WriteFork(i, s)
        PROVE  GuestInv'
    BY <1>2, <2>5, WriteForkKeeps
  <2>6. CASE TakeCheckpoint
    BY <1>2, <2>6, TakeCheckpointKeeps
  <2>7. ASSUME NEW c \in Cases, Compare(c)
        PROVE  GuestInv'
    BY <1>2, <2>7, CompareKeeps
  <2>8. CASE UNCHANGED vars
    BY <1>2, <2>8, StutterKeeps
  <2> QED
    BY <1>2, <2>1, <2>2, <2>3, <2>4, <2>5, <2>6, <2>7, <2>8 DEF Next
<1> QED
  BY <1>1, <1>2, PTL DEF Spec

-----------------------------------------------------------------------------
(* What is reported as written.                                             *)

Grains == 0..((Size \div Grain) - 1)
Struck(g) == writes \cap ((g * Grain)..(g * Grain + Grain - 1)) # {}
GrainRange(g) == [at |-> g * Grain, len |-> Grain]

\* Every unit of the disk lies in one grain.
LEMMA GrainsAre ==
  /\ Size \in Nat /\ Grain \in Nat /\ Grain # 0 /\ Grain > 0
  /\ \A g \in Grains : g \in Nat /\ g * Grain \in Nat /\ g * Grain + Grain <= Size
  /\ \A u \in 0..(Size - 1) :
       /\ GrainOf(u) \in Grains
       /\ \A g \in Nat : (g * Grain <= u /\ u < g * Grain + Grain) <=> g = GrainOf(u)
<1>1. Size \in Nat /\ Grain \in Nat /\ Grain # 0 /\ Grain > 0 /\ Size % Grain = 0
  BY SizesAreNat
<1>2. Size \div Grain \in Nat /\ Size = (Size \div Grain) * Grain
  BY <1>1, Division
<1> DEFINE n == Size \div Grain
<1>3. \A a, b \in Nat : a * b \in Nat /\ a * b + b = (a + 1) * b /\ (a <= b => \A c \in Nat : a * c <= b * c)
  OBVIOUS
<1> HIDE DEF n
<1>4. n \in Nat /\ Size = n * Grain
  BY <1>2 DEF n
<1>5. \A g \in 0..(n - 1) : g \in Nat /\ g * Grain \in Nat /\ g * Grain + Grain <= Size
  <2> TAKE g \in 0..(n - 1)
  <2>1. g \in Nat /\ g + 1 \in Nat /\ g + 1 <= n
    BY <1>4
  <2>2. (g + 1) * Grain <= n * Grain
    BY <1>1, <1>3, <1>4, <2>1
  <2> QED
    BY <1>1, <1>3, <1>4, <2>1, <2>2
<1>6. ASSUME NEW u \in 0..(Size - 1)
      PROVE  /\ GrainOf(u) \in 0..(n - 1)
             /\ \A g \in Nat : (g * Grain <= u /\ u < g * Grain + Grain) <=> g = GrainOf(u)
  <2>1. u \in Nat /\ u < Size
    BY <1>1
  <2>2. /\ GrainOf(u) \in Nat /\ GrainOf(u) * Grain <= u /\ u < (GrainOf(u) + 1) * Grain
    BY <1>1, <2>1, Division DEF GrainOf
  <2>3. \A g \in Nat : g * Grain <= u /\ u < (g + 1) * Grain => g = GrainOf(u)
    BY <1>1, <2>1, DivisionUnique DEF GrainOf
  <2>4. GrainOf(u) < n
    <3> SUFFICES ASSUME n <= GrainOf(u) PROVE FALSE
      BY <1>4, <2>2
    <3>1. n * Grain <= GrainOf(u) * Grain
      BY <1>1, <1>3, <1>4, <2>2
    <3>2. GrainOf(u) * Grain \in Nat /\ n * Grain \in Nat
      BY <1>1, <1>3, <1>4, <2>2
    <3> QED
      BY <1>4, <2>1, <2>2, <3>1, <3>2
  <2>5. \A g \in Nat : (g + 1) * Grain = g * Grain + Grain
    BY <1>1, <1>3
  <2>6. GrainOf(u) \in 0..(n - 1)
    BY <1>4, <2>2, <2>4
  <2> QED
    BY <2>2, <2>3, <2>5, <2>6
<1> QED
  BY <1>1, <1>5, <1>6 DEF Grains, n

\* The change ranges hold the units written, and all of each grain they are in.
LEMMA WrittenIs ==
  ASSUME writes \subseteq 0..(Size - 1)
  PROVE  /\ WrittenRanges(ChangedExtents) \in Seq(SomeRange)
         /\ AllBytes(WrittenRanges(ChangedExtents)) = ReportedUnits
<1> DEFINE hit == {g \in Grains : Struck(g)}
           rs  == {GrainRange(g) : g \in hit}
<1>1. {[at |-> e.at, len |-> e.len] : e \in {x \in ChangedExtents : IsWrite(x)}} = rs
  <2>1. \A g : /\ ExtentAt(g).at = g * Grain /\ ExtentAt(g).len = Grain
               /\ IsWrite(ExtentAt(g)) <=> Struck(g)
    BY DEF ExtentAt, IsWrite, Struck
  <2>2. ChangedExtents = {ExtentAt(g) : g \in Grains}
    BY DEF ChangedExtents, Grains
  <2>3. {x \in ChangedExtents : IsWrite(x)} = {ExtentAt(g) : g \in hit}
    BY <2>1, <2>2
  <2>4. {[at |-> e.at, len |-> e.len] : e \in {ExtentAt(g) : g \in hit}}
          = {[at |-> ExtentAt(g).at, len |-> ExtentAt(g).len] : g \in hit}
    OBVIOUS
  <2>5. {[at |-> ExtentAt(g).at, len |-> ExtentAt(g).len] : g \in hit} = rs
    BY <2>1 DEF GrainRange
  <2> QED
    BY <2>3, <2>4, <2>5
<1>2. rs \in SUBSET Ranges /\ IsFiniteSet(rs)
  <2>1. \A g \in Grains : GrainRange(g) \in Ranges
    BY GrainsAre DEF GrainRange, Ranges
  <2>2. IsFiniteSet(hit)
    <3>1. IsFiniteSet(Grains)
      <4>1. Size \div Grain \in Nat
        BY GrainsAre, Division
      <4>2. 0 \in Int /\ (Size \div Grain) - 1 \in Int
        BY <4>1
      <4> QED
        BY <4>2, FS_Interval DEF Grains
    <3> QED
      BY <3>1, FS_Subset
  <2> DEFINE f == [g \in hit |-> GrainRange(g)]
  <2>3. rs = {f[g] : g \in hit} /\ DOMAIN f = hit
    OBVIOUS
  <2> HIDE DEF f, hit
  <2>4. IsFiniteSet(rs)
    BY <2>2, <2>3, ImageFinite
  <2> QED
    BY <2>1, <2>4 DEF hit
<1>3. WrittenRanges(ChangedExtents) = Coalesce(rs)
  BY <1>1 DEF WrittenRanges
<1>4. BytesOf(rs) = ReportedUnits
  <2>1. ASSUME NEW g \in Grains
        PROVE  \A b : b \in Bytes(GrainRange(g)) <=> b \in Nat /\ g * Grain <= b /\ b < g * Grain + Grain
    <3>1. GrainRange(g) \in Ranges /\ GrainRange(g).at = g * Grain /\ GrainRange(g).len = Grain
      BY GrainsAre DEF GrainRange, Ranges
    <3> QED
      BY <3>1, BytesBounds
  <2>2. ASSUME NEW g \in Grains
        PROVE  Struck(g) <=> \E w \in writes : GrainOf(w) = g
    <3>1. \A w \in writes : w \in ((g * Grain)..(g * Grain + Grain - 1)) <=> (g * Grain <= w /\ w < g * Grain + Grain)
      BY GrainsAre
    <3>2. \A w \in writes : (g * Grain <= w /\ w < g * Grain + Grain) <=> g = GrainOf(w)
      BY GrainsAre
    <3> QED
      BY <3>1, <3>2 DEF Struck
  <2>3. ASSUME NEW b \in BytesOf(rs)
        PROVE  b \in ReportedUnits
    <3>1. PICK g \in Grains : Struck(g) /\ b \in Bytes(GrainRange(g))
      BY DEF BytesOf
    <3>2. b \in Nat /\ g * Grain <= b /\ b < g * Grain + Grain
      BY <2>1, <3>1
    <3>3. b \in 0..(Size - 1) /\ g \in Nat
      BY <3>2, GrainsAre
    <3>4. GrainOf(b) = g
      BY <3>2, <3>3, GrainsAre
    <3> QED
      BY <2>2, <3>1, <3>3, <3>4 DEF ReportedUnits
  <2>4. ASSUME NEW b \in ReportedUnits
        PROVE  b \in BytesOf(rs)
    <3>1. b \in 0..(Size - 1) /\ \E w \in writes : GrainOf(w) = GrainOf(b)
      BY DEF ReportedUnits
    <3>2. GrainOf(b) \in Grains /\ GrainOf(b) \in Nat /\ b \in Nat
      BY <3>1, GrainsAre
    <3>3. GrainOf(b) * Grain <= b /\ b < GrainOf(b) * Grain + Grain
      BY <3>1, <3>2, GrainsAre
    <3>4. b \in Bytes(GrainRange(GrainOf(b)))
      BY <2>1, <3>2, <3>3
    <3>5. Struck(GrainOf(b))
      BY <2>2, <3>1, <3>2
    <3> QED
      BY <3>2, <3>4, <3>5 DEF BytesOf
  <2> HIDE DEF rs
  <2> QED
    BY <2>3, <2>4
<1> HIDE DEF rs
<1> QED
  BY <1>2, <1>3, <1>4, CoalesceKeeps

-----------------------------------------------------------------------------
(* The volumes a comparison finds.                                          *)

Parts(disk) == IF disk.table = {} THEN {WholeDisk} ELSE Partitions(disk)
OpenedAs(disk, i, p) == [fs |-> disk.vols[i], base |-> p.base, len |-> p.len]
Apart(disk) == \A i, j \in DOMAIN disk.vols : disk.vols[i].base = disk.vols[j].base => i = j

\* A volume is opened where a partition begins that holds one, and nowhere else.
LEMMA OpensWhatIsThere ==
  ASSUME NEW disk, Apart(disk)
  PROVE  LET found == OpenVolumes(disk)
         IN  /\ \A x \in found.vols : \E i \in DOMAIN disk.vols, p \in Parts(disk) :
                  disk.vols[i].readable /\ disk.vols[i].base = p.base /\ x = OpenedAs(disk, i, p)
             /\ \A i \in DOMAIN disk.vols, p \in Parts(disk) : disk.vols[i].base = p.base =>
                  IF disk.vols[i].readable THEN OpenedAs(disk, i, p) \in found.vols ELSE p.base \in found.errs
<1> DEFINE found == OpenVolumes(disk)
<1>1. /\ \A x : x \in found.vols <=> \E p \in Parts(disk) : x \in OpenVolumeAt(disk, p).vols
      /\ \A b : b \in found.errs <=> \E p \in Parts(disk) : b \in OpenVolumeAt(disk, p).errs
  <2>1. found = Opened(disk, Parts(disk))
    BY DEF OpenVolumes, Parts
  <2> DEFINE all == {OpenVolumeAt(disk, p) : p \in Parts(disk)}
  <2>2. found.vols = UNION {f.vols : f \in all} /\ found.errs = UNION {f.errs : f \in all}
    BY <2>1 DEF Opened
  <2> HIDE DEF found
  <2> QED
    BY <2>2
<1> HIDE DEF found
<1>2. ASSUME NEW p \in Parts(disk), NEW x \in OpenVolumeAt(disk, p).vols
      PROVE  \E i \in DOMAIN disk.vols : disk.vols[i].readable /\ disk.vols[i].base = p.base /\ x = OpenedAs(disk, i, p)
  <2> DEFINE at == DetectedAt(disk, p.base)
             i  == CHOOSE j \in at : TRUE
  <2>1. at # {}
    BY DEF OpenVolumeAt
  <2>2. x = OpenedAs(disk, i, p)
    BY <2>1 DEF OpenVolumeAt, OpenedAs
  <2>3. i \in at
    BY <2>1
  <2>4. i \in DOMAIN disk.vols /\ disk.vols[i].readable /\ disk.vols[i].base = p.base
    BY <2>3 DEF DetectedAt
  <2> QED
    BY <2>2, <2>4
<1>3. ASSUME NEW i \in DOMAIN disk.vols, NEW p \in Parts(disk), disk.vols[i].base = p.base
      PROVE  IF disk.vols[i].readable THEN OpenedAs(disk, i, p) \in OpenVolumeAt(disk, p).vols
             ELSE p.base \in OpenVolumeAt(disk, p).errs
  <2> DEFINE at == DetectedAt(disk, p.base)
  <2>1. CASE disk.vols[i].readable
    <3>1. at = {i}
      BY <1>3, <2>1 DEF DetectedAt, Apart
    <3>2. (CHOOSE j \in at : TRUE) = i
      BY <3>1
    <3>3. OpenVolumeAt(disk, p).vols = {OpenedAs(disk, CHOOSE j \in at : TRUE, p)}
      BY <3>1 DEF OpenVolumeAt, OpenedAs
    <3> QED
      BY <2>1, <3>2, <3>3
  <2>2. CASE ~disk.vols[i].readable
    <3>1. at = {}
      BY <1>3, <2>2 DEF DetectedAt, Apart
    <3> QED
      BY <2>2, <3>1 DEF OpenVolumeAt
  <2> QED
    BY <2>1, <2>2
<1> QED
  BY <1>1, <1>2, <1>3 DEF found

\* Of one volume's comparison: what is found, and what a warning says instead.
LEMMA ComparedIs ==
  ASSUME NEW v, NEW olds, NEW inVolume, NEW opts
  PROVE  LET r == Compared(v, olds, inVolume, opts)
         IN  /\ \A w \in r.found : \E y \in olds :
                  /\ y.base = v.base /\ inVolume # {}
                  /\ Diff(y.fs, v.fs, inVolume, opts).ok
                  /\ w = ToReport(v, Diff(y.fs, v.fs, inVolume, opts))
             /\ inVolume # {} => \/ \E w \in r.found : w.base = v.base
                                 \/ \E x \in r.notes : x.at = v.base
<1> DEFINE pairs == {w \in olds : w.base = v.base}
           y     == CHOOSE w \in pairs : TRUE
           diff  == Diff(y.fs, v.fs, inVolume, opts)
           r     == Compared(v, olds, inVolume, opts)
<1>1. CASE pairs = {}
  <2>1. r = [found |-> {}, notes |-> {Warning("no counterpart", v.base)}]
    BY <1>1 DEF Compared
  <2> HIDE DEF r
  <2>2. r.found = {} /\ Warning("no counterpart", v.base) \in r.notes
    BY <2>1
  <2>3. Warning("no counterpart", v.base).at = v.base
    BY DEF Warning
  <2>4. \A w \in r.found : FALSE
    BY <2>2
  <2> QED
    BY <2>2, <2>3, <2>4 DEF r
<1>2. CASE pairs # {}
  <2>1. y \in pairs
    BY <1>2
  <2>2. y \in olds /\ y.base = v.base
    BY <2>1
  <2>3. r = Outcome(v, inVolume, diff)
    BY <1>2 DEF Compared
  <2> HIDE DEF r, y, diff
  <2>4. \A w \in r.found : inVolume # {} /\ diff.ok /\ w = ToReport(v, diff)
    BY <2>3 DEF Outcome
  <2>5. inVolume # {} => \/ \E w \in r.found : w.base = v.base
                         \/ \E x \in r.notes : x.at = v.base
    BY <2>3 DEF Outcome, ToReport, Warning
  <2> QED
    BY <2>2, <2>4, <2>5 DEF r, diff
<1> QED
  BY <1>1, <1>2

\* A comparison that fails is warned of, with the reason.
LEMMA ComparedRefused ==
  ASSUME NEW v, NEW olds, NEW inVolume, inVolume # {}, NEW opts, NEW from,
         \E y \in olds : y.base = v.base, \A y \in olds : y.base = v.base => y.fs = from,
         Diff(from, v.fs, inVolume, opts).ok = FALSE
  PROVE  Warning(Diff(from, v.fs, inVolume, opts).why, v.base) \in Compared(v, olds, inVolume, opts).notes
<1> DEFINE pairs == {w \in olds : w.base = v.base}
           y     == CHOOSE w \in pairs : TRUE
           diff  == Diff(from, v.fs, inVolume, opts)
           r     == Compared(v, olds, inVolume, opts)
<1>1. pairs # {}
  OBVIOUS
<1>2. y \in pairs
  BY <1>1
<1>3. y.fs = from
  BY <1>2
<1>4. r = Outcome(v, inVolume, Diff(y.fs, v.fs, inVolume, opts))
  BY <1>1 DEF Compared
<1>5. r = Outcome(v, inVolume, diff)
  <2> HIDE DEF y, r
  <2> QED
    BY <1>3, <1>4
<1> HIDE DEF r, diff
<1>6. diff.ok = FALSE
  BY DEF diff
<1>7. r = [found |-> {}, notes |-> {Warning(diff.why, v.base)}]
  BY <1>5, <1>6 DEF Outcome
<1>8. r.notes = {Warning(diff.why, v.base)}
  BY <1>7
<1> QED
  BY <1>8 DEF r, diff

\* Of the comparison of all volumes that were opened.
LEMMA CompareOpenedIs ==
  ASSUME NEW was, NEW new, NEW written, NEW opts
  PROVE  LET r == CompareOpened(was, new, written, opts)
         IN  /\ \A w \in r.volumes : \E x \in new.vols, y \in was.vols :
                  LET diff == Diff(y.fs, x.fs, Clip(written, Span(x)), opts)
                  IN  y.base = x.base /\ Clip(written, Span(x)) # {} /\ diff.ok /\ w = ToReport(x, diff)
             /\ \A x \in new.vols : Clip(written, Span(x)) # {} =>
                  \/ \E w \in r.volumes : w.base = x.base
                  \/ \E n \in r.notes : n.at = x.base
             /\ \A b \in new.errs : \E n \in r.notes : n.at = b
<1> DEFINE r == CompareOpened(was, new, written, opts)
           one(x) == Compared(x, was.vols, Clip(written, Span(x)), opts)
           all == {one(x) : x \in new.vols}
<1>1. CASE new.vols = {}
  <2>1. r = [volumes |-> {}, notes |-> Warnings("newer state", new.errs)]
    BY <1>1 DEF CompareOpened
  <2> HIDE DEF r
  <2>2. r.volumes = {} /\ r.notes = Warnings("newer state", new.errs)
    BY <2>1
  <2>3. \A b \in new.errs : Warning("newer state", b) \in Warnings("newer state", new.errs)
    BY DEF Warnings
  <2>4. \A b : Warning("newer state", b).at = b
    BY DEF Warning
  <2>5. \A b \in new.errs : \E n \in r.notes : n.at = b
    BY <2>2, <2>3, <2>4
  <2>6. (\A w \in r.volumes : FALSE) /\ (\A x \in new.vols : FALSE)
    BY <1>1, <2>2
  <2> QED
    BY <2>5, <2>6 DEF r
<1>2. CASE new.vols # {}
  <2>1. r = Gathered(new, was, all)
    BY <1>2 DEF CompareOpened
  <2> HIDE DEF r, all
  <2>2. /\ \A w : w \in r.volumes <=> \E c \in all : w \in c.found
        /\ \A c \in all : c.notes \subseteq r.notes
        /\ Warnings("newer state", new.errs) \subseteq r.notes
    <3>1. r.volumes = UNION {c.found : c \in all}
      BY <2>1 DEF Gathered
    <3>2. r.notes = (Warnings("newer state", new.errs) \cup Warnings("older state", was.errs))
                     \cup UNION {c.notes : c \in all}
      BY <2>1 DEF Gathered
    <3> QED
      BY <3>1, <3>2
  <2>3. \A b \in new.errs : \E n \in r.notes : n.at = b
    <3>1. \A b \in new.errs : Warning("newer state", b) \in Warnings("newer state", new.errs)
      BY DEF Warnings
    <3>2. \A b : Warning("newer state", b).at = b
      BY DEF Warning
    <3> QED
      BY <2>2, <3>1, <3>2
  <2>4. \A c : c \in all <=> \E x \in new.vols : c = one(x)
    BY DEF all
  <2>5. ASSUME NEW x \in new.vols
        PROVE  /\ \A w \in one(x).found : \E y \in was.vols :
                    LET diff == Diff(y.fs, x.fs, Clip(written, Span(x)), opts)
                    IN  y.base = x.base /\ Clip(written, Span(x)) # {} /\ diff.ok /\ w = ToReport(x, diff)
               /\ Clip(written, Span(x)) # {} => \/ \E w \in one(x).found : w.base = x.base
                                                 \/ \E n \in one(x).notes : n.at = x.base
    BY ComparedIs
  <2> HIDE DEF one
  <2>6. ASSUME NEW w \in r.volumes
        PROVE  \E x \in new.vols, y \in was.vols :
                 LET diff == Diff(y.fs, x.fs, Clip(written, Span(x)), opts)
                 IN  y.base = x.base /\ Clip(written, Span(x)) # {} /\ diff.ok /\ w = ToReport(x, diff)
    <3>1. PICK x \in new.vols : w \in one(x).found
      BY <2>2, <2>4
    <3> QED
      BY <2>5, <3>1
  <2>7. ASSUME NEW x \in new.vols, Clip(written, Span(x)) # {}
        PROVE  \/ \E w \in r.volumes : w.base = x.base
               \/ \E n \in r.notes : n.at = x.base
    <3>1. one(x) \in all
      BY <2>4
    <3> QED
      BY <2>2, <2>5, <2>7, <3>1
  <2> QED
    BY <2>3, <2>6, <2>7 DEF r
<1> QED
  BY <1>1, <1>2

-----------------------------------------------------------------------------
(* The two states a comparison meets.                                       *)

\* What a comparison meets of a volume is the volume: but for a map that is
\* lost, a serial and whether it can be read at all.
LikeFile(f, g) ==
  /\ f.live = g.live /\ f.isDir = g.isDir /\ f.gen = g.gen /\ f.born = g.born /\ f.name = g.name /\ f.dir = g.dir
  /\ f.map = g.map /\ f.fork = g.fork /\ f.uid = g.uid
LikeVolume(x, v) ==
  /\ x.kind = v.kind /\ x.base = v.base /\ x.journal = v.journal /\ DOMAIN x.files = Slots
  /\ \A s \in Slots : LikeFile(x.files[s], v.files[s])

\* A volume is like itself.
LEMMA LikeItself ==
  ASSUME NEW v \in Volume
  PROVE  LikeVolume(v, v) /\ \A s \in Slots : v.files[s].lost = FALSE
<1>1. DOMAIN v.files = Slots /\ \A s \in Slots : v.files[s] \in File
  BY VolumeFields
<1>2. \A s \in Slots : v.files[s].lost = FALSE
  BY <1>1, FileFields
<1> QED
  BY <1>1, <1>2 DEF LikeVolume, LikeFile

\* A volume with another serial is like the volume.
LEMMA LikeSerial ==
  ASSUME NEW v \in Volume, NEW n
  PROVE  LET x == [v EXCEPT !.serial = n]
         IN  LikeVolume(x, v) /\ x.files = v.files /\ x.serial = n /\ x.unread = {}
<1> DEFINE x == [v EXCEPT !.serial = n]
<1>1. v.unread = {} /\ v.readable = TRUE
  BY VolumeFields
<1>2. LikeVolume(v, v)
  BY LikeItself
<1>3. /\ x.files = v.files /\ x.journal = v.journal /\ x.kind = v.kind /\ x.base = v.base
      /\ x.serial = n /\ x.unread = {}
  BY <1>1 DEF Volume
<1> HIDE DEF x
<1>4. LikeVolume(x, v)
  BY <1>2, <1>3 DEF LikeVolume
<1> QED
  BY <1>3, <1>4 DEF x

\* A volume that cannot be read is like the volume.
LEMMA LikeReadable ==
  ASSUME NEW v \in Volume, NEW n
  PROVE  LET x == [v EXCEPT !.readable = n]
         IN  LikeVolume(x, v) /\ x.files = v.files /\ x.serial = v.serial /\ x.unread = {}
<1> DEFINE x == [v EXCEPT !.readable = n]
<1>1. v.unread = {} /\ v.readable = TRUE
  BY VolumeFields
<1>2. LikeVolume(v, v)
  BY LikeItself
<1>3. /\ x.files = v.files /\ x.journal = v.journal /\ x.kind = v.kind /\ x.base = v.base
      /\ x.serial = v.serial /\ x.unread = {}
  BY <1>1 DEF Volume
<1> HIDE DEF x
<1>4. LikeVolume(x, v)
  BY <1>2, <1>3 DEF LikeVolume
<1> QED
  BY <1>3, <1>4 DEF x

\* A volume of which a part cannot be read is like the volume.
LEMMA LikeUnread ==
  ASSUME NEW v \in Volume, NEW n
  PROVE  LET x == [v EXCEPT !.unread = n]
         IN  LikeVolume(x, v) /\ x.files = v.files /\ x.serial = v.serial /\ x.unread = n /\ x.readable = TRUE
<1> DEFINE x == [v EXCEPT !.unread = n]
<1>1. v.unread = {} /\ v.readable = TRUE
  BY VolumeFields
<1>2. LikeVolume(v, v)
  BY LikeItself
<1>3. /\ x.files = v.files /\ x.journal = v.journal /\ x.kind = v.kind /\ x.base = v.base
      /\ x.serial = v.serial /\ x.unread = n /\ x.readable = TRUE
  BY <1>1 DEF Volume
<1> HIDE DEF x
<1>4. LikeVolume(x, v)
  BY <1>2, <1>3 DEF LikeVolume
<1> QED
  BY <1>3, <1>4 DEF x

\* A volume with a lost map is like the volume.
LEMMA LikeLost ==
  ASSUME NEW v \in Volume
  PROVE  LET x == [v EXCEPT !.files[1].lost = TRUE]
         IN  /\ LikeVolume(x, v) /\ x.serial = v.serial /\ x.unread = {}
             /\ x.files[1].lost = TRUE /\ \A s \in Slots : s # 1 => x.files[s].lost = FALSE
<1> DEFINE x == [v EXCEPT !.files[1].lost = TRUE]
           h == [v.files[1] EXCEPT !.lost = TRUE]
           F == [v.files EXCEPT ![1] = h]
<1>1. v.files \in [Slots -> File] /\ DOMAIN v.files = Slots /\ 1 \in Slots /\ \A s \in Slots : v.files[s] \in File
  BY VolumeFields, SlotBounds
<1>2. LikeFile(h, v.files[1]) /\ h.lost = TRUE
  <2>1. v.files[1] \in File
    BY <1>1
  <2> QED
    BY <2>1 DEF File, LikeFile
<1>3. x = [v EXCEPT !.files = F]
  OBVIOUS
<1> HIDE DEF h, x
<1>4. DOMAIN F = Slots /\ F[1] = h /\ \A s \in Slots : s # 1 => F[s] = v.files[s]
  BY <1>1
<1> HIDE DEF F
<1>5. x.files = F /\ x.kind = v.kind /\ x.base = v.base /\ x.journal = v.journal /\ x.serial = v.serial
      /\ x.unread = v.unread /\ v.unread = {}
  BY <1>3, VolumeFields DEF Volume
<1>6. \A s \in Slots : LikeFile(v.files[s], v.files[s]) /\ v.files[s].lost = FALSE
  BY LikeItself DEF LikeVolume
<1>7. \A s \in Slots : LikeFile(F[s], v.files[s])
  BY <1>2, <1>4, <1>6
<1> QED
  BY <1>2, <1>4, <1>5, <1>6, <1>7 DEF LikeVolume, x

\* What is like a sound volume can be met by a comparison.
LEMMA LikeMet ==
  ASSUME NEW v, SoundVolume(v), NEW x, LikeVolume(x, v), \A s \in Slots : x.files[s].lost \in BOOLEAN
  PROVE  Met(x)
<1>1. v \in Volume
  BY DEF SoundVolume
<1>2. v.kind \in Kinds /\ Sub \in Slots
  BY <1>1, VolumeFields, SlotBounds
<1>3. ASSUME NEW s \in Slots
      PROVE  LET f == x.files[s] IN
               /\ f.live \in BOOLEAN /\ f.isDir \in BOOLEAN /\ f.lost \in BOOLEAN
               /\ f.gen \in Nat /\ f.born \in Nat /\ f.name \in Nat /\ f.dir \in {Root, Sub} /\ f.fork \in Nat
               /\ f.map \in Seq(Nat) /\ f.uid \in Nat
               /\ f.live => f.name # 0
               /\ f.dir = Sub => x.files[Sub].gen \in Nat
               /\ \A k \in DOMAIN f.map : f.map[k] = 0 => x.kind \in HaveHoles
               /\ f.fork # 0 => x.kind \in HaveForks
  <2>1. v.files[s] \in File /\ v.files[Sub] \in File
    BY <1>1, <1>2, VolumeFields
  <2>2. LikeFile(x.files[s], v.files[s]) /\ x.kind = v.kind /\ LikeFile(x.files[Sub], v.files[Sub])
    BY <1>2 DEF LikeVolume
  <2>3. SoundFile(v, s) /\ 0 \notin Room(v)
    BY RoomIsDisk DEF SoundVolume
  <2>4. /\ v.files[s].live \in BOOLEAN /\ v.files[s].isDir \in BOOLEAN
        /\ v.files[s].gen \in Nat /\ v.files[s].born \in Nat /\ v.files[s].name \in Nat /\ v.files[s].dir \in {Root, Sub}
        /\ v.files[s].fork \in Nat /\ v.files[s].map \in Seq(Nat) /\ v.files[s].uid \in Nat
        /\ v.files[Sub].gen \in Nat
    BY <2>1, FileFields
  <2>5. /\ v.files[s].live => v.files[s].name # 0
        /\ \A k \in DOMAIN v.files[s].map : v.files[s].map[k] = 0 => v.kind \in HaveHoles
        /\ v.files[s].fork # 0 => v.kind \in HaveForks
    BY <2>3 DEF SoundFile
  <2> QED
    BY <2>2, <2>4, <2>5 DEF LikeFile
<1> QED
  BY <1>2, <1>3 DEF Met, LikeVolume

\* Alike volumes are told of alike.
LEMMA LikeTells ==
  ASSUME NEW x, NEW v, Met(x), Met(v), LikeVolume(x, v)
  PROVE  /\ Live(x) = Live(v) /\ Inventory(x) = Inventory(v) /\ Capabilities(x) = Capabilities(v)
         /\ VolumeState(x) = VolumeState(v) /\ x.kind = v.kind
         /\ \A s \in Slots : /\ IdAt(x, s) = IdAt(v, s) /\ EntryAt(x, s) = EntryAt(v, s)
                             /\ \A opts : Wanted(x.files[s], opts) <=> Wanted(v.files[s], opts)
                             /\ \A b : UnitsOf(x.files[s], b) = UnitsOf(v.files[s], b)
<1>1. DOMAIN x.files = Slots /\ DOMAIN v.files = Slots /\ x.kind = v.kind /\ x.journal = v.journal /\ Sub \in Slots
  BY SlotBounds DEF LikeVolume, Met
<1>2. \A s \in Slots : LikeFile(x.files[s], v.files[s])
  BY DEF LikeVolume
<1>3. Live(x) = Live(v)
  BY <1>1, <1>2 DEF Live, LikeFile
<1>4. Live(v) \subseteq Slots
  BY InventoryIs
<1>5. Capabilities(x) = Capabilities(v) /\ VolumeState(x) = VolumeState(v)
  BY <1>1 DEF Capabilities, VolumeState
<1>6. ASSUME NEW s \in Slots
      PROVE  /\ IdAt(x, s) = IdAt(v, s) /\ EntryAt(x, s) = EntryAt(v, s)
             /\ \A opts : Wanted(x.files[s], opts) <=> Wanted(v.files[s], opts)
             /\ \A b : UnitsOf(x.files[s], b) = UnitsOf(v.files[s], b)
  <2>1. LikeFile(x.files[s], v.files[s]) /\ LikeFile(x.files[Sub], v.files[Sub])
    BY <1>1, <1>2
  <2>2. IdAt(x, s) = IdAt(v, s)
    BY <1>1, <2>1 DEF LikeFile, IdAt
  <2>3. SeqNo(x, x.files[s].dir) = SeqNo(v, v.files[s].dir)
    <3>1. v.files[s].dir \in {Root, Sub}
      BY DEF Met
    <3> QED
      BY <2>1, <3>1 DEF LikeFile, SeqNo
  <2>4. ParentAt(x, s) = ParentAt(v, s)
    BY <1>1, <2>1, <2>3 DEF LikeFile, ParentAt
  <2>5. PathAt(x, s) = PathAt(v, s)
    BY <1>1, <2>1 DEF LikeFile, PathAt, PathOf
  <2>6. EntryAt(x, s) = EntryAt(v, s)
    BY <2>1, <2>2, <2>4, <2>5 DEF EntryAt, EntryAs, LikeFile
  <2>7. \A opts : Wanted(x.files[s], opts) <=> Wanted(v.files[s], opts)
    BY <2>1 DEF LikeFile, Wanted
  <2>8. \A b : UnitsOf(x.files[s], b) = UnitsOf(v.files[s], b)
    BY <2>1 DEF LikeFile, UnitsOf
  <2> QED
    BY <2>2, <2>6, <2>7, <2>8
<1>7. Inventory(x) = Inventory(v)
  <2>1. Inventory(x) = {EntryAt(x, s) : s \in Live(x)} /\ Inventory(v) = {EntryAt(v, s) : s \in Live(v)}
    BY InventoryIs
  <2> QED
    BY <1>3, <1>4, <1>6, <2>1
<1> QED
  BY <1>1, <1>3, <1>5, <1>6, <1>7

\* What of each state cannot be read.
UnreadNow(fault) ==
  IF fault = "newer walk failed" THEN {"walk"} ELSE IF fault = "newer journal unread" THEN {"position"}
  ELSE IF fault = "journal unread" THEN {"renames"} ELSE {}
UnreadThen(fault) ==
  IF fault = "older walk failed" THEN {"walk"} ELSE IF fault = "older journal unread" THEN {"position"} ELSE {}

\* What the two states of a volume have to do with the guest's.
MetNow(x, v, i, fault) ==
  /\ LikeVolume(x, v) /\ Met(x)
  /\ \A s \in Slots : x.files[s].lost = TRUE <=> (fault = "map lost" /\ i = 1 /\ s = 1)
  /\ \A s \in Slots : x.files[s].lost \in BOOLEAN
  /\ fault = "other serial" => x.serial = v.serial
  /\ x.unread = IF i = 1 THEN UnreadNow(fault) ELSE {}
  /\ fault \in FailedWalks => x.serial = v.serial /\ x.readable = TRUE
MetThen(x, was, i, fault) ==
  /\ LikeVolume(x, was) /\ Met(x)
  /\ fault = "other serial" /\ i = 1 => x.serial = was.serial + 1
  /\ x.unread = IF i = 1 THEN UnreadThen(fault) ELSE {}
  /\ fault \in FailedWalks => x.serial = was.serial /\ x.readable = TRUE

\* The newer state a comparison meets, volume by volume.
LEMMA NewerIs ==
  ASSUME GuestInv, NEW fault
  PROVE  /\ DOMAIN Newer(fault).vols = DOMAIN vols /\ Apart(Newer(fault))
         /\ \A i \in DOMAIN vols : MetNow(Newer(fault).vols[i], vols[i], i, fault)
<1> DEFINE new == Newer(fault).vols
<1>1. /\ vols \in Seq(Volume) /\ vols # <<>> /\ SoundTable([vols |-> vols, table |-> table])
      /\ \A i \in DOMAIN vols : SoundVolume(vols[i]) /\ vols[i] \in Volume
  BY DEF GuestInv, VolumeInv, SoundVolume
<1>2. 1 \in DOMAIN vols
  BY <1>1
<1> DEFINE unread == UnreadNow(fault)
<1>3. \/ new = vols /\ fault # "map lost" /\ unread = {}
      \/ fault = "map lost" /\ new = [vols EXCEPT ![1] = [vols[1] EXCEPT !.files[1].lost = TRUE]]
      \/ fault = "identity unread" /\ new = [vols EXCEPT ![1] = [vols[1] EXCEPT !.serial = 0]]
      \/ fault = "new unreadable" /\ new = [vols EXCEPT ![1] = [vols[1] EXCEPT !.readable = FALSE]]
      \/ /\ fault \in {"newer walk failed", "newer journal unread", "journal unread"}
         /\ new = [vols EXCEPT ![1] = [vols[1] EXCEPT !.unread = unread]]
  BY DEF Newer, UnreadNow
<1>0. /\ fault \in {"map lost", "identity unread", "new unreadable"} => unread = {} /\ fault \notin FailedWalks
      /\ fault \in {"newer walk failed", "newer journal unread", "journal unread"}
           => fault \notin {"map lost", "other serial"}
  BY DEF UnreadNow, FailedWalks
<1> HIDE DEF new, unread
<1>4. DOMAIN new = DOMAIN vols /\ \A i \in DOMAIN vols : i # 1 => new[i] = vols[i]
  BY <1>3
<1>5. ASSUME NEW v \in Volume
      PROVE  /\ LikeVolume(v, v) /\ \A s \in Slots : v.files[s].lost = FALSE
             /\ v.unread = {} /\ v.readable = TRUE
  BY LikeItself, VolumeFields
<1>6. ASSUME NEW i \in DOMAIN vols
      PROVE  /\ LikeVolume(new[i], vols[i])
             /\ \A s \in Slots : new[i].files[s].lost = (fault = "map lost" /\ i = 1 /\ s = 1)
             /\ fault = "other serial" => new[i].serial = vols[i].serial
             /\ new[i].unread = (IF i = 1 THEN unread ELSE {})
             /\ fault \in FailedWalks => new[i].serial = vols[i].serial /\ new[i].readable = TRUE
  <2>1. CASE i # 1
    <3>1. new[i] = vols[i]
      BY <1>4, <2>1
    <3> QED
      BY <1>1, <1>5, <2>1, <3>1
  <2>2. CASE i = 1 /\ new = vols /\ fault # "map lost" /\ unread = {}
    BY <1>1, <1>5, <2>2
  <2>3. CASE i = 1 /\ fault = "map lost" /\ new = [vols EXCEPT ![1] = [vols[1] EXCEPT !.files[1].lost = TRUE]]
    <3>1. new[i] = [vols[1] EXCEPT !.files[1].lost = TRUE]
      BY <1>2, <2>3
    <3> DEFINE x == [vols[1] EXCEPT !.files[1].lost = TRUE]
    <3>2. /\ LikeVolume(x, vols[1]) /\ x.serial = vols[1].serial /\ x.unread = {}
          /\ x.files[1].lost = TRUE /\ \A s \in Slots : s # 1 => x.files[s].lost = FALSE
      BY <1>1, <1>2, LikeLost
    <3> HIDE DEF x
    <3>3. new[i] = x
      BY <3>1 DEF x
    <3> QED
      BY <1>0, <2>3, <3>2, <3>3
  <2>4. CASE i = 1 /\ fault = "identity unread" /\ new = [vols EXCEPT ![1] = [vols[1] EXCEPT !.serial = 0]]
    <3>1. new[i] = [vols[1] EXCEPT !.serial = 0]
      BY <1>2, <2>4
    <3> DEFINE x == [vols[1] EXCEPT !.serial = 0]
    <3>2. LikeVolume(x, vols[1]) /\ x.files = vols[1].files /\ x.unread = {}
      BY <1>1, <1>2, LikeSerial
    <3>3. \A s \in Slots : vols[1].files[s].lost = FALSE
      BY <1>1, <1>2, <1>5
    <3> HIDE DEF x
    <3>4. new[i] = x
      BY <3>1 DEF x
    <3> QED
      BY <1>0, <2>4, <3>2, <3>3, <3>4
  <2>5. CASE i = 1 /\ fault = "new unreadable" /\ new = [vols EXCEPT ![1] = [vols[1] EXCEPT !.readable = FALSE]]
    <3>1. new[i] = [vols[1] EXCEPT !.readable = FALSE]
      BY <1>2, <2>5
    <3> DEFINE x == [vols[1] EXCEPT !.readable = FALSE]
    <3>2. LikeVolume(x, vols[1]) /\ x.files = vols[1].files /\ x.serial = vols[1].serial /\ x.unread = {}
      BY <1>1, <1>2, LikeReadable
    <3>3. \A s \in Slots : vols[1].files[s].lost = FALSE
      BY <1>1, <1>2, <1>5
    <3> HIDE DEF x
    <3>4. new[i] = x
      BY <3>1 DEF x
    <3> QED
      BY <1>0, <2>5, <3>2, <3>3, <3>4
  <2>6. CASE /\ i = 1 /\ fault \in {"newer walk failed", "newer journal unread", "journal unread"}
             /\ new = [vols EXCEPT ![1] = [vols[1] EXCEPT !.unread = unread]]
    <3>1. new[i] = [vols[1] EXCEPT !.unread = unread]
      BY <1>2, <2>6
    <3> DEFINE x == [vols[1] EXCEPT !.unread = unread]
    <3>2. /\ LikeVolume(x, vols[1]) /\ x.files = vols[1].files /\ x.serial = vols[1].serial
          /\ x.unread = unread /\ x.readable = TRUE
      BY <1>1, <1>2, LikeUnread
    <3>3. \A s \in Slots : vols[1].files[s].lost = FALSE
      BY <1>1, <1>2, <1>5
    <3> HIDE DEF x
    <3>4. new[i] = x
      BY <3>1 DEF x
    <3>5. fault # "map lost" /\ fault # "other serial"
      BY <1>0, <2>6
    <3>6. \A s \in Slots : new[i].files[s].lost = FALSE
      BY <3>2, <3>3, <3>4
    <3>7. \A s \in Slots : new[i].files[s].lost = (fault = "map lost" /\ i = 1 /\ s = 1)
      BY <3>5, <3>6
    <3>8. /\ LikeVolume(new[i], vols[i]) /\ new[i].unread = (IF i = 1 THEN unread ELSE {})
          /\ new[i].serial = vols[i].serial /\ new[i].readable = TRUE
      BY <2>6, <3>2, <3>4
    <3> QED
      BY <3>7, <3>8
  <2> QED
    BY <1>3, <2>1, <2>2, <2>3, <2>4, <2>5, <2>6
<1>7. ASSUME NEW i \in DOMAIN vols
      PROVE  MetNow(new[i], vols[i], i, fault)
  <2>0. \A s \in Slots : new[i].files[s].lost = (fault = "map lost" /\ i = 1 /\ s = 1)
    BY <1>6
  <2>1. \A s \in Slots : new[i].files[s].lost \in BOOLEAN
    BY <2>0
  <2>2. \A s \in Slots : new[i].files[s].lost = TRUE <=> (fault = "map lost" /\ i = 1 /\ s = 1)
    BY <2>0
  <2>3. LikeVolume(new[i], vols[i]) /\ (fault = "other serial" => new[i].serial = vols[i].serial)
    BY <1>6
  <2>4. Met(new[i])
    BY <1>1, <2>1, <2>3, LikeMet
  <2>5. /\ new[i].unread = (IF i = 1 THEN UnreadNow(fault) ELSE {})
        /\ fault \in FailedWalks => new[i].serial = vols[i].serial /\ new[i].readable = TRUE
    BY <1>6 DEF unread
  <2> QED
    BY <2>1, <2>2, <2>3, <2>4, <2>5 DEF MetNow
<1>8. Apart(Newer(fault))
  <2>1. \A i \in DOMAIN vols : new[i].base = vols[i].base
    BY <1>6 DEF LikeVolume
  <2>2. \A i, j \in DOMAIN vols : vols[i].base = vols[j].base => i = j
    BY <1>1 DEF SoundTable
  <2> QED
    BY <1>4, <2>1, <2>2 DEF Apart, new
<1> QED
  BY <1>4, <1>7, <1>8 DEF new

\* The older state a comparison meets, volume by volume.
LEMMA OlderIs ==
  ASSUME GuestInv, old # <<>>, NEW fault
  PROVE  /\ DOMAIN Older(fault).vols = DOMAIN vols /\ Apart(Older(fault)) /\ DOMAIN old[1].vols = DOMAIN vols
         /\ \A i \in DOMAIN vols : MetThen(Older(fault).vols[i], old[1].vols[i], i, fault)
<1> DEFINE ow == old[1].vols
           new == Older(fault).vols
<1>1. /\ DOMAIN ow = DOMAIN vols /\ SoundTable([vols |-> vols, table |-> table])
      /\ \A i \in DOMAIN vols : SoundVolume(ow[i]) /\ ow[i].base = vols[i].base
  BY DEF GuestInv, Alike
<1>2. 1 \in DOMAIN vols /\ \A i \in DOMAIN vols : ow[i] \in Volume
  <2>1. vols \in Seq(Volume) /\ vols # <<>>
    BY DEF GuestInv
  <2>2. 1 \in DOMAIN vols
    BY <2>1
  <2>3. \A i \in DOMAIN vols : SoundVolume(ow[i])
    BY <1>1
  <2> HIDE DEF ow
  <2> QED
    BY <2>2, <2>3 DEF SoundVolume
<1> DEFINE unread == UnreadThen(fault)
<1>3. \/ new = ow /\ fault # "other serial" /\ unread = {}
      \/ fault = "other serial" /\ new = [ow EXCEPT ![1] = [ow[1] EXCEPT !.serial = ow[1].serial + 1]]
      \/ fault = "old unreadable" /\ new = [ow EXCEPT ![1] = [ow[1] EXCEPT !.readable = FALSE]]
      \/ /\ fault \in {"older walk failed", "older journal unread"}
         /\ new = [ow EXCEPT ![1] = [ow[1] EXCEPT !.unread = unread]]
  BY DEF Older, UnreadThen
<1>0. /\ fault \in {"other serial", "old unreadable"} => unread = {} /\ fault \notin FailedWalks
      /\ fault \in {"older walk failed", "older journal unread"} => fault # "other serial"
      /\ fault = "old unreadable" => fault # "other serial"
  BY DEF UnreadThen, FailedWalks
<1> HIDE DEF ow, new, unread
<1>4. DOMAIN new = DOMAIN vols /\ \A i \in DOMAIN vols : i # 1 => new[i] = ow[i]
  BY <1>1, <1>3
<1>5. ASSUME NEW i \in DOMAIN vols
      PROVE  /\ LikeVolume(new[i], ow[i]) /\ \A s \in Slots : new[i].files[s].lost = FALSE
             /\ fault = "other serial" /\ i = 1 => new[i].serial = ow[i].serial + 1
             /\ new[i].unread = (IF i = 1 THEN unread ELSE {})
             /\ fault \in FailedWalks => new[i].serial = ow[i].serial /\ new[i].readable = TRUE
  <2>1. /\ LikeVolume(ow[i], ow[i]) /\ \A s \in Slots : ow[i].files[s].lost = FALSE
        /\ ow[i].unread = {} /\ ow[i].readable = TRUE
    BY <1>2, LikeItself, VolumeFields
  <2>2. CASE i # 1
    <3>1. new[i] = ow[i]
      BY <1>4, <2>2
    <3> QED
      BY <2>1, <2>2, <3>1
  <2>3. CASE i = 1 /\ new = ow /\ fault # "other serial" /\ unread = {}
    BY <2>1, <2>3
  <2>4. CASE i = 1 /\ fault = "other serial" /\ new = [ow EXCEPT ![1] = [ow[1] EXCEPT !.serial = ow[1].serial + 1]]
    <3> DEFINE x == [ow[1] EXCEPT !.serial = ow[1].serial + 1]
    <3>1. new[i] = x
      BY <1>1, <1>2, <2>4
    <3>2. LikeVolume(x, ow[1]) /\ x.files = ow[1].files /\ x.serial = ow[1].serial + 1 /\ x.unread = {}
      BY <1>2, LikeSerial
    <3> HIDE DEF x
    <3> QED
      BY <1>0, <2>1, <2>4, <3>1, <3>2
  <2>5. CASE i = 1 /\ fault = "old unreadable" /\ new = [ow EXCEPT ![1] = [ow[1] EXCEPT !.readable = FALSE]]
    <3> DEFINE x == [ow[1] EXCEPT !.readable = FALSE]
    <3>1. new[i] = x
      BY <1>1, <1>2, <2>5
    <3>2. LikeVolume(x, ow[1]) /\ x.files = ow[1].files /\ x.unread = {}
      BY <1>2, LikeReadable
    <3> HIDE DEF x
    <3> QED
      BY <1>0, <2>1, <2>5, <3>1, <3>2
  <2>6. CASE /\ i = 1 /\ fault \in {"older walk failed", "older journal unread"}
             /\ new = [ow EXCEPT ![1] = [ow[1] EXCEPT !.unread = unread]]
    <3> DEFINE x == [ow[1] EXCEPT !.unread = unread]
    <3>1. new[i] = x
      BY <1>1, <1>2, <2>6
    <3>2. /\ LikeVolume(x, ow[1]) /\ x.files = ow[1].files /\ x.serial = ow[1].serial
          /\ x.unread = unread /\ x.readable = TRUE
      BY <1>2, LikeUnread
    <3> HIDE DEF x
    <3> QED
      BY <1>0, <2>1, <2>6, <3>1, <3>2
  <2> QED
    BY <1>3, <2>2, <2>3, <2>4, <2>5, <2>6
<1>6. ASSUME NEW i \in DOMAIN vols
      PROVE  MetThen(new[i], ow[i], i, fault)
  <2>1. \A s \in Slots : new[i].files[s].lost \in BOOLEAN
    BY <1>5
  <2>2. LikeVolume(new[i], ow[i]) /\ (fault = "other serial" /\ i = 1 => new[i].serial = ow[i].serial + 1)
    BY <1>5
  <2>3. Met(new[i])
    BY <1>1, <2>1, <2>2, LikeMet
  <2>4. /\ new[i].unread = (IF i = 1 THEN UnreadThen(fault) ELSE {})
        /\ fault \in FailedWalks => new[i].serial = ow[i].serial /\ new[i].readable = TRUE
    BY <1>5 DEF unread
  <2> QED
    BY <2>2, <2>3, <2>4 DEF MetThen
<1>7. Apart(Older(fault))
  <2>1. \A i \in DOMAIN vols : new[i].base = vols[i].base
    BY <1>1, <1>5 DEF LikeVolume
  <2>2. \A i, j \in DOMAIN vols : vols[i].base = vols[j].base => i = j
    BY <1>1 DEF SoundTable
  <2> QED
    BY <1>4, <2>1, <2>2 DEF Apart, new
<1> QED
  BY <1>1, <1>4, <1>6, <1>7 DEF new, ow

-----------------------------------------------------------------------------
(* The document.                                                            *)

\* A document that has the volumes of a comparison, or a reason to have none.
IsDocument(r, cmp, opts) ==
  \/ /\ r.volumes = {} /\ r.tier = "block"
     /\ \/ opts.skipVolumes
        \/ \E x \in r.warnings : x.what = "older state unavailable"
  \/ /\ r.volumes = cmp.volumes /\ r.warnings = cmp.notes
     /\ r.tier = IF r.volumes = {} THEN "block" ELSE TierOf(r.volumes)

\* What CompareDisks returns is of one form.
LEMMA CompareDisksIs ==
  ASSUME NEW older, NEW newer, NEW chain, NEW index, NEW extents, NEW opts
  PROVE  IsDocument(CompareDisks(older, newer, chain, index, extents, opts),
                    CompareVolumes(older, newer, WrittenRanges(extents), opts), opts)
<1> DEFINE r     == CompareDisks(older, newer, chain, index, extents, opts)
           cmp   == CompareVolumes(older, newer, WrittenRanges(extents), opts)
           block == Change(extents)
           warn  == Warning("older state unavailable", index)
<1>1. block = [tier |-> "block", extents |-> extents, volumes |-> {}, warnings |-> {}]
  BY DEF Change
<1>2. \/ opts.skipVolumes /\ r = block
      \/ r = [block EXCEPT !.warnings = {warn}]
      \/ r = WithVolumes(block, cmp)
  BY DEF CompareDisks
<1> HIDE DEF r, cmp, warn
<1>3. CASE opts.skipVolumes /\ r = block
  BY <1>1, <1>3 DEF r, cmp, IsDocument
<1>4. CASE r = [block EXCEPT !.warnings = {warn}]
  <2>1. r.volumes = {} /\ r.tier = "block" /\ warn \in r.warnings
    BY <1>1, <1>4
  <2>2. warn.what = "older state unavailable"
    BY DEF warn, Warning
  <2> QED
    BY <2>1, <2>2 DEF r, IsDocument
<1>5. CASE r = WithVolumes(block, cmp)
  <2>1. r = [block EXCEPT !.volumes = cmp.volumes, !.warnings = cmp.notes,
                          !.tier = IF cmp.volumes = {} THEN @ ELSE TierOf(cmp.volumes)]
    BY <1>5 DEF WithVolumes
  <2>2. /\ r.volumes = cmp.volumes /\ r.warnings = cmp.notes
        /\ r.tier = IF r.volumes = {} THEN "block" ELSE TierOf(r.volumes)
    BY <1>1, <2>1
  <2> QED
    BY <2>2 DEF r, cmp, IsDocument
<1> QED
  BY <1>2, <1>3, <1>4, <1>5

ChangedRanges  == WrittenRanges(ChangedExtents)
Inside(p)      == Clip(ChangedRanges, Span(p))
DiffOf(i, p)   == Diff(Older(Fault).vols[i], Newer(Fault).vols[i], Inside(p), Opts)
ReportOf(i, p) == ToReport(OpenedAs(Newer(Fault), i, p), DiffOf(i, p))

\* What a document is made of: the comparisons of those volumes in which
\* something was written, or a reason for one that is missing.
LEMMA DocumentIs ==
  ASSUME GuestInv, doc # <<>>
  PROVE  /\ old # <<>> /\ Len(doc) = 1
         /\ Opts \in [maxFiles : Nat, skipDirectories : BOOLEAN, allowMismatch : BOOLEAN, skipVolumes : BOOLEAN]
         /\ \A w \in Report.volumes : \E i \in DOMAIN vols, p \in Parts(Newer(Fault)) :
              p.base = vols[i].base /\ Inside(p) # {} /\ DiffOf(i, p).ok /\ w = ReportOf(i, p)
         /\ Report.tier = IF Report.volumes = {} THEN "block" ELSE TierOf(Report.volumes)
         /\ \/ Opts.skipVolumes
            \/ \E x \in Report.warnings : x.what = "older state unavailable"
            \/ \A i \in DOMAIN vols, p \in Parts(Newer(Fault)) : p.base = vols[i].base /\ Inside(p) # {} =>
                 \/ \E w \in Report.volumes : w.base = vols[i].base
                 \/ \E x \in Report.warnings : x.at = vols[i].base
<1> DEFINE older == Older(Fault)
           newer == Newer(Fault)
           chain == ChainOf(Fault)
           index == IndexOf(Fault)
           was   == OpenVolumes(older)
           new   == OpenVolumes(newer)
           cmp   == CompareVolumes(older, newer, ChangedRanges, Opts)
<1>1. old # <<>> /\ \E c \in Cases : doc = Document(c)
  BY DEF GuestInv
<1>2. PICK c \in Cases : doc = Document(c)
  BY <1>1
<1>3. Len(doc) = 1 /\ doc[1] = [case |-> c, was |-> CompareDisks(Older(c.fault), Newer(c.fault), ChainOf(c.fault),
                                                                IndexOf(c.fault), ChangedExtents, c.opts)]
  BY <1>2 DEF Document
<1>4. Fault = c.fault /\ Opts = c.opts
  BY <1>3 DEF Fault, Opts
<1>5. Report = CompareDisks(older, newer, chain, index, ChangedExtents, Opts)
  BY <1>3, <1>4 DEF Report
<1>6. Opts \in [maxFiles : Nat, skipDirectories : BOOLEAN, allowMismatch : BOOLEAN, skipVolumes : BOOLEAN]
  BY <1>4, CasesAreOptions
<1>7. /\ DOMAIN newer.vols = DOMAIN vols /\ Apart(newer)
      /\ \A i \in DOMAIN vols : newer.vols[i].base = vols[i].base
  <2>1. /\ DOMAIN newer.vols = DOMAIN vols /\ Apart(newer)
        /\ \A i \in DOMAIN vols : MetNow(newer.vols[i], vols[i], i, Fault)
    BY NewerIs
  <2> HIDE DEF newer
  <2> QED
    BY <2>1 DEF MetNow, LikeVolume
<1>8. /\ DOMAIN older.vols = DOMAIN vols /\ Apart(older)
      /\ \A i \in DOMAIN vols : older.vols[i].base = vols[i].base
  <2>1. /\ DOMAIN older.vols = DOMAIN vols /\ Apart(older)
        /\ \A i \in DOMAIN vols : older.vols[i].base = old[1].vols[i].base
    <3>1. /\ DOMAIN older.vols = DOMAIN vols /\ Apart(older)
          /\ \A i \in DOMAIN vols : MetThen(older.vols[i], old[1].vols[i], i, Fault)
      BY <1>1, OlderIs
    <3> HIDE DEF older
    <3> QED
      BY <3>1 DEF MetThen, LikeVolume
  <2>2. \A i \in DOMAIN vols : old[1].vols[i].base = vols[i].base
    BY <1>1 DEF GuestInv, Alike
  <2> QED
    BY <2>1, <2>2
<1>9. \A i, j \in DOMAIN vols : vols[i].base = vols[j].base => i = j
  BY DEF GuestInv, SoundTable
<1> HIDE DEF older, newer, chain, index
<1>10. /\ \A x \in new.vols : \E i \in DOMAIN vols, p \in Parts(newer) :
            vols[i].base = p.base /\ x = OpenedAs(newer, i, p)
       /\ \A i \in DOMAIN vols, p \in Parts(newer) : vols[i].base = p.base =>
            OpenedAs(newer, i, p) \in new.vols \/ p.base \in new.errs
  BY <1>7, OpensWhatIsThere
<1>11. \A y \in was.vols : \E i \in DOMAIN vols : y.base = vols[i].base /\ y.fs = older.vols[i]
  <2>1. \A y \in was.vols : \E i \in DOMAIN vols, p \in Parts(older) :
          vols[i].base = p.base /\ y = OpenedAs(older, i, p)
    BY <1>8, OpensWhatIsThere
  <2> QED
    BY <2>1 DEF OpenedAs
<1>12. \A i, p : OpenedAs(newer, i, p).base = p.base /\ OpenedAs(newer, i, p).fs = newer.vols[i]
                 /\ Span(OpenedAs(newer, i, p)) = Span(p)
  BY DEF OpenedAs, Span
<1> HIDE DEF was, new
<1>13. /\ \A w \in cmp.volumes : \E x \in new.vols, y \in was.vols :
            LET diff == Diff(y.fs, x.fs, Clip(ChangedRanges, Span(x)), Opts)
            IN  y.base = x.base /\ Clip(ChangedRanges, Span(x)) # {} /\ diff.ok /\ w = ToReport(x, diff)
       /\ \A x \in new.vols : Clip(ChangedRanges, Span(x)) # {} =>
            \/ \E w \in cmp.volumes : w.base = x.base
            \/ \E n \in cmp.notes : n.at = x.base
       /\ \A b \in new.errs : \E n \in cmp.notes : n.at = b
  <2>1. cmp = CompareOpened(was, new, ChangedRanges, Opts)
    BY DEF CompareVolumes, was, new
  <2> QED
    BY <2>1, CompareOpenedIs
<1> HIDE DEF cmp
<1>14. ASSUME NEW w \in cmp.volumes
       PROVE  \E i \in DOMAIN vols, p \in Parts(newer) :
                p.base = vols[i].base /\ Inside(p) # {} /\ DiffOf(i, p).ok /\ w = ReportOf(i, p)
  <2>1. PICK x \in new.vols, y \in was.vols :
          LET diff == Diff(y.fs, x.fs, Clip(ChangedRanges, Span(x)), Opts)
          IN  y.base = x.base /\ Clip(ChangedRanges, Span(x)) # {} /\ diff.ok /\ w = ToReport(x, diff)
    BY <1>13
  <2>2. PICK i \in DOMAIN vols, p \in Parts(newer) : vols[i].base = p.base /\ x = OpenedAs(newer, i, p)
    BY <1>10
  <2>3. x.base = p.base /\ x.fs = newer.vols[i] /\ Clip(ChangedRanges, Span(x)) = Inside(p)
    BY <1>12, <2>2 DEF Inside
  <2>4. y.fs = older.vols[i]
    <3>1. PICK j \in DOMAIN vols : y.base = vols[j].base /\ y.fs = older.vols[j]
      BY <1>11
    <3>2. j = i
      BY <1>9, <2>1, <2>2, <2>3, <3>1
    <3> QED
      BY <3>1, <3>2
  <2>5. Diff(y.fs, x.fs, Clip(ChangedRanges, Span(x)), Opts) = DiffOf(i, p)
    BY <2>3, <2>4 DEF DiffOf, older, newer
  <2>6. Inside(p) # {} /\ DiffOf(i, p).ok /\ w = ToReport(x, DiffOf(i, p))
    BY <2>1, <2>3, <2>5
  <2>7. ToReport(x, DiffOf(i, p)) = ReportOf(i, p)
    BY <2>2 DEF ReportOf, newer
  <2> QED
    BY <2>2, <2>6, <2>7
<1>15. ASSUME NEW i \in DOMAIN vols, NEW p \in Parts(newer), p.base = vols[i].base, Inside(p) # {}
       PROVE  \/ \E w \in cmp.volumes : w.base = vols[i].base
              \/ \E n \in cmp.notes : n.at = vols[i].base
  <2>1. CASE OpenedAs(newer, i, p) \in new.vols
    <3> DEFINE x == OpenedAs(newer, i, p)
    <3>1. x \in new.vols /\ x.base = vols[i].base /\ Clip(ChangedRanges, Span(x)) # {}
      BY <1>12, <1>15, <2>1 DEF Inside
    <3> HIDE DEF x
    <3> QED
      BY <1>13, <3>1
  <2>2. CASE p.base \in new.errs
    BY <1>13, <1>15, <2>2
  <2> QED
    BY <1>10, <1>15, <2>1, <2>2
<1>16. \/ /\ Report.volumes = {} /\ Report.tier = "block"
          /\ \/ Opts.skipVolumes
             \/ \E x \in Report.warnings : x.what = "older state unavailable"
       \/ /\ Report.volumes = cmp.volumes /\ Report.warnings = cmp.notes
          /\ Report.tier = IF Report.volumes = {} THEN "block" ELSE TierOf(Report.volumes)
  <2>1. IsDocument(CompareDisks(older, newer, chain, index, ChangedExtents, Opts),
                   CompareVolumes(older, newer, WrittenRanges(ChangedExtents), Opts), Opts)
    BY CompareDisksIs
  <2>2. IsDocument(Report, cmp, Opts)
    BY <1>5, <2>1 DEF cmp, ChangedRanges
  <2> QED
    BY <2>2 DEF IsDocument
<1>17. CASE /\ Report.volumes = {} /\ Report.tier = "block"
            /\ \/ Opts.skipVolumes
               \/ \E x \in Report.warnings : x.what = "older state unavailable"
  BY <1>1, <1>3, <1>6, <1>17
<1>18. CASE /\ Report.volumes = cmp.volumes /\ Report.warnings = cmp.notes
            /\ Report.tier = IF Report.volumes = {} THEN "block" ELSE TierOf(Report.volumes)
  <2>1. \A w \in Report.volumes : \E i \in DOMAIN vols, p \in Parts(Newer(Fault)) :
          p.base = vols[i].base /\ Inside(p) # {} /\ DiffOf(i, p).ok /\ w = ReportOf(i, p)
    BY <1>14, <1>18 DEF newer
  <2>2. \A i \in DOMAIN vols, p \in Parts(Newer(Fault)) : p.base = vols[i].base /\ Inside(p) # {} =>
          \/ \E w \in Report.volumes : w.base = vols[i].base
          \/ \E x \in Report.warnings : x.at = vols[i].base
    BY <1>15, <1>18 DEF newer
  <2>3. Report.tier = IF Report.volumes = {} THEN "block" ELSE TierOf(Report.volumes)
    BY <1>18
  <2> QED
    BY <1>1, <1>3, <1>6, <2>1, <2>2, <2>3
<1> QED
  BY <1>16, <1>17, <1>18

\* Every volume lies in the span it is looked for in, unless its partition is gone.
LEMMA PartsAre ==
  ASSUME GuestInv, NEW fault
  PROVE  LET parts == Parts(Newer(fault))
         IN  /\ \A p, q \in parts : p.base = q.base => p = q
             /\ \A i \in DOMAIN vols, p \in parts : p.base = vols[i].base =>
                  Span(p) \in Ranges /\ Room(vols[i]) \subseteq Bytes(Span(p))
             /\ \A i \in DOMAIN vols : ~(fault = "partition removed" /\ i = 1) => \E p \in parts : p.base = vols[i].base
<1> DEFINE tbl   == Newer(fault).table
           parts == Parts(Newer(fault))
<1>1. /\ table \subseteq [base : Nat, len : Nat]
      /\ \A p, q \in table : p.base = q.base => p = q
      /\ \A i, j \in DOMAIN vols : vols[i].base = vols[j].base => i = j
      /\ \A i \in DOMAIN vols : IF table = {} THEN vols[i].base = 0
                                ELSE vols[i].base > 0 /\ [base |-> vols[i].base, len |-> vols[i].len] \in table
  BY DEF GuestInv, SoundTable
<1>2. 1 \in DOMAIN vols /\ \A i \in DOMAIN vols : SoundVolume(vols[i])
  BY DEF GuestInv, VolumeInv
<1>3. Size \in Nat
  BY SizesAreNat
<1>4. /\ tbl \subseteq table /\ \A p \in table : p.base # vols[1].base => p \in tbl
      /\ fault # "partition removed" => tbl = table
  BY DEF Newer, Without
<1>5. parts = IF tbl = {} THEN {WholeDisk} ELSE {p \in tbl : IsPartition(p)}
  BY DEF Parts, Partitions
<1> HIDE DEF tbl, parts
<1>6. \A p, q \in parts : p.base = q.base => p = q
  BY <1>1, <1>4, <1>5
<1>7. ASSUME NEW i \in DOMAIN vols, NEW p \in parts, p.base = vols[i].base
      PROVE  Span(p) \in Ranges /\ Room(vols[i]) \subseteq Bytes(Span(p))
  <2> DEFINE v == vols[i]
  <2>1. v.base \in Nat /\ v.len \in Nat /\ v.len # 0 /\ v.base < Size /\ v.root \in Nat /\ v.base <= v.root
        /\ v.base + v.len <= Size /\ Room(v) \subseteq 0..(Size - 1)
    <3>1. SoundVolume(v) /\ v \in Volume
      BY <1>2 DEF SoundVolume
    <3>2. v.base \in Nat /\ v.len \in Nat /\ v.root \in Nat
      BY <3>1, VolumeFields
    <3> HIDE DEF v
    <3>3. v.root >= v.base /\ v.base + v.len <= Size
      BY <3>1 DEF SoundVolume
    <3> QED
      BY <3>1, <3>2, <3>3, RoomIsDisk
  <2>2. CASE tbl = {}
    <3>1. p = WholeDisk
      BY <1>5, <2>2
    <3>2. p.base = 0 /\ p.len = Size
      BY <3>1 DEF WholeDisk
    <3>3. Span(p) = [at |-> 0, len |-> Size]
      BY <1>3, <3>2 DEF Span
    <3>4. Span(p) \in Ranges
      BY <1>3, <3>3 DEF Ranges
    <3>5. Bytes(Span(p)) = 0..(Size - 1)
      BY <1>3, <3>3 DEF Bytes, End
    <3> QED
      BY <2>1, <3>4, <3>5
  <2>3. CASE tbl # {}
    <3>1. p \in table
      BY <1>4, <1>5, <2>3
    <3>2. [base |-> v.base, len |-> v.len] \in table
      BY <1>1, <3>1
    <3>3. p = [base |-> v.base, len |-> v.len]
      <4>1. [base |-> v.base, len |-> v.len].base = v.base
        OBVIOUS
      <4> QED
        BY <1>1, <1>7, <3>1, <3>2, <4>1
    <3>4. p.base = v.base /\ p.len = v.len
      BY <3>3
    <3> HIDE DEF v
    <3>5. Span(p) = [at |-> v.base, len |-> v.len]
      BY <2>1, <3>4 DEF Span
    <3>6. Span(p) \in Ranges
      BY <2>1, <3>5 DEF Ranges
    <3>7. Bytes(Span(p)) = v.base..(v.base + v.len - 1)
      <4>1. Span(p).at = v.base /\ Span(p).len = v.len
        BY <3>5
      <4> QED
        BY <2>1, <4>1 DEF Bytes, End
    <3>8. Room(v) \subseteq v.base..(v.base + v.len - 1)
      BY <2>1 DEF Room
    <3> QED
      BY <3>6, <3>7, <3>8 DEF v
  <2> QED
    BY <2>2, <2>3
<1>8. ASSUME NEW i \in DOMAIN vols, ~(fault = "partition removed" /\ i = 1)
      PROVE  \E p \in parts : p.base = vols[i].base
  <2> DEFINE v == vols[i]
             q == [base |-> v.base, len |-> v.len]
  <2>1. CASE table = {}
    <3>1. parts = {WholeDisk}
      BY <1>4, <1>5, <2>1
    <3>2. WholeDisk.base = 0 /\ vols[i].base = 0
      BY <1>1, <2>1 DEF WholeDisk
    <3> QED
      BY <3>1, <3>2
  <2>2. CASE table # {}
    <3>1. q \in table /\ v.base > 0 /\ q.base = v.base /\ q.len = v.len
      BY <1>1, <2>2
    <3>2. q \in tbl
      BY <1>1, <1>2, <1>4, <1>8, <3>1
    <3>3. v.len \in Nat /\ v.len # 0 /\ v.base < Size
      <4>1. SoundVolume(v)
        BY <1>2
      <4> HIDE DEF v
      <4> QED
        BY <4>1, RoomIsDisk
    <3> HIDE DEF q, v
    <3>4. IsPartition(q)
      BY <3>1, <3>3 DEF IsPartition
    <3>5. q \in parts
      BY <1>5, <3>2, <3>4
    <3> QED
      BY <3>1, <3>5 DEF v
  <2> QED
    BY <2>1, <2>2
<1> QED
  BY <1>6, <1>7, <1>8 DEF parts

\* What lies inside a volume's span of what was written.
LEMMA InsideIs ==
  ASSUME GuestInv, NEW p, Span(p) \in Ranges
  PROVE  /\ Inside(p) \in SUBSET SomeRange /\ IsFiniteSet(Inside(p))
         /\ BytesOf(Inside(p)) = ReportedUnits \cap Bytes(Span(p))
<1>1. writes \subseteq 0..(Size - 1)
  BY DEF GuestInv
<1>2. ChangedRanges \in Seq(SomeRange) /\ AllBytes(ChangedRanges) = ReportedUnits
  BY <1>1, WrittenIs DEF ChangedRanges
<1> QED
  BY <1>2, ClipKeeps DEF Inside

\* A volume that was written to has something inside its span.
LEMMA InsideSome ==
  ASSUME GuestInv, NEW i \in DOMAIN vols, NEW p, Span(p) \in Ranges, Room(vols[i]) \subseteq Bytes(Span(p)),
         writes \cap Room(vols[i]) # {}
  PROVE  Inside(p) # {}
<1>1. BytesOf(Inside(p)) = ReportedUnits \cap Bytes(Span(p))
  BY InsideIs
<1>2. PICK u \in writes : u \in Room(vols[i])
  OBVIOUS
<1>3. writes \subseteq 0..(Size - 1)
  BY DEF GuestInv
<1>4. u \in ReportedUnits
  BY <1>2, <1>3 DEF ReportedUnits
<1>5. BytesOf(Inside(p)) # {}
  BY <1>1, <1>2, <1>4
<1> QED
  BY <1>5 DEF BytesOf

\* All that is known of a volume in a document.
Told(w, i, to, from, written) ==
  LET v   == vols[i]
      was == old[1].vols[i]
      all == All(from, to, written, Opts)
  IN  /\ w.base = v.base /\ VolAt(w.base) = v /\ OldAt(w.base) = was
      /\ w.files = {ReportedFile(c) : c \in w.diff.changes} /\ w.notes = w.diff.notes
      /\ VolumeInv(v, writes, nextUid) /\ SoundVolume(was) /\ JournalTrue(was) /\ Known(was, nextUid)
      /\ Alike(v, was) /\ Since(v, was)
      /\ MetNow(to, v, i, Fault) /\ MetThen(from, was, i, Fault) /\ from.kind = to.kind
      /\ written \in Seq(SomeRange)
      /\ \A u \in AllBytes(written) : u \in ReportedUnits
      /\ \A u \in writes \cap Room(v) : u \in AllBytes(written)
      /\ w.diff.changes \subseteq all
      /\ Complete(w) => w.diff.changes = all
      /\ \A s \in Live(to) : Lost(to, s) /\ Wanted(to.files[s], Opts)
           => Note("map unreadable", IdAt(to, s)) \in w.notes
      /\ from.serial # 0 /\ to.serial # 0 /\ from.serial # to.serial
           => Note("identity differs", NoId) \in w.notes
      /\ ~Capabilities(to).stable => Note("identity synthesised", NoId) \in w.notes
      /\ \A what \in FailedJournals : Note(what, NoId) \in w.notes <=> Note(what, NoId) \in Evidence(from, to).notes

\* A volume is found by its base.
LEMMA VolumeIsAt ==
  ASSUME GuestInv, NEW i \in DOMAIN vols
  PROVE  VolAt(vols[i].base) = vols[i] /\ OldAt(vols[i].base) = old[1].vols[i]
<1>1. \A j, k \in DOMAIN vols : vols[j].base = vols[k].base => j = k
  BY DEF GuestInv, SoundTable
<1>2. IndexAt(vols[i].base) = i
  BY <1>1 DEF IndexAt
<1> QED
  BY <1>2 DEF VolAt, OldAt

\* A volume in the document is one of the guest's, with all that is known of it.
LEMMA ReportTells ==
  ASSUME GuestInv, doc # <<>>, NEW w \in Report.volumes
  PROVE  \E i \in DOMAIN vols : \E to, from, written : Told(w, i, to, from, written)
<1>1. PICK i \in DOMAIN vols, p \in Parts(Newer(Fault)) :
        p.base = vols[i].base /\ Inside(p) # {} /\ DiffOf(i, p).ok /\ w = ReportOf(i, p)
  BY DocumentIs
<1> DEFINE v    == vols[i]
           was  == old[1].vols[i]
           to   == Newer(Fault).vols[i]
           from == Older(Fault).vols[i]
           inside  == Inside(p)
           written == Coalesce(inside)
           all     == All(from, to, written, Opts)
           diff    == Diff(from, to, inside, Opts)
<1>2. old # <<>> /\ Opts.maxFiles \in Nat /\ Opts.allowMismatch \in BOOLEAN
  BY DocumentIs
<1>3. MetNow(to, v, i, Fault) /\ MetThen(from, was, i, Fault)
  <2>1. MetNow(to, v, i, Fault)
    BY NewerIs
  <2>2. MetThen(from, was, i, Fault)
    BY <1>2, OlderIs
  <2> QED
    BY <2>1, <2>2
<1>4. /\ VolumeInv(v, writes, nextUid) /\ SoundVolume(was) /\ JournalTrue(was) /\ Known(was, nextUid)
      /\ Alike(v, was) /\ Since(v, was)
  BY <1>2 DEF GuestInv
<1>5. Span(p) \in Ranges /\ Room(v) \subseteq Bytes(Span(p))
  BY <1>1, PartsAre
<1>6. inside \in SUBSET SomeRange /\ IsFiniteSet(inside) /\ inside # {}
      /\ BytesOf(inside) = ReportedUnits \cap Bytes(Span(p))
  BY <1>1, <1>5, InsideIs
<1>7. w = ToReport(OpenedAs(Newer(Fault), i, p), diff) /\ diff.ok
  BY <1>1 DEF ReportOf, DiffOf
<1>8. /\ w.base = v.base /\ w.diff = diff /\ w.notes = diff.notes
      /\ w.files = {ReportedFile(c) : c \in w.diff.changes}
  <2> DEFINE x == OpenedAs(Newer(Fault), i, p)
  <2>1. x.base = v.base
    BY <1>1 DEF OpenedAs
  <2>2. w = ToReport(x, diff)
    BY <1>7
  <2> HIDE DEF x, diff, v
  <2> QED
    BY <2>1, <2>2 DEF ToReport
<1>9. VolAt(w.base) = v /\ OldAt(w.base) = was
  BY <1>8, VolumeIsAt
<1> HIDE DEF v, was, to, from, inside
<1>10. Met(from) /\ Met(to) /\ from.kind = to.kind
  BY <1>3, <1>4 DEF MetNow, MetThen, LikeVolume, Alike
<1> DEFINE opts == Opts
<1>11. opts.maxFiles \in Nat /\ opts.allowMismatch \in BOOLEAN
  BY <1>2
<1> HIDE DEF opts
<1>12. LET d == Diff(from, to, inside, opts)
           wr == Coalesce(inside)
           a  == All(from, to, wr, opts)
       IN  /\ wr \in Seq(SomeRange) /\ AllBytes(wr) = BytesOf(inside)
           /\ d.ok \in BOOLEAN
           /\ d.ok = TRUE =>
                  /\ d.changes \subseteq a
                  /\ Note("truncated", NoId) \notin d.notes => d.changes = a
                  /\ \A s \in Live(to) : Lost(to, s) /\ Wanted(to.files[s], opts)
                       => Note("map unreadable", IdAt(to, s)) \in d.notes
                  /\ from.serial # 0 /\ to.serial # 0 /\ from.serial # to.serial
                       => Note("identity differs", NoId) \in d.notes
                  /\ ~Capabilities(to).stable => Note("identity synthesised", NoId) \in d.notes
                  /\ \A what \in FailedJournals :
                       Note(what, NoId) \in d.notes <=> Note(what, NoId) \in Evidence(from, to).notes
  BY <1>6, <1>10, <1>11, DiffIs
<1>13. /\ written \in Seq(SomeRange) /\ AllBytes(written) = BytesOf(inside)
       /\ diff.ok \in BOOLEAN
       /\ diff.ok = TRUE =>
                  /\ diff.changes \subseteq all
                  /\ Note("truncated", NoId) \notin diff.notes => diff.changes = all
                  /\ \A s \in Live(to) : Lost(to, s) /\ Wanted(to.files[s], Opts)
                       => Note("map unreadable", IdAt(to, s)) \in diff.notes
                  /\ from.serial # 0 /\ to.serial # 0 /\ from.serial # to.serial
                       => Note("identity differs", NoId) \in diff.notes
                  /\ ~Capabilities(to).stable => Note("identity synthesised", NoId) \in diff.notes
                  /\ \A what \in FailedJournals :
                       Note(what, NoId) \in diff.notes <=> Note(what, NoId) \in Evidence(from, to).notes
  BY <1>12 DEF opts
<1> HIDE DEF written, diff, all
<1>14. diff.ok = TRUE
  BY <1>7, <1>13
<1>15. /\ \A u \in AllBytes(written) : u \in ReportedUnits
       /\ \A u \in writes \cap Room(v) : u \in AllBytes(written)
  <2>1. \A u \in writes : u \in ReportedUnits
    <3>1. writes \subseteq 0..(Size - 1)
      BY DEF GuestInv
    <3> QED
      BY <3>1 DEF ReportedUnits
  <2> QED
    BY <1>5, <1>6, <1>13, <2>1
<1>16. /\ w.diff.changes \subseteq all
       /\ Complete(w) => w.diff.changes = all
       /\ \A s \in Live(to) : Lost(to, s) /\ Wanted(to.files[s], Opts)
            => Note("map unreadable", IdAt(to, s)) \in w.notes
       /\ from.serial # 0 /\ to.serial # 0 /\ from.serial # to.serial
            => Note("identity differs", NoId) \in w.notes
       /\ ~Capabilities(to).stable => Note("identity synthesised", NoId) \in w.notes
       /\ \A what \in FailedJournals : Note(what, NoId) \in w.notes <=> Note(what, NoId) \in Evidence(from, to).notes
  BY <1>8, <1>13, <1>14 DEF Complete
<1>17. written \in Seq(SomeRange)
  BY <1>13
<1>18. w.notes = w.diff.notes /\ w.files = {ReportedFile(c) : c \in w.diff.changes} /\ w.base = v.base
  BY <1>8
<1>19. Told(w, i, to, from, written)
  BY <1>3, <1>4, <1>9, <1>10, <1>15, <1>16, <1>17, <1>18 DEF Told, v, was, all
<1> QED
  BY <1>19

-----------------------------------------------------------------------------
(* What a document may be relied on for.                                    *)

\* The fields of a reported file are those of its change.
LEMMA ReportedFields ==
  ASSUME NEW c
  PROVE  LET entry == IF c.entry.id # NoId THEN c.entry ELSE c.prev
             f     == ReportedFile(c)
         IN  /\ f.id = Identity(c) /\ f.id = entry.id /\ f.ranges = c.ranges /\ f.confidence = c.confidence
             /\ f.change = c.kind
             /\ f.path = IF entry.path # 0 THEN entry.path ELSE entry.name
<1> DEFINE named(e) == IF e.path # 0 THEN e.path ELSE e.name
           entry == IF c.entry.id # NoId THEN c.entry ELSE c.prev
           f     == ReportedFile(c)
           prior == IF c.kind = "renamed" THEN named(c.prev) ELSE 0
<1>1. f = [path |-> named(entry), change |-> c.kind, id |-> entry.id, ranges |-> c.ranges,
           confidence |-> c.confidence, previous |-> prior]
  BY DEF ReportedFile
<1>2. Identity(c) = entry.id
  BY DEF Identity
<1> HIDE DEF entry, f, prior
<1>3. /\ f.id = entry.id /\ f.ranges = c.ranges /\ f.confidence = c.confidence /\ f.change = c.kind
      /\ f.path = named(entry)
  BY <1>1
<1> QED
  BY <1>2, <1>3 DEF entry, f

\* The file a reported change is about.
LEMMA ChangeTells ==
  ASSUME NEW w, NEW i, NEW to, NEW from, NEW written, Told(w, i, to, from, written), NEW c \in w.diff.changes
  PROVE  /\ Met(to) /\ Met(from) /\ from.kind = to.kind
         /\ c \in All(from, to, written, Opts) /\ FormOfChange(c) /\ IsSupported(c, from, to)
         /\ \/ \E s \in Seen(from, to, written, Opts) :
                 s \in Live(to) /\ IsChangeAt(c, from, to, s, written) /\ Identity(c) = IdAt(to, s)
            \/ \E t \in Gone(from, to, Opts) :
                 t \in Live(from) /\ IsDeletionAt(c, from, t) /\ Identity(c) = IdAt(from, t)
<1>1. Met(to) /\ Met(from) /\ from.kind = to.kind /\ c \in All(from, to, written, Opts)
  BY DEF Told, MetNow, MetThen
<1>2. /\ FormOfChange(c) /\ IsSupported(c, from, to)
      /\ \/ \E s \in Seen(from, to, written, Opts) : IsChangeAt(c, from, to, s, written)
         \/ \E t \in Gone(from, to, Opts) : IsDeletionAt(c, from, t)
  BY <1>1, AllIs
<1>3. ASSUME NEW s \in Seen(from, to, written, Opts), IsChangeAt(c, from, to, s, written)
      PROVE  s \in Live(to) /\ Identity(c) = IdAt(to, s)
  <2>1. s \in Live(to)
    BY DEF Seen
  <2>2. c.entry = EntryAt(to, s) /\ EntryAt(to, s).id = IdAt(to, s) /\ EntryAt(to, s).id # NoId
    BY <1>1, <1>3, <2>1, EntryFields, EntryPlaces DEF IsChangeAt
  <2> QED
    BY <2>1, <2>2 DEF Identity
<1>4. ASSUME NEW t \in Gone(from, to, Opts), IsDeletionAt(c, from, t)
      PROVE  t \in Live(from) /\ Identity(c) = IdAt(from, t)
  <2>1. t \in Live(from)
    BY DEF Gone
  <2>2. c.entry = NoEntry /\ NoEntry.id = NoId /\ c.prev = EntryAt(from, t) /\ EntryAt(from, t).id = IdAt(from, t)
    BY <1>4, EntryFields, NoEntryFields DEF IsDeletionAt
  <2> QED
    BY <2>1, <2>2 DEF Identity
<1> QED
  BY <1>1, <1>2, <1>3, <1>4

\* Reported files have a path, an identity and ranges in normal form, and no
\* identity is reported twice.
LEMMA ReportedIsSound ==
  ASSUME NEW w, NEW i, NEW to, NEW from, NEW written, Told(w, i, to, from, written)
  PROVE  /\ \A f \in w.files : f.path # 0 /\ f.id # NoId /\ Normal(f.ranges)
         /\ \A c, d \in w.diff.changes : ReportedFile(c).id = ReportedFile(d).id => c = d
<1>1. ASSUME NEW c \in w.diff.changes
      PROVE  LET f == ReportedFile(c) IN f.path # 0 /\ f.id # NoId /\ Normal(f.ranges)
  <2>1. Met(to) /\ Met(from) /\ written \in Seq(SomeRange)
    BY ChangeTells DEF Told
  <2> DEFINE f == ReportedFile(c)
  <2>2. /\ f.id = Identity(c) /\ f.ranges = c.ranges
        /\ f.path = IF (IF c.entry.id # NoId THEN c.entry ELSE c.prev).path # 0
                      THEN (IF c.entry.id # NoId THEN c.entry ELSE c.prev).path
                      ELSE (IF c.entry.id # NoId THEN c.entry ELSE c.prev).name
    BY ReportedFields
  <2> HIDE DEF f
  <2>3. CASE \E s \in Seen(from, to, written, Opts) :
               s \in Live(to) /\ IsChangeAt(c, from, to, s, written) /\ Identity(c) = IdAt(to, s)
    <3>1. PICK s \in Live(to) : IsChangeAt(c, from, to, s, written) /\ Identity(c) = IdAt(to, s)
      BY <2>3
    <3>2. c.entry = EntryAt(to, s) /\ c.ranges = RangesAt(to, s, written)
      BY <3>1 DEF IsChangeAt
    <3>3. EntryAt(to, s).name # 0 /\ EntryAt(to, s).id # NoId /\ EntryAt(to, s).id = IdAt(to, s)
      BY <2>1, EntryPlaces, EntryFields
    <3>4. Normal(RangesAt(to, s, written))
      BY <2>1, ChangedWithinIs DEF RangesAt
    <3> QED
      BY <2>2, <3>1, <3>2, <3>3, <3>4 DEF f
  <2>4. CASE \E t \in Gone(from, to, Opts) :
               t \in Live(from) /\ IsDeletionAt(c, from, t) /\ Identity(c) = IdAt(from, t)
    <3>1. PICK t \in Live(from) : IsDeletionAt(c, from, t) /\ Identity(c) = IdAt(from, t)
      BY <2>4
    <3>2. c.entry = NoEntry /\ c.prev = EntryAt(from, t) /\ c.ranges = <<>> /\ NoEntry.id = NoId
      BY <3>1, NoEntryFields DEF IsDeletionAt
    <3>3. EntryAt(from, t).name # 0 /\ EntryAt(from, t).id # NoId /\ EntryAt(from, t).id = IdAt(from, t)
      BY <2>1, EntryPlaces, EntryFields
    <3>4. Normal(<<>>)
      BY DEF Normal
    <3> QED
      BY <2>2, <3>1, <3>2, <3>3, <3>4 DEF f
  <2> QED
    BY <2>3, <2>4, ChangeTells
<1>2. w.files = {ReportedFile(c) : c \in w.diff.changes}
  BY DEF Told
<1>3. ASSUME NEW c \in w.diff.changes, NEW d \in w.diff.changes, ReportedFile(c).id = ReportedFile(d).id
      PROVE  c = d
  <2>1. Identity(c) = Identity(d)
    BY <1>3, ReportedFields
  <2>2. Met(to) /\ Met(from) /\ from.kind = to.kind /\ c \in All(from, to, written, Opts) /\ d \in All(from, to, written, Opts)
    BY ChangeTells
  <2> QED
    BY <2>1, <2>2, AllIds
<1>4. \A f \in w.files : f.path # 0 /\ f.id # NoId /\ Normal(f.ranges)
  BY <1>1, <1>2
<1> QED
  BY <1>3, <1>4

\* The invariant gives TypeOK.
LEMMA TypeOKHolds ==
  ASSUME GuestInv
  PROVE  TypeOK
<1>1. ops \in 0..MaxOps /\ writes \subseteq 0..(Size - 1)
  BY DEF GuestInv
<1>2. Len(old) <= 1
  <2>1. old = <<>> \/ Len(old) = 1
    BY DEF GuestInv
  <2>2. CASE old = <<>>
    BY <2>2
  <2>3. CASE Len(old) = 1
    BY <2>3
  <2> QED
    BY <2>1, <2>2, <2>3
<1>3. Len(doc) <= 1
  <2>1. CASE doc = <<>>
    BY <2>1
  <2>2. CASE doc # <<>>
    <3>1. Len(doc) = 1
      BY <2>2, DocumentIs
    <3> QED
      BY <3>1
  <2> QED
    BY <2>1, <2>2
<1>4. ASSUME doc # <<>>
      PROVE  /\ Report.tier \in {"block", "file", "journal"}
             /\ \A w, x \in Report.volumes : w.base = x.base => w = x
             /\ \A w \in Report.volumes :
                  /\ \A f \in w.files : f.path # 0 /\ f.id # NoId /\ Normal(f.ranges)
                  /\ \A c, d \in w.diff.changes : ReportedFile(c).id = ReportedFile(d).id => c = d
  <2>1. Report.tier = IF Report.volumes = {} THEN "block" ELSE TierOf(Report.volumes)
    BY <1>4, DocumentIs
  <2>2. Report.tier \in {"block", "file", "journal"}
    BY <2>1 DEF TierOf
  <2>3. ASSUME NEW w \in Report.volumes, NEW x \in Report.volumes, w.base = x.base
        PROVE  w = x
    <3>1. PICK i \in DOMAIN vols, p \in Parts(Newer(Fault)) : p.base = vols[i].base /\ w = ReportOf(i, p)
      BY <1>4, DocumentIs
    <3>2. PICK j \in DOMAIN vols, q \in Parts(Newer(Fault)) : q.base = vols[j].base /\ x = ReportOf(j, q)
      BY <1>4, DocumentIs
    <3>3. ReportOf(i, p).base = p.base /\ ReportOf(j, q).base = q.base
      BY DEF ReportOf, ToReport, OpenedAs
    <3>4. p.base = q.base
      BY <2>3, <3>1, <3>2, <3>3
    <3>5. p = q
      BY <3>4, PartsAre
    <3>6. i = j
      BY <3>1, <3>2, <3>4 DEF GuestInv, SoundTable
    <3> QED
      BY <3>1, <3>2, <3>5, <3>6
  <2>4. ASSUME NEW w \in Report.volumes
        PROVE  /\ \A f \in w.files : f.path # 0 /\ f.id # NoId /\ Normal(f.ranges)
               /\ \A c, d \in w.diff.changes : ReportedFile(c).id = ReportedFile(d).id => c = d
    <3>1. PICK i, to, from, written : i \in DOMAIN vols /\ Told(w, i, to, from, written)
      BY <1>4, ReportTells
    <3> QED
      BY <3>1, ReportedIsSound
  <2> QED
    BY <2>2, <2>3, <2>4
<1> QED
  BY <1>1, <1>2, <1>3, <1>4 DEF TypeOK

\* What a document tells of a volume it tells of the guest's.
LEMMA ToldOfGuest ==
  ASSUME NEW w, NEW i, NEW to, NEW from, NEW written, Told(w, i, to, from, written)
  PROVE  LET v == vols[i]  was == old[1].vols[i] IN
         /\ SoundVolume(v) /\ SoundVolume(was) /\ Met(v) /\ Met(was) /\ Met(to) /\ Met(from)
         /\ v.kind = was.kind /\ from.kind = to.kind /\ to.kind = v.kind
         /\ LikeVolume(to, v) /\ LikeVolume(from, was)
         /\ Live(v) \subseteq Slots /\ Live(was) \subseteq Slots
<1>1. SoundVolume(vols[i]) /\ SoundVolume(old[1].vols[i]) /\ vols[i].kind = old[1].vols[i].kind
  BY DEF Told, VolumeInv, Alike
<1>2. ASSUME NEW v, SoundVolume(v)
      PROVE  Met(v)
  <2>1. v \in Volume
    BY <1>2 DEF SoundVolume
  <2>2. LikeVolume(v, v) /\ \A s \in Slots : v.files[s].lost \in BOOLEAN
    BY <2>1, LikeItself
  <2> QED
    BY <1>2, <2>2, LikeMet
<1>3. /\ Met(to) /\ LikeVolume(to, vols[i]) /\ Met(from) /\ LikeVolume(from, old[1].vols[i]) /\ from.kind = to.kind
  BY DEF Told, MetNow, MetThen
<1>4. to.kind = vols[i].kind
  BY <1>3 DEF LikeVolume
<1>5. Met(vols[i]) /\ Met(old[1].vols[i])
  BY <1>1, <1>2
<1>6. Live(vols[i]) \subseteq Slots /\ Live(old[1].vols[i]) \subseteq Slots
  BY <1>5, InventoryIs
<1> QED
  BY <1>1, <1>3, <1>4, <1>5, <1>6

\* A file's identity is that of the file.
LEMMA IdIsOf ==
  ASSUME NEW v, Met(v), NEW s \in Live(v)
  PROVE  IsOf(v, s, IdAt(v, s))
<1>1. EntryAt(v, s) \in Inventory(v) /\ v.files[s].live
  BY InventoryIs DEF Live
<1>2. /\ EntryAt(v, s).id = IdAt(v, s) /\ EntryAt(v, s).name = v.files[s].name /\ EntryAt(v, s).parent = ParentAt(v, s)
  BY EntryFields
<1>3. ParentAt(v, s).num = ParentNumber(v, v.files[s].dir)
  BY DEF ParentAt, ParentNumber, Packed, ID
<1> QED
  BY <1>1, <1>2, <1>3 DEF IsOf

\* A unit in which a byte of a file was written.
LEMMA TouchedLies ==
  ASSUME NEW v, NEW g, VolumeInv(v, writes, g), NEW s \in Slots, NEW b \in Touched(v.files[s])
  PROVE  b \in Nat /\ \E u \in UnitsOf(v.files[s], b) : u \in writes \cap Room(v)
<1> DEFINE f == v.files[s]
<1>1. f \in File /\ SoundFile(v, s)
  BY VolumeFields DEF VolumeInv, SoundVolume
<1>2. f.dirty \in SUBSET Nat /\ f.forkDirty \in BOOLEAN
  BY <1>1, FileFields
<1>3. /\ \A x \in f.dirty : x + 1 \in DOMAIN f.map /\ f.map[x + 1] # 0 /\ f.map[x + 1] \in writes
      /\ f.forkDirty => f.fork # 0 /\ f.fork \in writes
  BY DEF VolumeInv, Written
<1>4. /\ \A k \in DOMAIN f.map : f.map[k] \in Room(v) \/ f.map[k] = 0
      /\ f.fork = 0 \/ f.fork \in Room(v)
  BY <1>1 DEF SoundFile
<1>5. b \in f.dirty \/ (f.forkDirty /\ b = 0)
  BY DEF Touched
<1> HIDE DEF f
<1>6. CASE b \in f.dirty
  <2>1. b + 1 \in DOMAIN f.map /\ f.map[b + 1] # 0 /\ f.map[b + 1] \in writes /\ f.map[b + 1] \in Room(v)
    BY <1>3, <1>4, <1>6
  <2>2. f.map[b + 1] \in UnitsOf(f, b)
    BY <2>1 DEF UnitsOf
  <2> QED
    BY <1>2, <1>6, <2>1, <2>2 DEF f
<1>7. CASE f.forkDirty /\ b = 0
  <2>1. f.fork # 0 /\ f.fork \in writes /\ f.fork \in Room(v)
    BY <1>3, <1>4, <1>7
  <2>2. f.fork \in UnitsOf(f, b)
    BY <1>7, <2>1 DEF UnitsOf
  <2> QED
    BY <1>7, <2>1, <2>2 DEF f
<1> QED
  BY <1>5, <1>6, <1>7

\* The invariant gives RangesCoverWrites: what the guest wrote of a file lies in
\* units that were reported, the file's map leads from them to the bytes, and back.
LEMMA RangesCoverWritesHolds ==
  ASSUME GuestInv
  PROVE  RangesCoverWrites
<1> SUFFICES ASSUME doc # <<>>, NEW w \in Report.volumes
             PROVE  LET v == VolAt(w.base)
                    IN  /\ \A s \in Live(v) :
                             Touched(v.files[s]) # {} /\ Wanted(v.files[s], Opts) /\ Complete(w) /\ ~MapLost(w, s)
                               => \E f \in w.files : /\ IsOf(v, s, f.id) /\ f.change # "deleted"
                                                     /\ Touched(v.files[s]) \subseteq AllBytes(f.ranges)
                        /\ \A f \in w.files : \A b \in AllBytes(f.ranges) :
                             \E s \in Live(v) : IsOf(v, s, f.id) /\ UnitsOf(v.files[s], b) \cap ReportedUnits # {}
  BY DEF RangesCoverWrites
<1>1. PICK i, to, from, written : i \in DOMAIN vols /\ Told(w, i, to, from, written)
  BY ReportTells
<1> DEFINE v == vols[i]
<1>2. /\ SoundVolume(v) /\ Met(v) /\ Met(to) /\ Met(from) /\ from.kind = to.kind /\ to.kind = v.kind /\ LikeVolume(to, v)
      /\ Live(v) \subseteq Slots
  BY <1>1, ToldOfGuest
<1>3. /\ VolAt(w.base) = v /\ w.base = v.base /\ w.files = {ReportedFile(c) : c \in w.diff.changes}
      /\ VolumeInv(v, writes, nextUid) /\ MetNow(to, v, i, Fault) /\ written \in Seq(SomeRange)
      /\ \A u \in AllBytes(written) : u \in ReportedUnits
      /\ \A u \in writes \cap Room(v) : u \in AllBytes(written)
      /\ Complete(w) => w.diff.changes = All(from, to, written, Opts)
  BY <1>1 DEF Told
<1> HIDE DEF v
<1>4. /\ Live(to) = Live(v)
      /\ \A s \in Slots : /\ IdAt(to, s) = IdAt(v, s)
                          /\ Wanted(to.files[s], Opts) <=> Wanted(v.files[s], Opts)
                          /\ \A b : UnitsOf(to.files[s], b) = UnitsOf(v.files[s], b)
  BY <1>2, LikeTells
<1>5. AllBytes(<<>>) = {}
  BY DEF AllBytes
<1>6. ASSUME NEW s \in Live(v), Touched(v.files[s]) # {}, Wanted(v.files[s], Opts), Complete(w), ~MapLost(w, s)
      PROVE  \E f \in w.files : /\ IsOf(v, s, f.id) /\ f.change # "deleted"
                                /\ Touched(v.files[s]) \subseteq AllBytes(f.ranges)
  <2>1. s \in Slots /\ s \in Live(to)
    BY <1>2, <1>4
  <2>2. to.files[s].lost = FALSE
    <3>1. ~(Fault = "map lost" /\ i = 1 /\ s = 1)
      BY <1>3, <1>6 DEF MapLost, v
    <3> QED
      BY <1>3, <2>1, <3>1 DEF MetNow
  <2>3. ~Lost(to, s)
    BY <2>2 DEF Lost
  <2>4. Touched(v.files[s]) \subseteq AllBytes(RangesAt(to, s, written))
    <3>1. \A b \in Nat : UnitsOf(to.files[s], b) \cap AllBytes(written) # {} => b \in AllBytes(RangesAt(to, s, written))
      BY <1>2, <1>3, <2>1, <2>2, ChangedWithinIs DEF RangesAt
    <3>2. ASSUME NEW b \in Touched(v.files[s])
          PROVE  b \in Nat /\ UnitsOf(to.files[s], b) \cap AllBytes(written) # {}
      <4>1. b \in Nat /\ \E u \in UnitsOf(v.files[s], b) : u \in writes \cap Room(v)
        BY <1>3, <2>1, TouchedLies
      <4> QED
        BY <1>3, <1>4, <2>1, <4>1
    <3> QED
      BY <3>1, <3>2
  <2>5. RangesAt(to, s, written) # <<>>
    BY <1>5, <1>6, <2>4
  <2>6. s \in Seen(from, to, written, Opts)
    BY <1>4, <1>6, <2>1, <2>3, <2>5 DEF Seen
  <2>7. PICK c \in All(from, to, written, Opts) : IsChangeAt(c, from, to, s, written)
    BY <1>2, <2>6, AllHas
  <2>8. c \in w.diff.changes
    BY <1>3, <1>6
  <2>9. /\ c.entry = EntryAt(to, s) /\ c.ranges = RangesAt(to, s, written) /\ c.kind # "deleted"
    BY <2>7 DEF IsChangeAt, KindAt
  <2>10. EntryAt(to, s).id = IdAt(v, s) /\ EntryAt(to, s).id # NoId
    <3>1. EntryAt(to, s).id = IdAt(to, s)
      BY EntryFields
    <3> QED
      BY <1>2, <1>4, <2>1, <3>1, EntryPlaces
  <2>11. Identity(c) = IdAt(v, s)
    BY <2>9, <2>10 DEF Identity
  <2>12. ReportedFile(c).id = IdAt(v, s) /\ ReportedFile(c).ranges = RangesAt(to, s, written)
         /\ ReportedFile(c).change # "deleted"
    BY <2>9, <2>11, ReportedFields
  <2>13. IsOf(v, s, IdAt(v, s))
    BY <1>2, IdIsOf
  <2>14. ReportedFile(c) \in w.files
    BY <1>3, <2>8
  <2> QED
    BY <2>4, <2>12, <2>13, <2>14
<1>7. ASSUME NEW f \in w.files, NEW b \in AllBytes(f.ranges)
      PROVE  \E s \in Live(v) : IsOf(v, s, f.id) /\ UnitsOf(v.files[s], b) \cap ReportedUnits # {}
  <2>1. PICK c \in w.diff.changes : f = ReportedFile(c)
    BY <1>3
  <2>2. f.id = Identity(c) /\ f.ranges = c.ranges
    BY <2>1, ReportedFields
  <2>3. CASE \E s \in Seen(from, to, written, Opts) :
               s \in Live(to) /\ IsChangeAt(c, from, to, s, written) /\ Identity(c) = IdAt(to, s)
    <3>1. PICK s \in Seen(from, to, written, Opts) :
            s \in Live(to) /\ IsChangeAt(c, from, to, s, written) /\ Identity(c) = IdAt(to, s)
      BY <2>3
    <3>2. s \in Live(v) /\ s \in Slots /\ ~Lost(to, s)
      BY <1>2, <1>4, <3>1 DEF Seen
    <3>3. c.ranges = RangesAt(to, s, written)
      BY <3>1 DEF IsChangeAt
    <3>4. \A x \in AllBytes(RangesAt(to, s, written)) : UnitsOf(to.files[s], x) \cap AllBytes(written) # {}
      <4>1. ~(to.files[s].lost /\ to.kind # "ntfs")
        BY <3>2 DEF Lost
      <4>2. \A x \in AllBytes(ChangedWithin(to, IdAt(to, s), written).ranges) :
              UnitsOf(to.files[s], x) \cap AllBytes(written) # {}
        <5> DEFINE r == ChangedWithin(to, IdAt(to, s), written).ranges
        <5>1. ~(to.files[s].lost /\ to.kind # "ntfs") =>
                \A x \in AllBytes(r) : x \in Nat /\ UnitsOf(to.files[s], x) \cap AllBytes(written) # {}
          BY <1>2, <1>3, <3>1, ChangedWithinIs
        <5> HIDE DEF r
        <5>2. \A x \in AllBytes(r) : x \in Nat /\ UnitsOf(to.files[s], x) \cap AllBytes(written) # {}
          BY <4>1, <5>1
        <5> QED
          BY <5>2 DEF r
      <4> QED
        BY <4>2 DEF RangesAt
    <3>5. UnitsOf(v.files[s], b) \cap AllBytes(written) # {}
      BY <1>4, <1>7, <2>2, <3>2, <3>3, <3>4
    <3>6. UnitsOf(v.files[s], b) \cap ReportedUnits # {}
      BY <1>3, <3>5
    <3>7. IsOf(v, s, f.id)
      BY <1>2, <1>4, <2>2, <3>1, <3>2, IdIsOf
    <3> QED
      BY <3>2, <3>6, <3>7
  <2>4. CASE \E t \in Gone(from, to, Opts) :
               t \in Live(from) /\ IsDeletionAt(c, from, t) /\ Identity(c) = IdAt(from, t)
    <3>1. c.ranges = <<>>
      BY <2>4 DEF IsDeletionAt
    <3> QED
      BY <1>5, <1>7, <2>2, <3>1
  <2> QED
    BY <1>1, <2>3, <2>4, ChangeTells
<1> QED
  BY <1>3, <1>6, <1>7

\* A volume on which something differs was written to.
LEMMA DiffersIsWritten ==
  ASSUME GuestInv, old # <<>>, NEW i \in DOMAIN vols, Differs(vols[i], old[1].vols[i])
  PROVE  writes \cap Room(vols[i]) # {}
<1> DEFINE v == vols[i]
           was == old[1].vols[i]
<1>1. Since(v, was) /\ (v # was => writes \cap Room(v) # {})
  BY DEF GuestInv
<1>2. Differs(v, was)
  OBVIOUS
<1> HIDE DEF v, was
<1>3. \A s \in Slots : was.files[s].dirty = {} /\ was.files[s].forkDirty = FALSE
  BY <1>1 DEF Since
<1>4. v # was
  BY <1>2, <1>3 DEF Differs, Moved
<1> QED
  BY <1>1, <1>4 DEF v

\* Each fault leaves one thing unread.
LEMMA UnreadTells ==
  ASSUME NEW fault
  PROVE  /\ "walk" \in UnreadThen(fault) <=> fault = "older walk failed"
         /\ "position" \in UnreadThen(fault) <=> fault = "older journal unread"
         /\ "walk" \in UnreadNow(fault) <=> fault = "newer walk failed"
         /\ "position" \in UnreadNow(fault) <=> fault = "newer journal unread"
         /\ "renames" \in UnreadNow(fault) <=> fault = "journal unread"
<1>1. "walk" \in UnreadThen(fault) <=> fault = "older walk failed"
  BY DEF UnreadThen
<1>2. "position" \in UnreadThen(fault) <=> fault = "older journal unread"
  BY DEF UnreadThen
<1>3. "walk" \in UnreadNow(fault) <=> fault = "newer walk failed"
  BY DEF UnreadNow
<1>4. "position" \in UnreadNow(fault) <=> fault = "newer journal unread"
  BY DEF UnreadNow
<1>5. "renames" \in UnreadNow(fault) <=> fault = "journal unread"
  BY DEF UnreadNow
<1> QED
  BY <1>1, <1>2, <1>3, <1>4, <1>5

\* A walk that fails is warned of, on the state it failed on.
LEMMA FailedWalkIsTold ==
  ASSUME GuestInv, doc # <<>>, Fault \in FailedWalks, ~Opts.skipVolumes,
         Differs(vols[1], old[1].vols[1])
  PROVE  Warning(Fault, vols[1].base) \in Report.warnings
<1> DEFINE older == Older(Fault)
           newer == Newer(Fault)
           chain == ChainOf(Fault)
           index == IndexOf(Fault)
           was   == OpenVolumes(older)
           new   == OpenVolumes(newer)
           cmp   == CompareVolumes(older, newer, ChangedRanges, Opts)
           from  == older.vols[1]
           to    == newer.vols[1]
<1>1. old # <<>> /\ Opts.maxFiles \in Nat /\ Opts.allowMismatch \in BOOLEAN
  BY DocumentIs
<1>2. Report = CompareDisks(older, newer, chain, index, ChangedExtents, Opts)
  <2>1. PICK c \in Cases : doc = Document(c)
    BY DEF GuestInv
  <2>2. doc[1] = [case |-> c, was |-> CompareDisks(Older(c.fault), Newer(c.fault), ChainOf(c.fault),
                                                   IndexOf(c.fault), ChangedExtents, c.opts)]
    BY <2>1 DEF Document
  <2>3. Fault = c.fault /\ Opts = c.opts
    BY <2>2 DEF Fault, Opts
  <2> QED
    BY <2>2, <2>3 DEF Report
<1>3. Fault \notin {"older unnamed", "older gone", "index beyond", "partition removed", "partition new"}
  BY DEF FailedWalks
<1>4. OlderOpens(chain, index)
  <2>1. chain = <<[path |-> 1, opens |-> TRUE], [path |-> 2, opens |-> TRUE]>> /\ index = 1
    BY <1>3 DEF ChainOf, IndexOf
  <2> HIDE DEF chain, index
  <2> QED
    BY <2>1 DEF OlderOpens
<1>5. Report.warnings = cmp.notes
  <2>1. CompareDisks(older, newer, chain, index, ChangedExtents, Opts) = WithVolumes(Change(ChangedExtents), cmp)
    <3> HIDE DEF older, newer, chain, index
    <3> QED
      BY <1>4 DEF CompareDisks, ChangedRanges
  <2> HIDE DEF cmp
  <2>2. Report = [Change(ChangedExtents) EXCEPT !.volumes = cmp.volumes, !.warnings = cmp.notes,
                                                !.tier = IF cmp.volumes = {} THEN @ ELSE TierOf(cmp.volumes)]
    BY <1>2, <2>1 DEF WithVolumes
  <2>3. Change(ChangedExtents) = [tier |-> "block", extents |-> ChangedExtents, volumes |-> {}, warnings |-> {}]
    BY DEF Change
  <2> QED
    BY <2>2, <2>3
<1>6. /\ DOMAIN newer.vols = DOMAIN vols /\ Apart(newer) /\ 1 \in DOMAIN vols
      /\ \A i \in DOMAIN vols : newer.vols[i].base = vols[i].base
      /\ MetNow(to, vols[1], 1, Fault)
  <2>1. /\ DOMAIN newer.vols = DOMAIN vols /\ Apart(newer)
        /\ \A i \in DOMAIN vols : MetNow(newer.vols[i], vols[i], i, Fault)
    BY NewerIs
  <2>2. 1 \in DOMAIN vols
    BY DEF GuestInv
  <2> HIDE DEF newer
  <2> QED
    BY <2>1, <2>2 DEF MetNow, LikeVolume
<1>7. /\ DOMAIN older.vols = DOMAIN vols /\ Apart(older)
      /\ \A i \in DOMAIN vols : older.vols[i].base = vols[i].base
      /\ MetThen(from, old[1].vols[1], 1, Fault)
  <2>1. /\ DOMAIN older.vols = DOMAIN vols /\ Apart(older)
        /\ \A i \in DOMAIN vols : MetThen(older.vols[i], old[1].vols[i], i, Fault)
    BY <1>1, OlderIs
  <2>2. \A i \in DOMAIN vols : old[1].vols[i].base = vols[i].base
    BY <1>1 DEF GuestInv, Alike
  <2> HIDE DEF older
  <2> QED
    BY <1>6, <2>1, <2>2 DEF MetThen, LikeVolume
<1>8. Alike(vols[1], old[1].vols[1])
  BY <1>1, <1>6 DEF GuestInv
<1>9. /\ Met(from) /\ Met(to) /\ from.kind = to.kind /\ from.serial = to.serial
      /\ from.readable = TRUE /\ to.readable = TRUE
      /\ from.unread = UnreadThen(Fault) /\ to.unread = UnreadNow(Fault)
  <2> HIDE DEF from, to
  <2> QED
    BY <1>6, <1>7, <1>8 DEF MetNow, MetThen, Alike, LikeVolume
<1>10. Parts(older) = Parts(newer)
  <2>1. older.table = old[1].table /\ newer.table = table
    BY <1>3 DEF Older, Newer
  <2>2. old[1].table = table
    <3>1. old = <<[vols |-> old[1].vols, table |-> table]>>
      BY <1>1 DEF GuestInv
    <3> QED
      BY <3>1
  <2> HIDE DEF older, newer
  <2> QED
    BY <2>1, <2>2 DEF Parts, Partitions
<1>11. PICK p \in Parts(newer) : p.base = vols[1].base
  BY <1>3, <1>6, PartsAre
<1>12. Inside(p) \in SUBSET SomeRange /\ IsFiniteSet(Inside(p)) /\ Inside(p) # {}
  <2>1. Span(p) \in Ranges /\ Room(vols[1]) \subseteq Bytes(Span(p))
    BY <1>6, <1>11, PartsAre
  <2>2. writes \cap Room(vols[1]) # {}
    BY <1>1, <1>6, DiffersIsWritten
  <2> QED
    BY <1>6, <2>1, <2>2, InsideIs, InsideSome
<1> DEFINE x    == OpenedAs(newer, 1, p)
           diff == Diff(from, to, Inside(p), Opts)
<1>13. /\ x \in new.vols
       /\ \E y \in was.vols : y.base = p.base
       /\ \A y \in was.vols : y.base = p.base => y.fs = from
  <2>1. \A i, q : OpenedAs(older, i, q).base = q.base /\ OpenedAs(older, i, q).fs = older.vols[i]
    BY DEF OpenedAs
  <2>2. \A i, j \in DOMAIN vols : vols[i].base = vols[j].base => i = j
    BY DEF GuestInv, SoundTable
  <2> HIDE DEF older, newer
  <2>3. x \in new.vols
    BY <1>6, <1>9, <1>11, OpensWhatIsThere
  <2>4. OpenedAs(older, 1, p) \in was.vols
    BY <1>6, <1>7, <1>9, <1>10, <1>11, OpensWhatIsThere
  <2>5. ASSUME NEW y \in was.vols, y.base = p.base
        PROVE  y.fs = from
    <3>1. PICK i \in DOMAIN older.vols, q \in Parts(older) :
            older.vols[i].base = q.base /\ y = OpenedAs(older, i, q)
      BY <1>7, OpensWhatIsThere
    <3>2. i = 1
      BY <1>6, <1>7, <1>11, <2>1, <2>2, <2>5, <3>1
    <3> QED
      BY <2>1, <3>1, <3>2
  <2> QED
    BY <2>1, <2>3, <2>4, <2>5
<1>14. diff.ok = FALSE /\ diff.why = Fault
  <2>1. WalkFails(from) <=> Fault = "older walk failed"
    BY <1>9, UnreadTells DEF WalkFails
  <2>2. WalkFails(to) <=> Fault = "newer walk failed"
    BY <1>9, UnreadTells DEF WalkFails
  <2>3. Fault = "older walk failed" \/ Fault = "newer walk failed"
    BY DEF FailedWalks
  <2>4. "older walk failed" # "newer walk failed"
    OBVIOUS
  <2> HIDE DEF from, to
  <2> DEFINE opts == Opts
  <2>5. opts.maxFiles \in Nat /\ opts.allowMismatch \in BOOLEAN
    BY <1>1
  <2> HIDE DEF opts
  <2>6. LET d == Diff(from, to, Inside(p), opts)
        IN  /\ WalkFails(from) => d.ok = FALSE /\ d.why = "older walk failed"
            /\ ~WalkFails(from) /\ WalkFails(to) => d.ok = FALSE /\ d.why = "newer walk failed"
    BY <1>9, <1>12, <2>5, DiffIs
  <2> QED
    BY <2>1, <2>2, <2>3, <2>4, <2>6 DEF opts
<1>15. x.base = vols[1].base /\ x.fs = to /\ Clip(ChangedRanges, Span(x)) = Inside(p)
  BY <1>11 DEF OpenedAs, Span, Inside
<1> DEFINE one == Compared(x, was.vols, Clip(ChangedRanges, Span(x)), Opts)
<1>16. Warning(Fault, vols[1].base) \in one.notes
  <2> HIDE DEF x, was, from, to
  <2>1. /\ \E y \in was.vols : y.base = x.base
        /\ \A y \in was.vols : y.base = x.base => y.fs = from
        /\ Diff(from, x.fs, Inside(p), Opts) = diff
    BY <1>11, <1>13, <1>15
  <2> HIDE DEF diff
  <2>2. Warning(Diff(from, x.fs, Inside(p), Opts).why, x.base) \in Compared(x, was.vols, Inside(p), Opts).notes
    BY <1>12, <1>14, <2>1, ComparedRefused
  <2> QED
    BY <1>14, <1>15, <2>1, <2>2
<1>17. one.notes \subseteq cmp.notes
  <2> DEFINE all == {Compared(z, was.vols, Clip(ChangedRanges, Span(z)), Opts) : z \in new.vols}
  <2>1. one \in all
    BY <1>13
  <2> HIDE DEF one, was, new
  <2>2. cmp = CompareOpened(was, new, ChangedRanges, Opts)
    BY DEF CompareVolumes, was, new
  <2>3. cmp = Gathered(new, was, all)
    BY <1>13, <2>2 DEF CompareOpened
  <2> HIDE DEF all, cmp
  <2>4. UNION {c.notes : c \in all} \subseteq cmp.notes
    BY <2>3 DEF Gathered
  <2> QED
    BY <2>1, <2>4
<1> QED
  BY <1>5, <1>16, <1>17

\* What is noted of the first volume.
LEMMA NotesOfFirst ==
  ASSUME GuestInv, doc # <<>>, NEW w \in Report.volumes, w.base = vols[1].base
  PROVE  /\ Fault = "map lost" /\ vols[1].files[1].live /\ Wanted(vols[1].files[1], Opts) /\ vols[1].kind # "ntfs"
              => \E x \in w.notes : x.what = "map unreadable"
         /\ Fault = "other serial" => \E x \in w.notes : x.what = "identity differs"
         /\ \A what \in FailedJournals : (Note(what, NoId) \in w.notes) = (Fault = what /\ vols[1].kind = "ntfs")
         /\ Fault \in FailedJournals => \A c \in w.diff.changes : c.evidence = <<>>
<1>1. PICK i, to, from, written : i \in DOMAIN vols /\ Told(w, i, to, from, written)
  BY ReportTells
<1>2. i = 1
  <2>1. 1 \in DOMAIN vols /\ \A j, k \in DOMAIN vols : vols[j].base = vols[k].base => j = k
    BY DEF GuestInv, SoundTable
  <2>2. w.base = vols[i].base
    BY <1>1 DEF Told
  <2> QED
    BY <1>1, <2>1, <2>2
<1> DEFINE v == vols[1]
           was == old[1].vols[1]
<1>3. /\ SoundVolume(v) /\ SoundVolume(was) /\ Met(v) /\ Met(to) /\ LikeVolume(to, v) /\ to.kind = v.kind
      /\ Live(v) \subseteq Slots
  BY <1>1, <1>2, ToldOfGuest
<1>4. /\ MetNow(to, v, 1, Fault) /\ MetThen(from, was, 1, Fault) /\ Alike(v, was)
      /\ \A s \in Live(to) : Lost(to, s) /\ Wanted(to.files[s], Opts)
           => Note("map unreadable", IdAt(to, s)) \in w.notes
      /\ from.serial # 0 /\ to.serial # 0 /\ from.serial # to.serial
           => Note("identity differs", NoId) \in w.notes
      /\ \A what \in FailedJournals : Note(what, NoId) \in w.notes <=> Note(what, NoId) \in Evidence(from, to).notes
      /\ from.kind = to.kind
  BY <1>1, <1>2 DEF Told
<1>0. \A c \in w.diff.changes : IsSupported(c, from, to)
  BY <1>1, ChangeTells
<1> HIDE DEF v, was
<1>5. \A what, id : Note(what, id).what = what
  BY DEF Note
<1>6. ASSUME Fault = "map lost", v.files[1].live, Wanted(v.files[1], Opts), v.kind # "ntfs"
      PROVE  \E x \in w.notes : x.what = "map unreadable"
  <2>1. 1 \in Slots
    BY SlotBounds
  <2>2. Live(to) = Live(v) /\ (Wanted(to.files[1], Opts) <=> Wanted(v.files[1], Opts))
    BY <1>3, <2>1, LikeTells
  <2>3. 1 \in Live(to)
    BY <1>3, <1>6, <2>1, <2>2 DEF Live, Met
  <2>4. to.files[1].lost = TRUE
    BY <1>4, <1>6, <2>1 DEF MetNow
  <2>5. Lost(to, 1)
    BY <1>3, <1>6, <2>4 DEF Lost
  <2>6. Note("map unreadable", IdAt(to, 1)) \in w.notes
    BY <1>4, <1>6, <2>2, <2>3, <2>5
  <2> QED
    BY <1>5, <2>6
<1>7. ASSUME Fault = "other serial"
      PROVE  \E x \in w.notes : x.what = "identity differs"
  <2>1. to.serial = v.serial /\ from.serial = was.serial + 1 /\ v.serial = was.serial
    BY <1>4, <1>7 DEF MetNow, MetThen, Alike
  <2>2. was.serial \in Nat /\ was.serial # 0
    BY <1>3, VolumeFields DEF SoundVolume
  <2>3. from.serial # 0 /\ to.serial # 0 /\ from.serial # to.serial
    BY <2>1, <2>2
  <2> QED
    BY <1>4, <1>5, <2>3
<1>8. /\ VolumeStateFails(from) <=> Fault = "older journal unread"
      /\ VolumeStateFails(to) <=> Fault = "newer journal unread"
      /\ RenamesFail(to) <=> Fault = "journal unread"
  <2>1. from.unread = UnreadThen(Fault) /\ to.unread = UnreadNow(Fault)
    BY <1>4 DEF MetNow, MetThen
  <2> QED
    BY <2>1, UnreadTells DEF VolumeStateFails, RenamesFail
<1>9. /\ HasJournal(to) <=> v.kind = "ntfs"
      /\ HasJournal(from) <=> v.kind = "ntfs"
  BY <1>3, <1>4 DEF HasJournal
<1>10. /\ "older journal unread" # "newer journal unread" /\ "older journal unread" # "journal unread"
       /\ "newer journal unread" # "journal unread"
  OBVIOUS
<1>11. ASSUME NEW what \in FailedJournals
       PROVE  (Note(what, NoId) \in w.notes) <=> (Fault = what /\ v.kind = "ntfs")
  <2>1. what \in {"older journal unread", "newer journal unread", "journal unread"}
    BY DEF FailedJournals
  <2>2. CASE what = "older journal unread"
    BY <1>4, <1>8, <1>9, <2>2, EvidenceIs
  <2>3. CASE what = "newer journal unread"
    BY <1>4, <1>8, <1>9, <1>10, <2>3, EvidenceIs
  <2>4. CASE what = "journal unread"
    BY <1>4, <1>8, <1>9, <1>10, <2>4, EvidenceIs
  <2> QED
    BY <2>1, <2>2, <2>3, <2>4
<1>12. ASSUME Fault \in FailedJournals, NEW c \in w.diff.changes
       PROVE  c.evidence = <<>>
  <2>1. ~JournalRead(from, to)
    BY <1>8, <1>12 DEF JournalRead, FailedJournals
  <2> QED
    BY <1>0, <2>1 DEF IsSupported
<1>13. ASSUME NEW what \in FailedJournals
       PROVE  (Note(what, NoId) \in w.notes) = (Fault = what /\ v.kind = "ntfs")
  BY <1>11
<1>14. \A what \in FailedJournals : (Note(what, NoId) \in w.notes) = (Fault = what /\ v.kind = "ntfs")
  BY <1>13, Zenon
<1> QED
  BY <1>6, <1>7, <1>12, <1>14, Zenon DEF v

\* The tier says what the document holds.
LEMMA TierTells ==
  ASSUME GuestInv, doc # <<>>
  PROVE  /\ (Report.tier = "block") = (Report.volumes = {})
         /\ (Report.tier = "journal") = (\E w \in Report.volumes : \E c \in w.diff.changes : c.evidence # <<>>)
<1>1. Report.tier = IF Report.volumes = {} THEN "block" ELSE TierOf(Report.volumes)
  BY DocumentIs
<1>2. TierOf(Report.volumes) = IF \E w \in Report.volumes : \E f \in w.files : f.confidence = "proven"
                                 THEN "journal" ELSE "file"
  BY DEF TierOf
<1>3. ASSUME NEW w \in Report.volumes
      PROVE  (\E f \in w.files : f.confidence = "proven") <=> (\E c \in w.diff.changes : c.evidence # <<>>)
  <2>1. PICK i, to, from, written : i \in DOMAIN vols /\ Told(w, i, to, from, written)
    BY ReportTells
  <2>2. \A c \in w.diff.changes : IsSupported(c, from, to)
    BY <2>1, ChangeTells
  <2>3. \A v : Base(v) # "proven"
    BY DEF Base, Confidence
  <2>4. \A c \in w.diff.changes : c.confidence = "proven" <=> c.evidence # <<>>
    BY <2>2, <2>3 DEF IsSupported
  <2>5. w.files = {ReportedFile(c) : c \in w.diff.changes}
    BY <2>1 DEF Told
  <2>6. \A c : ReportedFile(c).confidence = c.confidence
    BY ReportedFields
  <2> QED
    BY <2>4, <2>5, <2>6
<1>4. (Report.tier = "journal") <=> (\E w \in Report.volumes : \E c \in w.diff.changes : c.evidence # <<>>)
  BY <1>1, <1>2, <1>3
<1>5. (Report.tier = "block") <=> (Report.volumes = {})
  BY <1>1, <1>2
<1> QED
  BY <1>4, <1>5

\* The invariant gives NothingSilent.
LEMMA NothingSilentHolds ==
  ASSUME GuestInv
  PROVE  NothingSilent
<1> SUFFICES ASSUME doc # <<>> PROVE NothingSilent
  BY DEF NothingSilent
<1>1. old # <<>>
  BY DocumentIs
<1>2. ASSUME NEW i \in DOMAIN vols, Differs(vols[i], old[1].vols[i])
      PROVE  \/ \E w \in Report.volumes : w.base = vols[i].base
             \/ \E x \in Report.warnings : x.at = vols[i].base \/ x.what = "older state unavailable"
             \/ Opts.skipVolumes \/ (Fault = "partition removed" /\ i = 1)
  <2> SUFFICES ASSUME ~Opts.skipVolumes, ~(Fault = "partition removed" /\ i = 1),
                      ~(\E x \in Report.warnings : x.what = "older state unavailable")
               PROVE  \/ \E w \in Report.volumes : w.base = vols[i].base
                      \/ \E x \in Report.warnings : x.at = vols[i].base
    OBVIOUS
  <2>1. PICK p \in Parts(Newer(Fault)) : p.base = vols[i].base
    BY PartsAre
  <2>2. Span(p) \in Ranges /\ Room(vols[i]) \subseteq Bytes(Span(p))
    BY <2>1, PartsAre
  <2>3. writes \cap Room(vols[i]) # {}
    BY <1>1, <1>2, DiffersIsWritten
  <2>4. Inside(p) # {}
    BY <2>2, <2>3, InsideSome
  <2>5. \/ Opts.skipVolumes
        \/ \E x \in Report.warnings : x.what = "older state unavailable"
        \/ \A j \in DOMAIN vols, q \in Parts(Newer(Fault)) : q.base = vols[j].base /\ Inside(q) # {} =>
             \/ \E w \in Report.volumes : w.base = vols[j].base
             \/ \E x \in Report.warnings : x.at = vols[j].base
    BY DocumentIs
  <2> QED
    BY <2>1, <2>4, <2>5
<1>3. \A w \in Report.volumes : w.base = vols[1].base =>
         /\ Fault = "map lost" /\ vols[1].files[1].live /\ Wanted(vols[1].files[1], Opts) /\ vols[1].kind # "ntfs"
              => \E x \in w.notes : x.what = "map unreadable"
         /\ Fault = "other serial" => \E x \in w.notes : x.what = "identity differs"
         /\ \A what \in FailedJournals : (Note(what, NoId) \in w.notes) = (Fault = what /\ vols[1].kind = "ntfs")
         /\ Fault \in FailedJournals => \A c \in w.diff.changes : c.evidence = <<>>
  BY NotesOfFirst
<1>4. Fault \in FailedWalks /\ Differs(vols[1], old[1].vols[1]) /\ ~Opts.skipVolumes
        => Warning(Fault, vols[1].base) \in Report.warnings
  BY FailedWalkIsTold
<1> QED
  BY <1>2, <1>3, <1>4, TierTells DEF NothingSilent

-----------------------------------------------------------------------------
(* Where identities are kept.                                               *)

\* Only NTFS, ext and XFS keep identities.
LEMMA CapsAre ==
  ASSUME NEW v, v.kind \in Kinds
  PROVE  /\ v.kind \in {"ntfs", "ext", "xfs"} => Capabilities(v).stable = TRUE /\ Capabilities(v).counter = TRUE
         /\ v.kind \in {"hfs", "fat", "exfat"} => Capabilities(v).stable = FALSE /\ Capabilities(v).counter = FALSE
         /\ v.kind \in {"ntfs", "ext", "xfs"} \/ v.kind \in {"hfs", "fat", "exfat"}
<1>1. v.kind \in {"ntfs", "ext", "xfs", "hfs", "fat", "exfat"}
  BY DEF Kinds, HaveHoles, HaveForks
<1> DEFINE all  == Caps(TRUE, TRUE, TRUE)
           most == Caps(TRUE, TRUE, FALSE)
           none == Caps(FALSE, FALSE, FALSE)
<1>2. /\ all.stable = TRUE /\ all.counter = TRUE /\ most.stable = TRUE /\ most.counter = TRUE
      /\ none.stable = FALSE /\ none.counter = FALSE
  BY DEF Caps
<1>3. /\ v.kind = "ntfs" => Capabilities(v) = all
      /\ v.kind \in {"ext", "xfs"} => Capabilities(v) = most
      /\ v.kind \in {"hfs", "fat", "exfat"} => Capabilities(v) = none
  BY DEF Capabilities, NtfsCapabilities, ExtCapabilities, XfsCapabilities, HfsCapabilities, FatCapabilities, ExfatCapabilities
<1> HIDE DEF all, most, none
<1>5. CASE v.kind = "ntfs"
  BY <1>2, <1>3, <1>5
<1>6. CASE v.kind \in {"ext", "xfs"}
  BY <1>2, <1>3, <1>6
<1>7. CASE v.kind \in {"hfs", "fat", "exfat"}
  BY <1>2, <1>3, <1>7
<1> QED
  BY <1>1, <1>5, <1>6, <1>7

\* A volume's state is a number no record of it exceeds.
LEMMA StateIs ==
  ASSUME NEW v \in Volume, JournalTrue(v)
  PROVE  VolumeState(v) \in Nat
<1> DEFINE all == {v.journal[k].usn : k \in DOMAIN v.journal} \cup {0}
<1>1. v.usn \in Nat /\ v.journal \in Seq(Record)
  BY VolumeFields
<1>2. \A k \in DOMAIN v.journal : v.journal[k].usn \in Nat /\ v.journal[k].usn <= v.usn
  <2>1. \A k \in DOMAIN v.journal : v.journal[k] \in Record
    BY <1>1
  <2> QED
    BY <2>1 DEF Record, JournalTrue
<1>3. all \in SUBSET (0..v.usn) /\ all # {}
  BY <1>1, <1>2
<1>4. VolumeState(v) = CHOOSE u \in all : \A x \in all : x <= u
  BY DEF VolumeState
<1> HIDE DEF all
<1>5. \E u \in all : \A x \in all : x <= u
  <2> DEFINE b == v.usn
  <2>1. b \in Nat /\ all \in SUBSET (0..b) /\ all # {}
    BY <1>1, <1>3
  <2> HIDE DEF b
  <2> QED
    BY <2>1, GreatestExists
<1>6. VolumeState(v) \in all
  BY <1>4, <1>5
<1>7. 0..v.usn \subseteq Nat
  BY <1>1
<1> QED
  BY <1>3, <1>6, <1>7

Keeps(v) == v.kind \in {"ntfs", "ext", "xfs"}

IdsAreSlots(to, from, v, was) ==
  /\ Live(to) = Live(v) /\ Live(from) = Live(was)
  /\ \A s \in Slots : IdAt(to, s) = ID(s, v.files[s].gen) /\ IdAt(from, s) = ID(s, was.files[s].gen)

\* Where identities are kept, a file's is its slot and the slot's counter.
LEMMA KeptIds ==
  ASSUME NEW w, NEW i, NEW to, NEW from, NEW written, Told(w, i, to, from, written), Keeps(vols[i])
  PROVE  IdsAreSlots(to, from, vols[i], old[1].vols[i])
<1> DEFINE v   == vols[i]
           was == old[1].vols[i]
<1>1. /\ SoundVolume(v) /\ SoundVolume(was) /\ Met(v) /\ Met(was) /\ Met(to) /\ Met(from)
      /\ v.kind = was.kind /\ LikeVolume(to, v) /\ LikeVolume(from, was)
      /\ Live(v) \subseteq Slots /\ Live(was) \subseteq Slots
  BY ToldOfGuest
<1>2. Since(v, was) /\ v.kind \in {"ntfs", "ext", "xfs"}
  BY DEF Told, Keeps
<1> HIDE DEF v, was
<1>3. /\ Live(to) = Live(v) /\ Live(from) = Live(was)
      /\ \A s \in Slots : IdAt(to, s) = IdAt(v, s) /\ IdAt(from, s) = IdAt(was, s)
  BY <1>1, LikeTells
<1>4. \A s \in Slots : IdAt(to, s) = ID(s, v.files[s].gen) /\ IdAt(from, s) = ID(s, was.files[s].gen)
  BY <1>1, <1>2, <1>3 DEF IdAt, Packed
<1> QED
  BY <1>3, <1>4 DEF v, was, IdsAreSlots

\* Where identities are kept, a file of the newer state has its identity in the
\* older one when it is the same file.
LEMMA SameIsSame ==
  ASSUME NEW w, NEW i, NEW to, NEW from, NEW written, Told(w, i, to, from, written), Keeps(vols[i])
  PROVE  LET v == vols[i]  was == old[1].vols[i] IN
         /\ \A s \in Live(v) : \/ /\ Same(from, to, s) /\ s \in Live(was)
                                  /\ v.files[s].gen = was.files[s].gen /\ v.files[s].uid = was.files[s].uid
                                  /\ v.files[s].uid \in UidsNow(was)
                               \/ ~Same(from, to, s) /\ v.files[s].uid \notin UidsNow(was)
         /\ \A t \in Live(was) : \/ Same(from, to, t) /\ t \in Live(v) /\ was.files[t].uid \in UidsNow(v)
                                 \/ ~Same(from, to, t) /\ was.files[t].uid \notin UidsNow(v)
<1> DEFINE v   == vols[i]
           was == old[1].vols[i]
<1>1. /\ SoundVolume(v) /\ SoundVolume(was) /\ Met(v) /\ Met(was) /\ Met(to) /\ Met(from)
      /\ v.kind = was.kind /\ LikeVolume(to, v) /\ LikeVolume(from, was)
      /\ Live(v) \subseteq Slots /\ Live(was) \subseteq Slots
  BY ToldOfGuest
<1>2. Since(v, was) /\ v.kind \in {"ntfs", "ext", "xfs"}
  BY DEF Told, Keeps
<1>0. IdsAreSlots(to, from, v, was)
  BY KeptIds
<1> HIDE DEF v, was
<1>3. Live(to) = Live(v) /\ Live(from) = Live(was)
  BY <1>0 DEF IdsAreSlots
<1>4. \A s \in Slots : IdAt(to, s) = ID(s, v.files[s].gen) /\ IdAt(from, s) = ID(s, was.files[s].gen)
  BY <1>0 DEF IdsAreSlots
<1>5. \A s : Same(from, to, s) <=> s \in Live(was) /\ s \in Live(v) /\ v.files[s].gen = was.files[s].gen
  <2>1. \A s \in Slots : IdAt(from, s) = IdAt(to, s) <=> v.files[s].gen = was.files[s].gen
    BY <1>4 DEF ID
  <2> QED
    BY <1>1, <1>3, <2>1 DEF Same
<1>6. \A s \in Slots : /\ v.files[s].gen = was.files[s].gen => v.files[s].uid = was.files[s].uid
                       /\ s \in Live(v) /\ v.files[s].gen = was.files[s].gen => s \in Live(was)
                       /\ v.files[s].gen # was.files[s].gen => \A t \in Slots : v.files[s].uid # was.files[t].uid
  <2>1. \A s \in Slots : s \in Live(v) => v.files[s].live
    BY DEF Live
  <2>2. \A s \in Slots : was.files[s].live => s \in Live(was)
    BY <1>1 DEF Live, Met
  <2> QED
    BY <1>2, <2>1, <2>2 DEF Since
<1>7. \A s, t \in Live(was) : was.files[s].uid = was.files[t].uid => s = t
  BY <1>1 DEF SoundVolume
<1>8. ASSUME NEW s \in Live(v)
      PROVE  \/ /\ Same(from, to, s) /\ s \in Live(was)
                /\ v.files[s].gen = was.files[s].gen /\ v.files[s].uid = was.files[s].uid
                /\ v.files[s].uid \in UidsNow(was)
             \/ ~Same(from, to, s) /\ v.files[s].uid \notin UidsNow(was)
  <2>1. s \in Slots
    BY <1>1
  <2>2. CASE v.files[s].gen = was.files[s].gen
    BY <1>5, <1>6, <2>1, <2>2 DEF UidsNow
  <2>3. CASE v.files[s].gen # was.files[s].gen
    <3>1. v.files[s].uid \notin UidsNow(was)
      BY <1>1, <1>6, <2>1, <2>3 DEF UidsNow
    <3> QED
      BY <1>5, <2>3, <3>1
  <2> QED
    BY <2>2, <2>3
<1>9. ASSUME NEW t \in Live(was)
      PROVE  \/ Same(from, to, t) /\ t \in Live(v) /\ was.files[t].uid \in UidsNow(v)
             \/ ~Same(from, to, t) /\ was.files[t].uid \notin UidsNow(v)
  <2>1. t \in Slots
    BY <1>1
  <2>2. CASE Same(from, to, t)
    <3>1. t \in Live(v) /\ v.files[t].uid = was.files[t].uid
      BY <1>5, <1>6, <2>1, <2>2
    <3> QED
      BY <2>2, <3>1 DEF UidsNow
  <2>3. CASE ~Same(from, to, t)
    <3>1. SUFFICES ASSUME NEW s \in Live(v), v.files[s].uid = was.files[t].uid PROVE FALSE
      BY <2>3 DEF UidsNow
    <3>2. v.files[s].uid \in UidsNow(was)
      BY <3>1 DEF UidsNow
    <3>3. Same(from, to, s) /\ s \in Live(was) /\ v.files[s].uid = was.files[s].uid
      BY <1>8, <3>2
    <3>4. s = t
      BY <1>7, <3>1, <3>3
    <3> QED
      BY <2>3, <3>3, <3>4
  <2> QED
    BY <2>2, <2>3
<1> QED
  BY <1>8, <1>9 DEF v, was

\* A file of a volume is known by its uid.
LEMMA FileNowIs ==
  ASSUME NEW v, SoundVolume(v), NEW s \in Live(v)
  PROVE  v.files[s].uid \in UidsNow(v) /\ FileNow(v, v.files[s].uid) = v.files[s]
<1>1. \A t \in Live(v) : v.files[t].uid = v.files[s].uid => t = s
  <2>1. \A x \in Live(v), y \in Live(v) : v.files[x].uid = v.files[y].uid => x = y
    BY DEF SoundVolume
  <2> QED
    BY <2>1
<1>2. (CHOOSE t \in Live(v) : v.files[t].uid = v.files[s].uid) = s
  BY <1>1
<1> QED
  BY <1>2 DEF FileNow, UidsNow

\* Where identities are kept, a file keeps the identity of its parent when it
\* stays in its directory, and only then.
LEMMA ParentTells ==
  ASSUME NEW w, NEW i, NEW to, NEW from, NEW written, Told(w, i, to, from, written), Keeps(vols[i]),
         NEW s \in Live(vols[i]), s \in Live(old[1].vols[i])
  PROVE  ParentAt(from, s) = ParentAt(to, s) <=> old[1].vols[i].files[s].dir = vols[i].files[s].dir
<1> DEFINE v   == vols[i]
           was == old[1].vols[i]
<1>1. /\ SoundVolume(v) /\ SoundVolume(was) /\ Met(v) /\ Met(was) /\ Met(to) /\ Met(from)
      /\ v.kind = was.kind /\ LikeVolume(to, v) /\ LikeVolume(from, was)
      /\ Live(v) \subseteq Slots /\ Live(was) \subseteq Slots
  BY ToldOfGuest
<1>2. Since(v, was) /\ v.kind \in {"ntfs", "ext", "xfs"}
  BY DEF Told, Keeps
<1>3. s \in Slots /\ Sub \in Slots
  BY <1>1, SlotBounds
<1> HIDE DEF v, was
<1>4. ParentAt(to, s) = ParentAt(v, s) /\ ParentAt(from, s) = ParentAt(was, s)
  <2>1. EntryAt(to, s) = EntryAt(v, s) /\ EntryAt(from, s) = EntryAt(was, s)
    BY <1>1, <1>3, LikeTells
  <2> QED
    <3>1. EntryAt(to, s).parent = ParentAt(to, s) /\ EntryAt(from, s).parent = ParentAt(from, s)
      BY EntryFields
    <3>2. EntryAt(v, s).parent = ParentAt(v, s) /\ EntryAt(was, s).parent = ParentAt(was, s)
      BY EntryFields
    <3> QED
      BY <2>1, <3>1, <3>2
<1>5. \A n, g, m, h : ID(n, g) = ID(m, h) <=> n = m /\ g = h
  BY DEF ID
<1>6. v.kind \notin Packed /\ was.kind \notin Packed
  BY <1>1, <1>2 DEF Packed
<1>7. CASE v.kind # "ntfs"
  <2>1. ParentAt(v, s) = ID(v.files[s].dir, 0) /\ ParentAt(was, s) = ID(was.files[s].dir, 0)
    BY <1>1, <1>6, <1>7 DEF ParentAt
  <2> QED
    BY <1>4, <1>5, <2>1 DEF v, was
<1>8. CASE v.kind = "ntfs"
  <2>1. /\ ParentAt(v, s) = ID(v.files[s].dir, SeqNo(v, v.files[s].dir))
        /\ ParentAt(was, s) = ID(was.files[s].dir, SeqNo(was, was.files[s].dir))
    BY <1>1, <1>6, <1>8 DEF ParentAt
  <2>2. ASSUME v.files[s].dir = was.files[s].dir
        PROVE  SeqNo(v, v.files[s].dir) = SeqNo(was, was.files[s].dir)
    <3>1. CASE v.files[s].dir = Root
      BY <2>2, <3>1 DEF SeqNo
    <3>2. CASE v.files[s].dir # Root
      <4>1. v.files[s].dir = Sub
        BY <1>1, <1>3, <3>2 DEF Met
      <4>2. v.files[Sub].isDir
        BY <1>1, <1>3, <4>1 DEF SoundVolume, SoundFile
      <4>3. v.files[Sub].gen = was.files[Sub].gen
        BY <1>2, <1>3, <4>2 DEF Since
      <4> QED
        BY <2>2, <3>2, <4>1, <4>3 DEF SeqNo
    <3> QED
      BY <3>1, <3>2
  <2>3. ParentAt(v, s) = ParentAt(was, s) <=>
          /\ v.files[s].dir = was.files[s].dir
          /\ SeqNo(v, v.files[s].dir) = SeqNo(was, was.files[s].dir)
    BY <1>5, <2>1
  <2>4. ParentAt(v, s) = ParentAt(was, s) <=> v.files[s].dir = was.files[s].dir
    BY <2>2, <2>3
  <2> QED
    BY <1>4, <2>4 DEF v, was
<1> QED
  BY <1>7, <1>8

\* Where identities are kept, what a comparison makes of a file is what became of it.
LEMMA KindTells ==
  ASSUME NEW w, NEW i, NEW to, NEW from, NEW written, Told(w, i, to, from, written), Keeps(vols[i]),
         NEW s \in Live(vols[i])
  PROVE  LET v == vols[i]  was == old[1].vols[i]  kind == KindAt(from, to, s)  u == vols[i].files[s].uid IN
         /\ kind \in {"added", "renamed", "modified"}
         /\ kind = "added" <=> u \notin UidsNow(was)
         /\ kind # "added" => s \in Live(was) /\ was.files[s].uid = u /\ FileNow(was, u) = was.files[s]
         /\ kind = "renamed" <=> (kind # "added" /\ Moved(was.files[s], v.files[s]))
<1> DEFINE v   == vols[i]
           was == old[1].vols[i]
           u   == v.files[s].uid
<1>1. /\ SoundVolume(v) /\ SoundVolume(was) /\ Met(to) /\ Met(from)
      /\ LikeVolume(to, v) /\ LikeVolume(from, was) /\ Live(v) \subseteq Slots
  BY ToldOfGuest
<1>2. \/ /\ Same(from, to, s) /\ s \in Live(was) /\ v.files[s].uid = was.files[s].uid /\ u \in UidsNow(was)
      \/ ~Same(from, to, s) /\ u \notin UidsNow(was)
  BY SameIsSame
<1>3. s \in Live(was) => (ParentAt(from, s) = ParentAt(to, s) <=> was.files[s].dir = v.files[s].dir)
  BY ParentTells
<1> HIDE DEF v, was
<1>4. from.files[s].name = was.files[s].name /\ to.files[s].name = v.files[s].name
  <2>1. s \in Slots
    BY <1>1 DEF v
  <2>2. LikeFile(from.files[s], was.files[s]) /\ LikeFile(to.files[s], v.files[s])
    BY <1>1, <2>1 DEF LikeVolume
  <2> QED
    BY <2>2 DEF LikeFile
<1>5. CASE Same(from, to, s)
  <2>1. s \in Live(was) /\ u = was.files[s].uid /\ u \in UidsNow(was)
    BY <1>2, <1>5
  <2>2. FileNow(was, u) = was.files[s]
    <3>1. FileNow(was, was.files[s].uid) = was.files[s]
      BY <1>1, <2>1, FileNowIs
    <3> QED
      BY <2>1, <3>1
  <2>3. KindAt(from, to, s) = IF Moved(was.files[s], v.files[s]) THEN "renamed" ELSE "modified"
    BY <1>3, <1>4, <1>5, <2>1 DEF KindAt, Moved
  <2> QED
    BY <2>1, <2>2, <2>3 DEF v, was
<1>6. CASE ~Same(from, to, s)
  <2>1. KindAt(from, to, s) = "added"
    BY <1>6 DEF KindAt
  <2> QED
    BY <1>2, <1>6, <2>1 DEF v, was
<1> QED
  BY <1>5, <1>6

\* A record that proves a change is one of the very file.
LEMMA RecordTells ==
  ASSUME NEW w, NEW i, NEW to, NEW from, NEW written, Told(w, i, to, from, written), NEW id,
         RecordOf(id, from, to)
  PROVE  LET v == vols[i]  was == old[1].vols[i] IN
         /\ \A s \in Slots : id = ID(s, v.files[s].gen) => RecordedMove(v, was, v.files[s].uid)
         /\ \A s \in Slots : id = ID(s, was.files[s].gen) => RecordedMove(v, was, was.files[s].uid)
<1> DEFINE v   == vols[i]
           was == old[1].vols[i]
<1>1. /\ SoundVolume(v) /\ SoundVolume(was) /\ Met(was) /\ Met(from)
      /\ LikeVolume(to, v) /\ LikeVolume(from, was)
  BY ToldOfGuest
<1>2. JournalTrue(v) /\ JournalTrue(was) /\ Since(v, was)
  BY DEF Told, VolumeInv
<1> HIDE DEF v, was
<1>3. to.journal = v.journal /\ VolumeState(from) = VolumeState(was)
  BY <1>1, LikeTells DEF LikeVolume
<1>4. v \in Volume /\ was \in Volume
  BY <1>1 DEF SoundVolume
<1>5. VolumeState(was) \in Nat
  BY <1>2, <1>4, StateIs
<1>6. PICK k \in DOMAIN v.journal : /\ v.journal[k].id = id /\ v.journal[k].reason = "new"
                                    /\ ~(v.journal[k].usn < VolumeState(was))
  BY <1>3 DEF RecordOf
<1>7. v.journal[k] \in Record
  <2>1. v.journal \in Seq(Record)
    BY <1>4, VolumeFields
  <2> QED
    BY <1>6, <2>1
<1>8. v.journal[k].usn \in Nat
  BY <1>7 DEF Record
<1>9. v.journal[k].usn >= VolumeState(was)
  BY <1>5, <1>6, <1>8
<1>10. \A n, g : ID(n, g).num = n /\ ID(n, g).gen = g
  BY DEF ID
<1>11. ASSUME NEW s \in Slots, id = ID(s, v.files[s].gen)
       PROVE  RecordedMove(v, was, v.files[s].uid)
  <2>1. v.journal[k].id.num = s /\ v.journal[k].id.gen = v.files[s].gen
    BY <1>6, <1>10, <1>11
  <2>2. v.journal[k].uid = v.files[s].uid
    BY <1>2, <1>6, <2>1 DEF JournalTrue
  <2> QED
    BY <1>6, <1>9, <2>2 DEF RecordedMove
<1>12. ASSUME NEW s \in Slots, id = ID(s, was.files[s].gen)
       PROVE  RecordedMove(v, was, was.files[s].uid)
  <2>1. v.journal[k].id.num = s /\ v.journal[k].id.gen = was.files[s].gen
    BY <1>6, <1>10, <1>12
  <2>2. v.journal[k].uid = was.files[s].uid
    BY <1>2, <1>6, <2>1 DEF Since
  <2> QED
    BY <1>6, <1>9, <2>2 DEF RecordedMove
<1> QED
  BY <1>11, <1>12 DEF v, was

\* Where identities are kept, every change reported is the one that happened.
LEMMA HappenedHolds ==
  ASSUME NEW w, NEW i, NEW to, NEW from, NEW written, Told(w, i, to, from, written), Keeps(vols[i]),
         NEW c \in w.diff.changes
  PROVE  Happened(c, vols[i], old[1].vols[i])
<1> DEFINE v   == vols[i]
           was == old[1].vols[i]
           both == UidsNow(v) \cap UidsNow(was)
           u   == UidBehind(c, v, was)
<1>1. /\ SoundVolume(v) /\ SoundVolume(was) /\ Met(to) /\ Met(from) /\ to.kind = v.kind
      /\ Live(v) \subseteq Slots /\ Live(was) \subseteq Slots
  BY ToldOfGuest
<1>2. /\ Live(to) = Live(v) /\ Live(from) = Live(was)
      /\ \A s \in Slots : IdAt(to, s) = ID(s, v.files[s].gen) /\ IdAt(from, s) = ID(s, was.files[s].gen)
  <2>1. IdsAreSlots(to, from, v, was)
    BY KeptIds
  <2> HIDE DEF v, was
  <2> QED
    BY <2>1 DEF IdsAreSlots
<1>3. \A n, g : ID(n, g).num = n
  BY DEF ID
<1>4. c.confidence = "proven" => RecordOf(Identity(c), from, to)
  <2>1. IsSupported(c, from, to)
    BY ChangeTells
  <2>2. Base(to) # "proven"
    BY DEF Base, Confidence
  <2> QED
    BY <2>1, <2>2 DEF IsSupported
<1>5. CASE \E s \in Seen(from, to, written, Opts) :
             s \in Live(to) /\ IsChangeAt(c, from, to, s, written) /\ Identity(c) = IdAt(to, s)
  <2>1. PICK s \in Live(to) : IsChangeAt(c, from, to, s, written) /\ Identity(c) = IdAt(to, s)
    BY <1>5
  <2>2. s \in Live(v) /\ s \in Slots
    BY <1>1, <1>2, <2>1
  <2> DEFINE x == v.files[s].uid
             kind == KindAt(from, to, s)
  <2>3. /\ kind \in {"added", "renamed", "modified"}
        /\ kind = "added" <=> x \notin UidsNow(was)
        /\ kind # "added" => s \in Live(was) /\ was.files[s].uid = x /\ FileNow(was, x) = was.files[s]
        /\ kind = "renamed" <=> (kind # "added" /\ Moved(was.files[s], v.files[s]))
    BY <2>2, KindTells
  <2>4. x \in UidsNow(v) /\ FileNow(v, x) = v.files[s]
    BY <1>1, <2>2, FileNowIs
  <2>5. c.kind = kind \/ (kind = "modified" /\ c.kind = "renamed" /\ c.evidence # <<>>)
    BY <2>1 DEF IsChangeAt
  <2>6. u = x
    <3>1. c.entry.id = IdAt(to, s)
      <4>1. c.entry = EntryAt(to, s)
        BY <2>1 DEF IsChangeAt
      <4>2. EntryAt(to, s).id = IdAt(to, s)
        BY EntryFields
      <4> QED
        BY <4>1, <4>2
    <3>2. c.kind # "deleted"
      BY <2>3, <2>5
    <3>3. c.entry.id.num = s
      BY <1>2, <1>3, <2>2, <3>1
    <3> QED
      BY <3>2, <3>3 DEF UidBehind, UidOf
  <2>7. c.confidence = "proven" => RecordedMove(v, was, x)
    <3>1. Identity(c) = ID(s, v.files[s].gen)
      BY <1>2, <2>1, <2>2
    <3> QED
      BY <1>4, <2>2, <3>1, RecordTells
  <2> HIDE DEF v, was, u, x, kind
  <2>8. /\ c.kind \in {"added", "deleted", "modified", "renamed"}
        /\ c.kind = "added"    => u \in UidsNow(v) \ UidsNow(was)
        /\ c.kind = "deleted"  => u \in UidsNow(was) \ UidsNow(v)
        /\ c.kind = "modified" => u \in both /\ ~Moved(FileNow(was, u), FileNow(v, u))
        /\ c.kind = "renamed"  => u \in both /\ (Moved(FileNow(was, u), FileNow(v, u)) \/ c.evidence # <<>>)
        /\ c.confidence = "proven" => RecordedMove(v, was, u)
    BY <2>3, <2>4, <2>5, <2>6, <2>7
  <2> QED
    BY <2>8 DEF Happened, u, v, was
<1>6. CASE \E t \in Gone(from, to, Opts) :
             t \in Live(from) /\ IsDeletionAt(c, from, t) /\ Identity(c) = IdAt(from, t)
  <2>1. PICK t \in Gone(from, to, Opts) :
               t \in Live(from) /\ IsDeletionAt(c, from, t) /\ Identity(c) = IdAt(from, t)
    BY <1>6
  <2>2. t \in Live(was) /\ t \in Slots /\ ~Same(from, to, t)
    BY <1>1, <1>2, <2>1 DEF Gone
  <2> DEFINE x == was.files[t].uid
  <2>3. x \in UidsNow(was) /\ x \notin UidsNow(v)
    <3>1. x \notin UidsNow(v)
      BY <2>2, SameIsSame
    <3>2. x \in UidsNow(was)
      BY <2>2 DEF UidsNow
    <3> QED
      BY <3>1, <3>2
  <2>4. c.kind = "deleted" /\ u = x
    <3>1. c.kind = "deleted" /\ c.prev.id = IdAt(from, t)
      BY <2>1, EntryFields DEF IsDeletionAt
    <3>2. c.prev.id.num = t
      BY <1>2, <1>3, <2>2, <3>1
    <3> QED
      BY <3>1, <3>2 DEF UidBehind, UidOf
  <2>5. c.confidence = "proven" => RecordedMove(v, was, x)
    <3>1. Identity(c) = ID(t, was.files[t].gen)
      BY <1>2, <2>1, <2>2
    <3> QED
      BY <1>4, <2>2, <3>1, RecordTells
  <2> HIDE DEF v, was, u, x
  <2>6. /\ c.kind \in {"added", "deleted", "modified", "renamed"}
        /\ c.kind = "added"    => u \in UidsNow(v) \ UidsNow(was)
        /\ c.kind = "deleted"  => u \in UidsNow(was) \ UidsNow(v)
        /\ c.kind = "modified" => u \in both /\ ~Moved(FileNow(was, u), FileNow(v, u))
        /\ c.kind = "renamed"  => u \in both /\ (Moved(FileNow(was, u), FileNow(v, u)) \/ c.evidence # <<>>)
        /\ c.confidence = "proven" => RecordedMove(v, was, u)
    BY <2>3, <2>4, <2>5
  <2> QED
    BY <2>6 DEF Happened, u, v, was
<1> QED
  BY <1>5, <1>6, ChangeTells

\* None that happened is missing from a list that was not cut.
LEMMA AllSaidHolds ==
  ASSUME NEW w, NEW i, NEW to, NEW from, NEW written, Told(w, i, to, from, written), Keeps(vols[i]),
         Complete(w), Fault # "map lost"
  PROVE  AllSaid(w.diff.changes, vols[i], old[1].vols[i], Opts)
<1> DEFINE v   == vols[i]
           was == old[1].vols[i]
           changes == w.diff.changes
           said(u, kind) == \E c \in changes : UidBehind(c, v, was) = u /\ c.kind = kind
<1>1. /\ SoundVolume(v) /\ SoundVolume(was) /\ Met(v) /\ Met(was) /\ Met(to) /\ Met(from) /\ from.kind = to.kind
      /\ LikeVolume(to, v) /\ LikeVolume(from, was)
      /\ Live(v) \subseteq Slots /\ Live(was) \subseteq Slots
  BY ToldOfGuest
<1>2. /\ Live(to) = Live(v) /\ Live(from) = Live(was)
      /\ \A s \in Slots : IdAt(to, s) = ID(s, v.files[s].gen) /\ IdAt(from, s) = ID(s, was.files[s].gen)
  <2>1. IdsAreSlots(to, from, v, was)
    BY KeptIds
  <2> HIDE DEF v, was
  <2> QED
    BY <2>1 DEF IdsAreSlots
<1>3. \A n, g : ID(n, g).num = n
  BY DEF ID
<1>4. changes = All(from, to, written, Opts) /\ Since(v, was)
  BY DEF Told
<1>5. \A s \in Slots : ~Lost(to, s)
  <2>1. MetNow(to, v, i, Fault)
    BY DEF Told
  <2>2. \A s \in Slots : to.files[s].lost = FALSE
    BY <2>1 DEF MetNow
  <2> QED
    BY <2>2 DEF Lost
<1>6. \A s \in Slots : /\ Wanted(to.files[s], Opts) <=> Wanted(v.files[s], Opts)
                       /\ Wanted(from.files[s], Opts) <=> Wanted(was.files[s], Opts)
  BY <1>1, LikeTells
<1>7. ASSUME NEW s \in Live(v), Wanted(v.files[s], Opts), KindAt(from, to, s) # "modified"
      PROVE  said(v.files[s].uid, KindAt(from, to, s))
  <2>1. s \in Slots /\ s \in Live(to)
    BY <1>1, <1>2
  <2>2. s \in Seen(from, to, written, Opts)
    BY <1>5, <1>6, <1>7, <2>1 DEF Seen
  <2>3. PICK c \in All(from, to, written, Opts) : IsChangeAt(c, from, to, s, written)
    BY <1>1, <2>2, AllHas
  <2>4. KindAt(from, to, s) \in {"added", "renamed", "modified"}
    BY DEF KindAt
  <2>5. c.kind = KindAt(from, to, s) /\ c.kind # "deleted"
    BY <1>7, <2>3, <2>4 DEF IsChangeAt
  <2>6. c.entry.id.num = s
    <3>1. c.entry.id = IdAt(to, s)
      <4>1. c.entry = EntryAt(to, s)
        BY <2>3 DEF IsChangeAt
      <4>2. EntryAt(to, s).id = IdAt(to, s)
        BY EntryFields
      <4> QED
        BY <4>1, <4>2
    <3>2. IdAt(to, s) = ID(s, v.files[s].gen)
      BY <1>2, <2>1
    <3> QED
      BY <1>3, <3>1, <3>2
  <2>7. UidBehind(c, v, was) = v.files[s].uid
    BY <2>5, <2>6 DEF UidBehind, UidOf
  <2> QED
    BY <1>4, <2>3, <2>5, <2>7
<1>8. ASSUME NEW t \in Live(was), Wanted(was.files[t], Opts), ~Same(from, to, t)
      PROVE  said(was.files[t].uid, "deleted")
  <2>1. t \in Slots /\ t \in Live(from)
    BY <1>1, <1>2
  <2>2. t \in Gone(from, to, Opts)
    BY <1>6, <1>8, <2>1 DEF Gone
  <2>3. PICK c \in All(from, to, written, Opts) : IsDeletionAt(c, from, t)
    BY <1>1, <2>2, AllHas
  <2>4. c.kind = "deleted" /\ c.prev.id.num = t
    <3>1. c.kind = "deleted" /\ c.prev.id = IdAt(from, t)
      BY <2>3, EntryFields DEF IsDeletionAt
    <3>2. IdAt(from, t) = ID(t, was.files[t].gen)
      BY <1>2, <2>1
    <3> QED
      BY <1>3, <3>1, <3>2
  <2>5. UidBehind(c, v, was) = was.files[t].uid
    BY <2>4 DEF UidBehind, UidOf
  <2> QED
    BY <1>4, <2>3, <2>4, <2>5
<1>9. ASSUME NEW u \in UidsNow(v) \ UidsNow(was), Wanted(FileNow(v, u), Opts)
      PROVE  said(u, "added")
  <2>1. PICK s \in Live(v) : u = v.files[s].uid
    BY DEF UidsNow
  <2>2. FileNow(v, u) = v.files[s]
    BY <1>1, <2>1, FileNowIs
  <2>3. KindAt(from, to, s) = "added"
    <3>1. LET kind == KindAt(from, to, s) IN
          kind = "added" <=> v.files[s].uid \notin UidsNow(was)
      BY KindTells
    <3> QED
      BY <1>9, <2>1, <3>1
  <2> QED
    BY <1>7, <1>9, <2>1, <2>2, <2>3
<1>10. ASSUME NEW u \in UidsNow(was) \ UidsNow(v)
       PROVE  said(u, "deleted")
  <2>1. PICK t \in Live(was) : u = was.files[t].uid
    BY DEF UidsNow
  <2>2. ~Same(from, to, t) /\ t \in Slots
    BY <1>1, <1>10, <2>1, SameIsSame
  <2>3. was.files[t].isDir = FALSE
    <3>1. was.files[t].isDir \in BOOLEAN
      BY <1>1, <2>2 DEF Met
    <3>2. SUFFICES ASSUME was.files[t].isDir = TRUE PROVE FALSE
      BY <3>1
    <3>3. v.files[t].isDir = TRUE /\ v.files[t].gen = was.files[t].gen
      BY <1>4, <2>2, <3>2 DEF Since
    <3>4. v.files[t].uid = was.files[t].uid
      BY <1>4, <2>2, <3>3 DEF Since
    <3>5. v.files[t].live
      BY <1>1, <2>2, <3>3 DEF SoundVolume, SoundFile
    <3>6. t \in Live(v)
      BY <1>1, <2>2, <3>5 DEF Live, Met
    <3> QED
      BY <1>10, <2>1, <3>4, <3>6 DEF UidsNow
  <2>4. Wanted(was.files[t], Opts)
    BY <2>3 DEF Wanted
  <2> QED
    BY <1>8, <2>1, <2>2, <2>4
<1>11. ASSUME NEW u \in UidsNow(v) \cap UidsNow(was), Moved(FileNow(was, u), FileNow(v, u))
       PROVE  said(u, "renamed")
  <2>1. PICK s \in Live(v) : u = v.files[s].uid
    BY DEF UidsNow
  <2>2. FileNow(v, u) = v.files[s] /\ s \in Slots
    BY <1>1, <2>1, FileNowIs
  <2>3. KindAt(from, to, s) = "renamed" /\ FileNow(was, u) = was.files[s]
    <3> DEFINE kind == KindAt(from, to, s)
    <3>1. /\ kind = "added" <=> u \notin UidsNow(was)
          /\ kind # "added" => FileNow(was, u) = was.files[s]
          /\ kind = "renamed" <=> (kind # "added" /\ Moved(was.files[s], v.files[s]))
      <4> DEFINE x == v.files[s].uid
      <4>1. /\ kind \in {"added", "renamed", "modified"}
            /\ kind = "added" <=> x \notin UidsNow(was)
            /\ kind # "added" => s \in Live(was) /\ was.files[s].uid = x /\ FileNow(was, x) = was.files[s]
            /\ kind = "renamed" <=> (kind # "added" /\ Moved(was.files[s], v.files[s]))
        BY <2>1, KindTells
      <4>2. x = u
        BY <2>1
      <4> HIDE DEF x, kind, v, was
      <4> QED
        BY <4>1, <4>2
    <3> HIDE DEF kind, v, was
    <3>2. kind # "added" /\ FileNow(was, u) = was.files[s]
      BY <1>11, <3>1
    <3>3. kind = "renamed"
      BY <1>11, <2>2, <3>1, <3>2
    <3> QED
      BY <3>2, <3>3 DEF kind
  <2>4. v.files[s].isDir = FALSE
    <3>1. v.files[s].isDir \in BOOLEAN
      BY <1>1, <2>2 DEF Met
    <3>2. v.files[s].isDir = TRUE => v.files[s].name = was.files[s].name /\ v.files[s].dir = was.files[s].dir
      BY <1>4, <2>2 DEF Since
    <3> QED
      BY <1>11, <2>2, <2>3, <3>1, <3>2 DEF Moved
  <2>5. Wanted(v.files[s], Opts)
    BY <2>4 DEF Wanted
  <2> QED
    BY <1>7, <2>1, <2>3, <2>5
<1> QED
  BY <1>9, <1>10, <1>11 DEF AllSaid

\* The invariant gives ClassifiedTruly.
LEMMA ClassifiedTrulyHolds ==
  ASSUME GuestInv
  PROVE  ClassifiedTruly
<1> SUFFICES ASSUME doc # <<>>, NEW w \in Report.volumes
             PROVE  LET v    == VolAt(w.base)
                        was  == OldAt(w.base)
                        caps == Capabilities(v)
                    IN  IF caps.stable /\ caps.counter
                          THEN /\ \A c \in w.diff.changes : Happened(c, v, was)
                               /\ Complete(w) /\ Fault # "map lost" => AllSaid(w.diff.changes, v, was, Opts)
                          ELSE /\ \A f \in w.files : f.confidence = "inferred"
                               /\ Note("identity synthesised", NoId) \in w.notes
  BY DEF ClassifiedTruly
<1>1. PICK i, to, from, written : i \in DOMAIN vols /\ Told(w, i, to, from, written)
  BY ReportTells
<1> DEFINE v   == vols[i]
           was == old[1].vols[i]
           caps == Capabilities(v)
<1>2. /\ SoundVolume(v) /\ Met(v) /\ Met(to) /\ LikeVolume(to, v) /\ to.kind = v.kind
  BY <1>1, ToldOfGuest
<1>3. v.kind \in Kinds
  BY <1>2 DEF Met
<1>4. VolAt(w.base) = v /\ OldAt(w.base) = was /\ w.files = {ReportedFile(c) : c \in w.diff.changes}
  BY <1>1 DEF Told
<1>5. Capabilities(to) = caps
  BY <1>2, LikeTells
<1>6. CASE v.kind \in {"ntfs", "ext", "xfs"}
  <2>1. caps.stable = TRUE /\ caps.counter = TRUE
    BY <1>3, <1>6, CapsAre
  <2>2. Keeps(v)
    BY <1>6 DEF Keeps
  <2>3. \A c \in w.diff.changes : Happened(c, v, was)
    BY <1>1, <2>2, HappenedHolds
  <2>4. Complete(w) /\ Fault # "map lost" => AllSaid(w.diff.changes, v, was, Opts)
    BY <1>1, <2>2, AllSaidHolds
  <2> HIDE DEF v, was, caps
  <2> QED
    BY <1>4, <2>1, <2>3, <2>4 DEF caps
<1>7. CASE v.kind \in {"hfs", "fat", "exfat"}
  <2>1. caps.stable = FALSE /\ caps.counter = FALSE
    BY <1>3, <1>7, CapsAre
  <2>2. Base(to) = "inferred"
    BY <1>5, <2>1 DEF Base, Confidence
  <2>3. \A c \in w.diff.changes : c.confidence = "inferred"
    <3>1. to.kind # "ntfs"
      BY <1>2, <1>7
    <3>2. \A c \in w.diff.changes : IsSupported(c, from, to)
      BY <1>1, ChangeTells
    <3> QED
      BY <2>2, <3>1, <3>2 DEF IsSupported
  <2>4. \A f \in w.files : f.confidence = "inferred"
    BY <1>4, <2>3, ReportedFields
  <2>5. Note("identity synthesised", NoId) \in w.notes
    BY <1>1, <1>5, <2>1 DEF Told
  <2> HIDE DEF v, was, caps
  <2> QED
    BY <1>4, <2>1, <2>4, <2>5 DEF caps
<1> QED
  BY <1>3, <1>6, <1>7, CapsAre

-----------------------------------------------------------------------------
(* The theorems.                                                            *)

\* For every disk and every use of it, a document is of its form: range sets
\* normal, volumes apart, identities reported once.
THEOREM TypeCorrect == Spec => []TypeOK
<1>1. GuestInv => TypeOK
  BY TypeOKHolds
<1> QED
  BY <1>1, GuestInvariant, PTL

\* For every disk, grain and history: the ranges reported of a file cover every
\* byte written of it, and name no byte no reported write can have touched.
THEOREM WritesAreCovered == Spec => []RangesCoverWrites
<1>1. GuestInv => RangesCoverWrites
  BY RangesCoverWritesHolds
<1> QED
  BY <1>1, GuestInvariant, PTL

\* For every history: where identities are kept, what is reported of a file is what
\* happened to that very file, and a list that is not cut leaves nothing out.
THEOREM ChangesAreClassifiedTruly == Spec => []ClassifiedTruly
<1>1. GuestInv => ClassifiedTruly
  BY ClassifiedTrulyHolds
<1> QED
  BY <1>1, GuestInvariant, PTL

\* For every history and every fault of the cases Compare is called in: a volume that
\* changed is in the document, or the document says why it is not; a walk or a reading
\* of a journal that failed is named, and nothing rests on a journal that was not read.
THEOREM NothingIsSilent == Spec => []NothingSilent
<1>1. GuestInv => NothingSilent
  BY NothingSilentHolds
<1> QED
  BY <1>1, GuestInvariant, PTL
=============================================================================
