--------------------------- MODULE VhdxFileProofs ---------------------------
(***************************************************************************)
(* What is proved of a VHDX file whose writer may lose power at any        *)
(* moment, for every size of the log, every file, every set of             *)
(* transactions and any number of logs and entries.                        *)
(*                                                                         *)
(* Positions in the log are counted on without wrapping, so that the       *)
(* entries of a log are a chain c:                                         *)
(*   c.n      how many entries it has, the newest of them c.n              *)
(*   c.p[k]   where entry k begins; c.p[c.n + 1] is the writer's head      *)
(*   c.t[k]   the transaction entry k journals                             *)
(*   c.tail[k] the tail it records                                         *)
(* and m is the first entry that still has sectors to be put in place.      *)
(***************************************************************************)
EXTENDS VhdxFile, IndexLemmas, FiniteSetTheorems

Trans == Transactions \cup {<<>>}

-----------------------------------------------------------------------------
(* Positions in the region.                                                 *)

\* Counting on from a place in the region is counting on from any position there.
LEMMA Wrap ==
  ASSUME NEW a \in Nat, NEW j \in Nat
  PROVE  (a % RingSize) \in Ring /\ ((a % RingSize) + j) % RingSize = (a + j) % RingSize
<1> USE RingAssumption
<1>1. /\ a = (a \div RingSize) * RingSize + (a % RingSize)
      /\ a \div RingSize \in Nat /\ a % RingSize \in Nat /\ a % RingSize < RingSize
  BY Division
<1> DEFINE r == a % RingSize
           b == r + j
           s == b % RingSize
<1>2. b \in Nat
  BY <1>1
<1>3. /\ b = (b \div RingSize) * RingSize + s
      /\ b \div RingSize \in Nat /\ s \in Nat /\ s < RingSize
  <2> HIDE DEF b
  <2> QED
    BY <1>2, Division
<1> DEFINE q == (a \div RingSize) + (b \div RingSize)
<1>4. q \in Nat
  <2> HIDE DEF b
  <2> QED
    BY <1>1, <1>3
<1>5. a + j = q * RingSize + s
  <2>1. PICK x \in Nat : x = a \div RingSize
    BY <1>1
  <2>2. PICK y \in Nat : y = b \div RingSize
    BY <1>3
  <2>3. a + j = x * RingSize + b
    BY <1>1, <2>1
  <2>4. b = y * RingSize + s
    BY <1>3, <2>2
  <2>5. q = x + y
    BY <2>1, <2>2
  <2> HIDE DEF b, s, q
  <2>6. (x + y) * RingSize = x * RingSize + y * RingSize
    OBVIOUS
  <2> QED
    BY <1>2, <1>3, <2>3, <2>4, <2>5, <2>6
<1>6. q * RingSize <= a + j /\ a + j < (q + 1) * RingSize
  <2> HIDE DEF q, s
  <2>1. (q + 1) * RingSize = q * RingSize + RingSize
    BY <1>4
  <2>2. PICK z \in Nat : z = q * RingSize
    BY <1>4
  <2>3. s \in Nat /\ s < RingSize
    BY <1>3
  <2>4. a + j = z + s /\ (q + 1) * RingSize = z + RingSize
    BY <1>5, <2>1, <2>2
  <2> QED
    BY <2>2, <2>3, <2>4
<1>7. (a + j) % RingSize = (a + j) - q * RingSize
  <2>1. a + j \in Nat
    OBVIOUS
  <2> HIDE DEF q
  <2> QED
    BY <1>4, <1>6, <2>1, RingAssumption, DivisionUnique, Zenon
<1>8. (a + j) % RingSize = s
  <2> HIDE DEF q, s
  <2> QED
    BY <1>3, <1>4, <1>5, <1>7
<1> QED
  BY <1>1, <1>8 DEF Ring

\* Positions less than a region apart are in different places.
LEMMA Apart ==
  ASSUME NEW a \in Nat, NEW b \in Nat, a <= b, b < a + RingSize, a % RingSize = b % RingSize
  PROVE  a = b
<1> USE RingAssumption
<1>1. /\ a = (a \div RingSize) * RingSize + (a % RingSize)
      /\ a \div RingSize \in Nat /\ a % RingSize \in Nat
  BY Division
<1>2. b = (b \div RingSize) * RingSize + (b % RingSize) /\ b \div RingSize \in Nat
  BY Division
<1>3. PICK x \in Nat : x = a \div RingSize
  BY <1>1
<1>4. PICK y \in Nat : y = b \div RingSize
  BY <1>2
<1>5. PICK r \in Nat : r = a % RingSize
  BY <1>1
<1>6. a = x * RingSize + r /\ b = y * RingSize + r
  BY <1>1, <1>2, <1>3, <1>4, <1>5
<1>7. CASE x = y
  BY <1>6, <1>7
<1>8. CASE x < y
  <2>1. y * RingSize >= (x + 1) * RingSize
    BY <1>8
  <2> QED
    BY <1>6, <2>1
<1>9. CASE y < x
  <2>1. x * RingSize >= (y + 1) * RingSize
    BY <1>9
  <2> QED
    BY <1>6, <2>1
<1> QED
  BY <1>7, <1>8, <1>9

\* Numbers of a log's entries order the values they write.
LEMMA Values ==
  ASSUME NEW g \in Nat, NEW q \in Int
  PROVE  /\ Value(q, g) \in Int
         /\ Value(q + 1, g) = Value(q, g) + 1
         /\ \A s \in Int : Value(s, g) < Value(q, g) <=> s < q
<1>1. PICK x \in Int : x = (g - 1) * MaxSeq
  BY BoundsAssumption
<1> QED
  BY <1>1 DEF Value

-----------------------------------------------------------------------------
(* Transactions and the entries that journal them.                          *)

\* A transaction is a sequence of descriptors of sectors of the file.
IsTrans(t) ==
  /\ t \in Seq([kind : {"desc", "zero"}, at : Sectors, len : Nat])
  /\ \A i \in 1..Len(t) : Target(t[i]) \subseteq Sectors

LEMMA TransTyped ==
  ASSUME NEW t \in Trans
  PROVE  IsTrans(t)
<1> DEFINE Ds == [kind : {"desc", "zero"}, at : Sectors, len : Nat]
<1>1. t \in Seq(Ds)
  <2>1. CASE t \in Transactions
    BY <2>1, TransactionsAssumption, Zenon
  <2>2. CASE t = <<>>
    <3> HIDE DEF Ds
    <3> QED
      BY <2>2
  <2> QED
    BY <2>1, <2>2 DEF Trans
<1>2. ASSUME NEW i \in 1..Len(t) PROVE Target(t[i]) \subseteq Sectors
  <2>1. t \in Transactions
    BY <1>2 DEF Trans
  <2>2. i \in DOMAIN t /\ t[i] \in Ds
    <3> HIDE DEF Ds
    <3> QED
      BY <1>1, <1>2
  <2>3. t[i].at \in 0..(FileSize - 1) /\ t[i].len \in Nat
    BY <2>2 DEF Sectors
  <2>4. CASE t[i].kind = "zero"
    <3>1. t[i].at + t[i].len <= FileSize
      BY <2>1, <2>2, <2>4, TransactionsAssumption
    <3> QED
      BY <2>3, <2>4, <3>1, RingAssumption DEF Target, Sectors
  <2>5. CASE t[i].kind # "zero"
    BY <2>3, <2>5 DEF Target, Sectors
  <2> QED
    BY <2>4, <2>5
<1> QED
  BY <1>1, <1>2 DEF IsTrans

\* The header of an entry takes a sector at least.
LEMMA HeadPositive ==
  ASSUME NEW n \in Nat
  PROVE  HeadSectors(n) \in Nat \ {0}
<1> DEFINE b == 2 + n + PerSector - 1
           q == b \div PerSector
<1>1. b \in Nat /\ PerSector \in Nat \ {0} /\ b >= PerSector
  BY PerSectorAssumption
<1>2. q \in Nat /\ b < (q + 1) * PerSector
  <2> HIDE DEF b
  <2> QED
    BY <1>1, Division
<1>3. q # 0
  <2> SUFFICES ASSUME q = 0 PROVE FALSE
    OBVIOUS
  <2>1. b < 1 * PerSector
    <3> HIDE DEF b, q
    <3> QED
      BY <1>2
  <2> QED
    BY <1>1, <2>1
<1> QED
  BY <1>2, <1>3 DEF HeadSectors

\* An empty entry is a single sector.
LEMMA EmptyEntry == HeadSectors(0) = 1
<1>1. (PerSector + 1) \div PerSector = 1
  <2>1. 1 * PerSector <= PerSector + 1 /\ PerSector + 1 < (1 + 1) * PerSector
    BY PerSectorAssumption
  <2> QED
    BY <2>1, PerSectorAssumption, DivisionUnique
<1>2. 2 + 0 + PerSector - 1 = PerSector + 1
  BY PerSectorAssumption
<1> QED
  BY <1>1, <1>2 DEF HeadSectors

\* The data sectors of an entry are its "desc" descriptors, in order.
LEMMA DataIndexes ==
  ASSUME NEW d, NEW n \in Nat
  PROVE  /\ \A i \in 1..(n + 1) : DataIndex(d, i) \in Nat
         /\ \A i \in 1..n : d[i].kind = "desc" => DataIndex(d, i) < DataIndex(d, n + 1)
<1> DEFINE D(i) == {j \in 1..(i - 1) : d[j].kind = "desc"}
<1>1. ASSUME NEW i \in 1..(n + 1) PROVE IsFiniteSet(D(i)) /\ Cardinality(D(i)) \in Nat
  <2>1. IsFiniteSet(1..(i - 1))
    BY FS_Interval
  <2>2. IsFiniteSet(D(i))
    BY <2>1, FS_Subset
  <2> QED
    BY <2>2, FS_CardinalityType
<1>2. ASSUME NEW i \in 1..n, d[i].kind = "desc" PROVE DataIndex(d, i) < DataIndex(d, n + 1)
  <2>1. IsFiniteSet(D(i)) /\ Cardinality(D(i)) \in Nat
    BY <1>1
  <2>2. IsFiniteSet(D(n + 1)) /\ Cardinality(D(n + 1)) \in Nat
    BY <1>1
  <2>3. i \notin D(i) /\ D(i) \cup {i} \subseteq D(n + 1)
    BY <1>2
  <2>4. IsFiniteSet(D(i) \cup {i}) /\ Cardinality(D(i) \cup {i}) = Cardinality(D(i)) + 1
    <3> HIDE DEF D
    <3> QED
      BY <2>1, <2>3, FS_AddElement
  <2>5. Cardinality(D(i) \cup {i}) <= Cardinality(D(n + 1))
    <3> HIDE DEF D
    <3> QED
      BY <2>2, <2>3, FS_Subset
  <2> QED
    BY <2>1, <2>2, <2>4, <2>5 DEF DataIndex
<1> QED
  BY <1>1, <1>2 DEF DataIndex

\* Entries are a sector long or more.
LEMMA EntryLenTyped ==
  ASSUME NEW t \in Trans
  PROVE  /\ Len(t) \in Nat /\ HeadSectors(Len(t)) \in Nat \ {0}
         /\ EntryLen(t) \in Nat \ {0} /\ HeadSectors(Len(t)) <= EntryLen(t)
<1>1. Len(t) \in Nat
  BY TransTyped DEF IsTrans
<1>2. HeadSectors(Len(t)) \in Nat \ {0}
  BY <1>1, HeadPositive
<1>3. DataIndex(t, Len(t) + 1) \in Nat
  BY <1>1, DataIndexes
<1> QED
  BY <1>1, <1>2, <1>3 DEF EntryLen

\* The first sector of an entry, and the others.
First(t, q, g, tail) ==
  [sig |-> "loge", guid |-> g, seq |-> q, tail |-> tail, len |-> EntryLen(t),
   descs |-> Descriptors(t, q, Value(q, g)), body |-> Body(t, q, Value(q, g))]
IsSectorOf(t, k, q, v, x) ==
  x = [sig |-> IF k < HeadSectors(Len(t)) THEN "more" ELSE "data", seq |-> q, rest |-> v]

LEMMA EntryShape ==
  ASSUME NEW t \in Trans, NEW q, NEW g, NEW tail
  PROVE  /\ Entry(t, q, g, tail)[1] = First(t, q, g, tail)
         /\ \A k \in 1..(EntryLen(t) - 1) :
              /\ Entry(t, q, g, tail)[k + 1] = Body(t, q, Value(q, g))[k]
              /\ IsSectorOf(t, k, q, Value(q, g), Body(t, q, Value(q, g))[k])
<1> DEFINE body == Body(t, q, Value(q, g))
           n == EntryLen(t) - 1
           f == First(t, q, g, tail)
<1>1. n \in Nat
  BY EntryLenTyped
<1>2. body \in Seq({body[k] : k \in 1..n}) /\ Len(body) = n
  BY <1>1 DEF Body
<1>3. Entry(t, q, g, tail) = <<f>> \o body
  BY DEF Entry, First
<1>4. (<<f>> \o body)[1] = f /\ \A k \in 1..n : (<<f>> \o body)[k + 1] = body[k]
  <2>1. PICK S : S = {f} \cup {body[k] : k \in 1..n}
    OBVIOUS
  <2>2. body \in Seq(S)
    BY <1>1, <1>2, <2>1 DEF Body
  <2>3. <<f>> \in Seq(S)
    <3> HIDE DEF f, body
    <3> QED
      BY <2>1
  <2> HIDE DEF f, body, n
  <2> QED
    BY <1>1, <1>2, <2>2, <2>3
<1>5. ASSUME NEW k \in 1..n PROVE IsSectorOf(t, k, q, Value(q, g), body[k])
  BY DEF Body, IsSectorOf
<1> QED
  BY <1>3, <1>4, <1>5

-----------------------------------------------------------------------------
(* An entry that is in the log.                                             *)

\* The sectors from position a hold an entry.
Holds(r, a, t, q, g, tail) ==
  \A k \in 1..EntryLen(t) : r[(a + k - 1) % RingSize] = Entry(t, q, g, tail)[k]

\* What the region reads counting on from where an entry begins.
LEMMA HeldSectors ==
  ASSUME NEW r, NEW a \in Nat, NEW t \in Trans, NEW q, NEW g, NEW tail, Holds(r, a, t, q, g, tail)
  PROVE  /\ At(r, a % RingSize) = First(t, q, g, tail)
         /\ \A k \in 1..(EntryLen(t) - 1) :
              /\ At(r, (a % RingSize) + k) = Body(t, q, Value(q, g))[k]
              /\ IsSectorOf(t, k, q, Value(q, g), At(r, (a % RingSize) + k))
<1>1. EntryLen(t) \in Nat \ {0}
  BY EntryLenTyped
<1>2. At(r, a % RingSize) = r[a % RingSize]
  <2>1. ((a % RingSize) + 0) % RingSize = (a + 0) % RingSize /\ (a % RingSize) \in Nat
    BY Wrap DEF Ring
  <2>2. (a % RingSize) + 0 = a % RingSize /\ a + 0 = a
    BY <2>1
  <2> QED
    BY <2>1, <2>2 DEF At
<1>3. r[a % RingSize] = Entry(t, q, g, tail)[1]
  <2>1. a + 1 - 1 = a /\ 1 \in 1..EntryLen(t)
    BY <1>1
  <2> QED
    BY <2>1 DEF Holds
<1>4. ASSUME NEW k \in 1..(EntryLen(t) - 1) PROVE At(r, (a % RingSize) + k) = Entry(t, q, g, tail)[k + 1]
  <2>1. ((a % RingSize) + k) % RingSize = (a + k) % RingSize
    BY Wrap
  <2>2. a + (k + 1) - 1 = a + k /\ k + 1 \in 1..EntryLen(t)
    BY <1>1
  <2>3. r[(a + (k + 1) - 1) % RingSize] = Entry(t, q, g, tail)[k + 1]
    BY <2>2 DEF Holds
  <2> QED
    BY <2>1, <2>2, <2>3 DEF At
<1>5. ASSUME NEW k \in 1..(EntryLen(t) - 1)
      PROVE  /\ At(r, (a % RingSize) + k) = Body(t, q, Value(q, g))[k]
             /\ IsSectorOf(t, k, q, Value(q, g), At(r, (a % RingSize) + k))
  BY <1>4, EntryShape
<1> QED
  BY <1>2, <1>3, <1>5, EntryShape

\* An entry that is in the log is found to be one.
LEMMA HeldIsEntry ==
  ASSUME NEW r, NEW a \in Nat, NEW t \in Trans, NEW q \in Nat \ {0}, NEW g, NEW tail \in Ring,
         EntryLen(t) <= RingSize, Holds(r, a, t, q, g, tail)
  PROVE  IsEntry(r, a % RingSize, g)
<1> DEFINE h == At(r, a % RingSize)
<1>1. h = First(t, q, g, tail)
  BY HeldSectors
<1>2. /\ h.sig = "loge" /\ h.len = EntryLen(t) /\ h.guid = g /\ h.seq = q /\ h.tail = tail
      /\ h.body = Body(t, q, Value(q, g)) /\ h.descs = Descriptors(t, q, Value(q, g))
  <2> HIDE DEF h
  <2> QED
    BY <1>1 DEF First
<1>3. Len(h.descs) = Len(t)
  <2>1. Len(Descriptors(t, q, Value(q, g))) = Len(t)
    BY EntryLenTyped DEF Descriptors
  <2> QED
    BY <1>2, <2>1
<1>4. \A k \in 1..(h.len - 1) : At(r, (a % RingSize) + k) = h.body[k]
  BY <1>2, HeldSectors
<1>5. HeadSectors(Len(h.descs)) <= h.len /\ h.len \in 1..RingSize
  BY <1>2, <1>3, EntryLenTyped, RingAssumption
<1>6. h.tail < RingSize
  BY <1>2, RingAssumption DEF Ring
<1> QED
  <2> HIDE DEF h
  <2>1. \A k \in 1..(h.len - 1) : At(r, (a % RingSize) + k) = h.body[k]
    BY <1>4
  <2> QED
    BY <1>2, <1>5, <1>6, <2>1 DEF IsEntry, h

\* Its descriptors apply, and restore what the transaction writes.
LEMMA HeldApplies ==
  ASSUME NEW r, NEW a \in Nat, NEW t \in Trans, NEW q \in Nat \ {0}, NEW g, NEW tail \in Ring,
         Holds(r, a, t, q, g, tail)
  PROVE  /\ DOMAIN At(r, a % RingSize).descs = 1..Len(t)
         /\ \A i \in 1..Len(t) :
              /\ Applies(r, a % RingSize, i)
              /\ Restored(r, a % RingSize, i) = Written(Value(q, g), t[i])
              /\ Target(At(r, a % RingSize).descs[i]) = Target(t[i])
<1> DEFINE off == a % RingSize
           h == At(r, off)
           v == Value(q, g)
           ds == Descriptors(t, q, v)
<1>1. h.len = EntryLen(t) /\ h.seq = q /\ h.descs = ds
  <2>1. h = First(t, q, g, tail)
    BY HeldSectors
  <2> HIDE DEF h
  <2> QED
    BY <2>1 DEF First
<1>2. Len(t) \in Nat /\ HeadSectors(Len(t)) \in Nat \ {0} /\ EntryLen(t) \in Nat \ {0}
  BY EntryLenTyped
<1>3. /\ DOMAIN ds = 1..Len(t) /\ Len(ds) = Len(t)
      /\ \A i \in 1..Len(t) :
           ds[i] = [kind |-> t[i].kind, at |-> t[i].at, len |-> t[i].len, seq |-> q, lead |-> v]
  BY <1>2 DEF Descriptors
<1>4. ASSUME NEW i \in 1..Len(t)
      PROVE  /\ ds[i].kind = t[i].kind /\ ds[i].at = t[i].at /\ ds[i].len = t[i].len
             /\ ds[i].seq = q /\ ds[i].lead = v
  <2> HIDE DEF ds, v
  <2>1. ds[i] = [kind |-> t[i].kind, at |-> t[i].at, len |-> t[i].len, seq |-> q, lead |-> v]
    BY <1>3
  <2> QED
    BY <2>1
<1>5. ASSUME NEW i \in 1..Len(t)
      PROVE  Applies(r, off, i) /\ Restored(r, off, i) = Written(v, t[i]) /\ Target(ds[i]) = Target(t[i])
  <2>1. Target(ds[i]) = Target(t[i])
    BY <1>4 DEF Target
  <2>2. CASE t[i].kind = "desc"
    <3> DEFINE k == HeadSectors(Len(t)) + DataIndex(t, i)
               s == At(r, off + k)
    <3>1. DataIndex(ds, i) = DataIndex(t, i)
      <4>1. {j \in 1..(i - 1) : ds[j].kind = "desc"} = {j \in 1..(i - 1) : t[j].kind = "desc"}
        <5>1. \A j \in 1..(i - 1) : j \in 1..Len(t)
          BY <1>2
        <5> HIDE DEF ds
        <5> QED
          BY <1>4, <5>1
      <4> QED
        BY <4>1 DEF DataIndex
    <3>2. DataIndex(t, i) \in Nat /\ DataIndex(t, Len(t) + 1) \in Nat /\ DataIndex(t, i) < DataIndex(t, Len(t) + 1)
      BY <1>2, <2>2, DataIndexes
    <3>3. k \in 1..(EntryLen(t) - 1) /\ ~(k < HeadSectors(Len(t))) /\ k < EntryLen(t)
      BY <1>2, <3>2 DEF EntryLen
    <3>4. IsSectorOf(t, k, q, v, s)
      <4> HIDE DEF k
      <4> QED
        BY <3>3, HeldSectors
    <3>5. s.sig = "data" /\ s.seq = q /\ s.rest = v
      <4> HIDE DEF k, s, v
      <4> QED
        BY <3>3, <3>4 DEF IsSectorOf
    <3>6. DataSector(r, off, i) = s
      <4>1. HeadSectors(Len(h.descs)) + DataIndex(h.descs, i) = k
        <5> HIDE DEF h, ds
        <5> QED
          BY <1>1, <1>3, <3>1
      <4>2. off + HeadSectors(Len(h.descs)) + DataIndex(h.descs, i) = off + k
        <5>1. off \in Nat
          BY Wrap DEF Ring
        <5>2. HeadSectors(Len(h.descs)) = HeadSectors(Len(t)) /\ DataIndex(h.descs, i) = DataIndex(t, i)
          <6> HIDE DEF h, ds
          <6> QED
            BY <1>1, <1>3, <3>1
        <5> HIDE DEF h, off
        <5> QED
          BY <1>2, <3>2, <5>1, <5>2
      <4> HIDE DEF k
      <4> QED
        BY <4>2 DEF DataSector
    <3>7. Applies(r, off, i)
      <4>1. h.descs[i].seq = h.seq
        <5> HIDE DEF h, ds
        <5> QED
          BY <1>1, <1>4
      <4>2. HeadSectors(Len(h.descs)) + DataIndex(h.descs, i) < h.len
        <5> HIDE DEF h, ds
        <5> QED
          BY <1>1, <1>3, <3>1, <3>3
      <4>3. DataSector(r, off, i).sig = "data" /\ DataSector(r, off, i).seq = h.seq
        <5> HIDE DEF h, s
        <5> QED
          BY <1>1, <3>5, <3>6
      <4> QED
        BY <4>1, <4>2, <4>3 DEF Applies
    <3>8. Restored(r, off, i) = Written(v, t[i])
      <4>1. h.descs[i].kind = "desc" /\ h.descs[i].lead = v
        <5> HIDE DEF h, ds, v
        <5> QED
          BY <1>1, <1>4, <2>2
      <4>2. DataSector(r, off, i).rest = v
        <5> HIDE DEF s, v
        <5> QED
          BY <3>5, <3>6
      <4> QED
        BY <2>2, <4>1, <4>2 DEF Restored, Written
    <3> QED
      BY <2>1, <3>7, <3>8
  <2>3. CASE t[i].kind # "desc"
    <3>1. t[i].kind = "zero"
      <4> DEFINE Ds == [kind : {"desc", "zero"}, at : Sectors, len : Nat]
      <4>1. t \in Seq(Ds)
        BY TransTyped DEF IsTrans
      <4>2. t[i] \in Ds
        <5> HIDE DEF Ds
        <5> QED
          BY <1>2, <4>1
      <4> QED
        BY <2>3, <4>2
    <3>2. h.descs[i].kind = "zero" /\ h.descs[i].seq = h.seq
      <4> HIDE DEF h, ds
      <4> QED
        BY <1>1, <1>4, <3>1
    <3> QED
      BY <2>1, <3>1, <3>2 DEF Applies, Restored, Written
  <2> QED
    BY <2>2, <2>3
<1> QED
  <2> HIDE DEF h, ds
  <2>1. DOMAIN h.descs = 1..Len(t)
    BY <1>1, <1>3
  <2>2. \A i \in 1..Len(t) : Target(h.descs[i]) = Target(t[i])
    BY <1>1, <1>5
  <2> QED
    BY <1>5, <2>1, <2>2 DEF h

-----------------------------------------------------------------------------
(* Chains of entries.                                                       *)

\* The number of entry k of a chain whose next entry will be number q.
Number(c, q, k) == q - c.n + k - 1

\* The log g holds the chain c, one entry after the other in less than a whole
\* turn of the region, and the newest records the first as its tail.
Chain(c, r, g, q) ==
  /\ c.n \in Nat /\ q \in Nat /\ q - c.n >= 1
  /\ c.p \in [1..(c.n + 1) -> Nat]
  /\ c.t \in [1..c.n -> Trans]
  /\ c.tail \in [1..c.n -> Ring]
  /\ \A k \in 1..c.n : /\ c.p[k + 1] = c.p[k] + EntryLen(c.t[k])
                       /\ Holds(r, c.p[k], c.t[k], Number(c, q, k), g, c.tail[k])
  /\ c.p[c.n + 1] <= c.p[1] + RingSize
  /\ c.n > 0 => c.tail[c.n] = c.p[1] % RingSize

\* The positions of a chain's entries grow, by a sector or more each.
Grows(c) ==
  /\ \A j, k \in 1..(c.n + 1) : j <= k => c.p[j] + (k - j) <= c.p[k]
  /\ \A k \in 1..c.n : EntryLen(c.t[k]) <= RingSize
  /\ c.n <= RingSize

LEMMA ChainGrows ==
  ASSUME NEW c, NEW r, NEW g, NEW q, Chain(c, r, g, q)
  PROVE  Grows(c)
<1> DEFINE n == c.n
           p == c.p
<1>1. n \in Nat /\ p \in [1..(n + 1) -> Nat] /\ p[n + 1] <= p[1] + RingSize
  BY DEF Chain
<1>2. ASSUME NEW k \in 1..n
      PROVE  p[k + 1] = p[k] + EntryLen(c.t[k]) /\ EntryLen(c.t[k]) \in Nat \ {0}
  <2>1. c.t[k] \in Trans
    BY DEF Chain
  <2> QED
    BY <2>1, EntryLenTyped DEF Chain
<1> DEFINE S == {d \in Nat : \A j \in 1..(n + 1) : j + d <= n + 1 => p[j] + d <= p[j + d]}
<1> HIDE DEF n, p
<1>3. S = Nat
  <2>1. 0 \in S
    BY <1>1
  <2>2. ASSUME NEW d \in S PROVE d + 1 \in S
    <3>1. d \in Nat
      OBVIOUS
    <3> SUFFICES ASSUME NEW j \in 1..(n + 1), j + (d + 1) <= n + 1 PROVE p[j] + (d + 1) <= p[j + (d + 1)]
      BY <3>1
    <3>2. p[j] + d <= p[j + d]
      BY <1>1, <3>1
    <3>3. j + d \in 1..n
      BY <1>1, <3>1
    <3>4. p[j + d] + 1 <= p[(j + d) + 1]
      <4>1. PICK x \in 1..n : x = j + d
        BY <3>3
      <4>2. p[x + 1] = p[x] + EntryLen(c.t[x]) /\ EntryLen(c.t[x]) \in Nat \ {0} /\ p[x] \in Nat
        BY <1>1, <1>2
      <4>3. p[x] + 1 <= p[x + 1]
        BY <4>2
      <4> QED
        BY <4>1, <4>3
    <3>5. (j + d) + 1 = j + (d + 1)
      BY <3>1
    <3>6. p[j] \in Nat /\ p[j + d] \in Nat /\ p[j + (d + 1)] \in Nat
      BY <1>1, <3>1, <3>3, <3>5
    <3> QED
      BY <3>1, <3>2, <3>4, <3>5, <3>6
  <2> HIDE DEF S
  <2>3. S \in SUBSET Nat
    BY DEF S
  <2> QED
    BY <2>1, <2>2, <2>3, SetInduction
<1>4. ASSUME NEW j \in 1..(n + 1), NEW k \in 1..(n + 1), j <= k PROVE p[j] + (k - j) <= p[k]
  <2>1. k - j \in S
    <3> HIDE DEF S
    <3> QED
      BY <1>1, <1>3, <1>4
  <2>2. j + (k - j) = k /\ k <= n + 1
    BY <1>1
  <2>3. PICK d \in S : d = k - j
    BY <2>1
  <2>4. \A i \in 1..(n + 1) : i + d <= n + 1 => p[i] + d <= p[i + d]
    BY <2>3
  <2>5. p[j] + d <= p[j + d]
    BY <2>2, <2>3, <2>4
  <2> QED
    BY <2>2, <2>3, <2>5
<1>5. ASSUME NEW k \in 1..n PROVE EntryLen(c.t[k]) <= RingSize
  <2>a. 1 \in 1..(n + 1) /\ k \in 1..(n + 1) /\ k + 1 \in 1..(n + 1) /\ n + 1 \in 1..(n + 1)
    BY <1>1
  <2>1. p[1] + (k - 1) <= p[k] /\ p[k + 1] + (n + 1 - (k + 1)) <= p[n + 1]
    BY <1>1, <1>4, <2>a
  <2>2. p[k] \in Nat /\ p[1] \in Nat /\ p[k + 1] \in Nat /\ p[n + 1] \in Nat
    BY <1>1, <2>a
  <2>3. p[k + 1] = p[k] + EntryLen(c.t[k]) /\ EntryLen(c.t[k]) \in Nat /\ k \in Nat /\ 1 <= k /\ k <= n
    BY <1>1, <1>2
  <2>4. p[k + 1] <= p[n + 1] /\ p[1] <= p[k]
    BY <1>1, <2>1, <2>2, <2>3
  <2> QED
    BY <1>1, <2>2, <2>3, <2>4, RingAssumption
<1>6. n <= RingSize
  <2>a. 1 \in 1..(n + 1) /\ n + 1 \in 1..(n + 1)
    BY <1>1
  <2>1. p[1] + (n + 1 - 1) <= p[n + 1]
    BY <1>1, <1>4, <2>a
  <2>2. p[1] \in Nat /\ p[n + 1] \in Nat
    BY <1>1
  <2> QED
    BY <1>1, <2>1, <2>2, RingAssumption
<1> QED
  BY <1>4, <1>5, <1>6 DEF Grows, n, p

\* Entry k of a chain, as the reader meets it.
Met(c, r, g, q, k) ==
  LET off == c.p[k] % RingSize IN
  /\ off \in Ring /\ IsEntry(r, off, g)
  /\ At(r, off).seq = Number(c, q, k) /\ Number(c, q, k) \in Nat
  /\ At(r, off).len = EntryLen(c.t[k]) /\ At(r, off).tail = c.tail[k]
  /\ DOMAIN At(r, off).descs = 1..Len(c.t[k])
  /\ \A i \in 1..Len(c.t[k]) :
       /\ Applies(r, off, i)
       /\ Restored(r, off, i) = Written(Value(Number(c, q, k), g), c.t[k][i])
       /\ Target(At(r, off).descs[i]) = Target(c.t[k][i])

LEMMA ChainMet ==
  ASSUME NEW c, NEW r, NEW g, NEW q, Chain(c, r, g, q), NEW k \in 1..c.n
  PROVE  Met(c, r, g, q, k)
<1> DEFINE a == c.p[k]
           t == c.t[k]
           s == Number(c, q, k)
           tail == c.tail[k]
<1>1. /\ a \in Nat /\ t \in Trans /\ s \in Nat \ {0} /\ tail \in Ring
      /\ EntryLen(t) <= RingSize /\ Holds(r, a, t, s, g, tail)
  <2>1. c.n \in Nat /\ q \in Nat /\ q - c.n >= 1 /\ k \in 1..(c.n + 1)
    BY DEF Chain
  <2>2. s \in Nat \ {0}
    BY <2>1 DEF Number
  <2>3. a \in Nat /\ t \in Trans /\ tail \in Ring
    BY <2>1 DEF Chain
  <2>4. EntryLen(t) <= RingSize
    BY ChainGrows DEF Grows
  <2>5. Holds(r, a, t, s, g, tail)
    BY DEF Chain
  <2> QED
    BY <2>2, <2>3, <2>4, <2>5
<1> HIDE DEF a, t, s, tail
<1>2. IsEntry(r, a % RingSize, g)
  BY <1>1, HeldIsEntry
<1>3. At(r, a % RingSize) = First(t, s, g, tail)
  BY <1>1, HeldSectors
<1>4. /\ DOMAIN At(r, a % RingSize).descs = 1..Len(t)
      /\ \A i \in 1..Len(t) :
           /\ Applies(r, a % RingSize, i)
           /\ Restored(r, a % RingSize, i) = Written(Value(s, g), t[i])
           /\ Target(At(r, a % RingSize).descs[i]) = Target(t[i])
  BY <1>1, HeldApplies
<1>5. a % RingSize \in Ring
  BY <1>1, Wrap
<1>6. At(r, a % RingSize).seq = s /\ At(r, a % RingSize).len = EntryLen(t) /\ At(r, a % RingSize).tail = tail
  BY <1>3 DEF First
<1> QED
  BY <1>1, <1>2, <1>4, <1>5, <1>6 DEF Met, a, t, s, tail

-----------------------------------------------------------------------------
(* What Analyze makes of a chain.                                           *)

\* No entry is newer than the chain's newest, nor another as new.
NewestOnly(c, r, g, q) ==
  \A off \in Ring : IsEntry(r, off, g) =>
    /\ At(r, off).seq \in Nat /\ At(r, off).seq < q
    /\ At(r, off).seq = q - 1 => off = c.p[c.n] % RingSize

LEMMA NewestFound ==
  ASSUME NEW c, NEW r, NEW g, NEW q, Chain(c, r, g, q), c.n > 0, NewestOnly(c, r, g, q)
  PROVE  Newest(r, g) = c.p[c.n] % RingSize
<1> DEFINE last == c.p[c.n] % RingSize
           Best(off) == /\ IsEntry(r, off, g)
                        /\ \A o \in Ring : IsEntry(r, o, g) => At(r, o).seq <= At(r, off).seq
<1>1. c.n \in 1..c.n /\ c.n \in Nat /\ q \in Nat
  BY DEF Chain
<1>2. last \in Ring /\ IsEntry(r, last, g) /\ At(r, last).seq = q - 1
  <2>1. Met(c, r, g, q, c.n)
    BY <1>1, ChainMet
  <2>2. Number(c, q, c.n) = q - 1
    BY <1>1 DEF Number
  <2> QED
    BY <2>1, <2>2 DEF Met
<1>3. Best(last)
  BY <1>1, <1>2 DEF NewestOnly
<1>4. ASSUME NEW off \in Ring, Best(off) PROVE off = last
  <2>1. At(r, off).seq \in Nat /\ At(r, off).seq < q /\ q - 1 <= At(r, off).seq
    BY <1>2, <1>4 DEF NewestOnly
  <2>2. At(r, off).seq = q - 1
    BY <1>1, <2>1
  <2> QED
    BY <1>4, <2>2 DEF NewestOnly
<1>5. Newest(r, g) = CHOOSE off \in Ring : Best(off)
  BY DEF Newest
<1> QED
  <2> HIDE DEF Best, last
  <2>1. (CHOOSE off \in Ring : Best(off)) = last
    BY <1>2, <1>3, <1>4
  <2> QED
    BY <1>5, <2>1 DEF last

\* The walk from entry to entry.
WalkStep(r, g, x) == IF IsEntry(r, x, g) THEN (x + At(r, x).len) % RingSize ELSE x
IsWalk(r, g, x, f) ==
  f = [k \in 0..RingSize |->
         IF k = 0 THEN x
         ELSE IF IsEntry(r, f[k - 1], g) THEN (f[k - 1] + At(r, f[k - 1]).len) % RingSize
         ELSE f[k - 1]]

LEMMA WalkExists ==
  ASSUME NEW r, NEW g, NEW x \in Ring
  PROVE  \E f : IsWalk(r, g, x, f)
<1> DEFINE F == [k \in 1..RingSize |-> [y \in Ring |-> WalkStep(r, g, y)]]
<1>1. ASSUME NEW y \in Ring PROVE WalkStep(r, g, y) \in Ring
  <2>1. CASE IsEntry(r, y, g)
    <3>1. y + At(r, y).len \in Nat
      BY <2>1, RingAssumption DEF IsEntry, Ring
    <3>2. (y + At(r, y).len) % RingSize \in Ring
      BY <3>1, Wrap
    <3> QED
      BY <2>1, <3>2 DEF WalkStep
  <2>2. CASE ~IsEntry(r, y, g)
    BY <2>2 DEF WalkStep
  <2> QED
    BY <2>1, <2>2
<1>2. Iteration(RingSize, Ring, x, F)
  BY <1>1, RingAssumption DEF Iteration
<1>3. PICK f \in [0..RingSize -> Ring] : f = [k \in 0..RingSize |-> IF k = 0 THEN x ELSE F[k][f[k - 1]]]
  <2> HIDE DEF F
  <2> QED
    BY <1>2, IterationExists
<1>4. ASSUME NEW k \in 0..RingSize, k # 0 PROVE F[k][f[k - 1]] = WalkStep(r, g, f[k - 1])
  <2>1. k \in 1..RingSize /\ k - 1 \in 0..RingSize
    BY <1>4, RingAssumption
  <2>2. f[k - 1] \in Ring
    BY <1>3, <2>1
  <2> QED
    BY <2>1, <2>2
<1>5. IsWalk(r, g, x, f)
  <2>1. f = [k \in 0..RingSize |-> IF k = 0 THEN x ELSE WalkStep(r, g, f[k - 1])]
    <3> HIDE DEF F
    <3> QED
      BY <1>3, <1>4
  <2> QED
    BY <2>1 DEF IsWalk, WalkStep
<1> QED
  BY <1>5

\* The offsets of a chain's entries are the sequence that is collected.
LEMMA ChainCollected ==
  ASSUME NEW c, NEW r, NEW g, NEW q, Chain(c, r, g, q), c.n > 0, NewestOnly(c, r, g, q)
  PROVE  CollectSequence(r, g) = [k \in 1..c.n |-> c.p[k] % RingSize]
<1> DEFINE n == c.n
           at(k) == c.p[k] % RingSize
           newest == At(r, Newest(r, g))
           nth == CHOOSE f : IsWalk(r, g, newest.tail, f)
           InTurn(k) == IsEntry(r, nth[k], g) /\ At(r, nth[k]).seq = At(r, newest.tail).seq + k
           ends == {k \in 0..RingSize : (\A j \in 0..k : InTurn(j)) /\ At(r, nth[k]).seq = newest.seq}
<1>1. n \in Nat /\ n > 0 /\ q \in Nat /\ q - n >= 1 /\ n <= RingSize
  BY ChainGrows DEF Chain, Grows
<1>2. /\ \A k \in 1..n : Met(c, r, g, q, k)
      /\ \A k \in 1..n : Number(c, q, k) = q - n + k - 1
  BY ChainMet DEF Number
<1>3. newest.tail = at(1) /\ newest.seq = q - 1
  <2>1. newest = At(r, at(n))
    BY NewestFound
  <2>2. Met(c, r, g, q, n) /\ Number(c, q, n) = q - 1
    BY <1>1, <1>2
  <2>3. At(r, at(n)).tail = c.tail[n] /\ At(r, at(n)).seq = q - 1
    BY <2>2 DEF Met
  <2>4. c.tail[n] = at(1)
    BY DEF Chain
  <2> HIDE DEF newest
  <2> QED
    BY <2>1, <2>3, <2>4
<1>4. IsWalk(r, g, at(1), nth)
  <2>1. at(1) \in Ring
    BY <1>1, <1>2 DEF Met
  <2>2. \E f : IsWalk(r, g, at(1), f)
    <3> HIDE DEF at
    <3> QED
      BY <2>1, WalkExists
  <2> HIDE DEF newest, at
  <2> QED
    BY <1>3, <2>2
<1>5. CollectSequence(r, g) =
        IF ends = {} THEN <<-1>> ELSE [k \in 1..(1 + CHOOSE e \in ends : TRUE) |-> nth[k - 1]]
  BY DEF CollectSequence, IsWalk
<1> HIDE DEF nth, newest
<1>6. \A k \in 1..n : nth[k - 1] = at(k)
  <2> DEFINE S == {d \in Nat : d < n => nth[d] = at(d + 1)}
  <2>1. 0 \in S
    BY <1>1, <1>4, RingAssumption DEF IsWalk
  <2>2. ASSUME NEW d \in S PROVE d + 1 \in S
    <3>1. d \in Nat
      OBVIOUS
    <3> SUFFICES ASSUME d + 1 < n PROVE nth[d + 1] = at((d + 1) + 1)
      BY <3>1
    <3>2. nth[d] = at(d + 1) /\ d + 1 \in 1..n
      BY <1>1, <3>1
    <3>3. PICK k \in 1..n : k = d + 1
      BY <3>2
    <3>4. IsEntry(r, at(k), g) /\ At(r, at(k)).len = EntryLen(c.t[k])
      BY <1>2 DEF Met
    <3>5. nth[k] = IF IsEntry(r, nth[k - 1], g) THEN (nth[k - 1] + At(r, nth[k - 1]).len) % RingSize
                   ELSE nth[k - 1]
      <4>1. k \in 0..RingSize /\ k # 0
        BY <1>1, RingAssumption
      <4> HIDE DEF at
      <4> QED
        BY <1>4, <4>1 DEF IsWalk
    <3>6. nth[k - 1] = at(k)
      BY <3>1, <3>2, <3>3
    <3>7. nth[k] = (at(k) + EntryLen(c.t[k])) % RingSize
      <4> HIDE DEF at
      <4> QED
        BY <3>4, <3>5, <3>6
    <3>8. c.p[k] \in Nat /\ EntryLen(c.t[k]) \in Nat /\ c.p[k + 1] = c.p[k] + EntryLen(c.t[k])
      <4>1. c.t[k] \in Trans
        BY DEF Chain
      <4>2. k \in 1..(c.n + 1)
        BY <1>1
      <4>3. c.p[k] \in Nat /\ c.p[k + 1] = c.p[k] + EntryLen(c.t[k])
        BY <4>2 DEF Chain
      <4> QED
        BY <4>1, <4>3, EntryLenTyped
    <3>9. nth[k] = at(k + 1)
      BY <3>7, <3>8, Wrap
    <3> QED
      BY <3>1, <3>3, <3>9
  <2>3. S = Nat
    <3> HIDE DEF S
    <3>1. S \in SUBSET Nat
      BY DEF S
    <3> QED
      BY <2>1, <2>2, <3>1, SetInduction
  <2> SUFFICES ASSUME NEW k \in 1..n PROVE nth[k - 1] = at(k)
    OBVIOUS
  <2>4. PICK d \in S : d = k - 1
    <3> HIDE DEF S
    <3> QED
      BY <1>1, <2>3
  <2>5. nth[d] = at(d + 1)
    BY <1>1, <2>4
  <2>6. d + 1 = k
    BY <2>4
  <2> QED
    BY <2>4, <2>5, <2>6
<1>7. At(r, newest.tail).seq = q - n
  <2>1. 1 \in 1..n
    BY <1>1
  <2>2. Met(c, r, g, q, 1) /\ Number(c, q, 1) = q - n
    BY <1>1, <1>2, <2>1
  <2> QED
    BY <1>3, <2>2 DEF Met
<1>8. \A k \in 1..n : InTurn(k - 1)
  <2> SUFFICES ASSUME NEW k \in 1..n PROVE InTurn(k - 1)
    OBVIOUS
  <2>1. IsEntry(r, at(k), g) /\ At(r, at(k)).seq = q - n + k - 1
    BY <1>2 DEF Met
  <2>2. nth[k - 1] = at(k)
    BY <1>6
  <2>3. q - n + k - 1 = q - n + (k - 1)
    BY <1>1
  <2> HIDE DEF at
  <2> QED
    BY <1>7, <2>1, <2>2, <2>3
<1>9. ends = {n - 1}
  <2>1. n - 1 \in ends
    <3>1. \A j \in 0..(n - 1) : InTurn(j)
      <4> SUFFICES ASSUME NEW j \in 0..(n - 1) PROVE InTurn(j)
        OBVIOUS
      <4>1. PICK k \in 1..n : k = j + 1
        BY <1>1
      <4>2. k - 1 = j
        BY <4>1
      <4> HIDE DEF InTurn
      <4> QED
        BY <1>8, <4>2
    <3>2. At(r, nth[n - 1]).seq = newest.seq
      <4>1. InTurn(n - 1) /\ q - n + (n - 1) = q - 1
        BY <1>1, <3>1
      <4> QED
        BY <1>3, <1>7, <4>1
    <3>3. n - 1 \in 0..RingSize
      BY <1>1, RingAssumption
    <3> HIDE DEF InTurn
    <3> QED
      BY <3>1, <3>2, <3>3
  <2>2. ASSUME NEW k \in ends PROVE k = n - 1
    <3>1. k \in 0..RingSize /\ InTurn(k) /\ At(r, nth[k]).seq = newest.seq
      <4>1. k \in 0..RingSize /\ (\A j \in 0..k : InTurn(j)) /\ At(r, nth[k]).seq = newest.seq
        <5> HIDE DEF InTurn
        <5> QED
          OBVIOUS
      <4> QED
        BY <4>1
    <3>2. q - n + k = q - 1
      BY <1>3, <1>7, <3>1
    <3> QED
      BY <1>1, <3>1, <3>2
  <2> HIDE DEF ends
  <2> QED
    BY <2>1, <2>2
<1>10. CollectSequence(r, g) = [k \in 1..n |-> nth[k - 1]]
  <2>1. (CHOOSE e \in ends : TRUE) = n - 1 /\ ends # {}
    <3> HIDE DEF ends
    <3> QED
      BY <1>9
  <2>2. 1 + (n - 1) = n
    BY <1>1
  <2> HIDE DEF ends
  <2> QED
    BY <1>5, <2>1, <2>2
<1> QED
  BY <1>6, <1>10

\* The descriptors of a chain, as <<entry, descriptor>>, and what they write.
Steps(c) == UNION {{<<k, i>> : i \in 1..Len(c.t[k])} : k \in 1..c.n}
StepTarget(c, x) == Target(c.t[x[1]][x[2]])
Later(x, y) == (x[1] > y[1]) \/ (x[1] = y[1] /\ x[2] >= y[2])
HitsOf(c, s) == {x \in Steps(c) : s \in StepTarget(c, x)}
Covered(c) == UNION {StepTarget(c, x) : x \in Steps(c)}
IsLast(c, s, x) == x \in HitsOf(c, s) /\ \A y \in HitsOf(c, s) : Later(x, y)

\* f holds what the last descriptor for each sector writes.
Says(c, g, q, f) ==
  \A s \in Sectors : \A x \in Steps(c) :
    IsLast(c, s, x) => f[s] = Written(Value(Number(c, q, x[1]), g), c.t[x[1]][x[2]])

LEMMA StepsTyped ==
  ASSUME NEW c, NEW r, NEW g, NEW q, Chain(c, r, g, q)
  PROVE  /\ \A x \in Steps(c) : /\ x[1] \in 1..c.n /\ x[2] \in 1..Len(c.t[x[1]]) /\ x = <<x[1], x[2]>>
                                /\ StepTarget(c, x) \subseteq Sectors
         /\ Covered(c) \subseteq Sectors
<1>1. ASSUME NEW x \in Steps(c)
      PROVE  /\ x[1] \in 1..c.n /\ x[2] \in 1..Len(c.t[x[1]]) /\ x = <<x[1], x[2]>>
             /\ StepTarget(c, x) \subseteq Sectors
  <2>1. PICK k \in 1..c.n : \E i \in 1..Len(c.t[k]) : x = <<k, i>>
    BY DEF Steps
  <2>2. PICK i \in 1..Len(c.t[k]) : x = <<k, i>>
    BY <2>1
  <2>3. c.t[k] \in Trans
    BY DEF Chain
  <2>4. Target(c.t[k][i]) \subseteq Sectors
    BY <2>3, TransTyped DEF IsTrans
  <2> QED
    BY <2>2, <2>4 DEF StepTarget
<1> QED
  BY <1>1 DEF Covered

\* Of the descriptors that name a sector one is the last.
LEMMA LastHit ==
  ASSUME NEW c, NEW r, NEW g, NEW q, Chain(c, r, g, q), NEW s \in Covered(c)
  PROVE  /\ \E x \in Steps(c) : IsLast(c, s, x)
         /\ \A x, y \in Steps(c) : IsLast(c, s, x) /\ IsLast(c, s, y) => x = y
<1> DEFINE K == {k \in 0..c.n : \E x \in HitsOf(c, s) : x[1] = k}
<1>0. \A x \in Steps(c) : x[1] \in 1..c.n /\ x[2] \in 1..Len(c.t[x[1]]) /\ x = <<x[1], x[2]>>
  BY StepsTyped
<1>a. c.n \in Nat /\ \A k \in 1..c.n : Len(c.t[k]) \in Nat
  <2>1. \A k \in 1..c.n : c.t[k] \in Trans
    BY DEF Chain
  <2> QED
    BY <2>1, EntryLenTyped DEF Chain
<1>1. PICK k \in K : \A j \in K : j <= k
  <2>1. K # {}
    <3>1. PICK x \in Steps(c) : s \in StepTarget(c, x)
      BY DEF Covered
    <3>2. x \in HitsOf(c, s) /\ x[1] \in 0..c.n
      BY <1>0, <1>a, <3>1 DEF HitsOf
    <3> QED
      BY <3>2
  <2>2. K \in SUBSET (0..c.n)
    OBVIOUS
  <2> HIDE DEF K
  <2> QED
    BY <1>a, <2>1, <2>2, GreatestExists
<1>2. PICK z \in HitsOf(c, s) : z[1] = k
  OBVIOUS
<1>3. k \in 1..c.n
  BY <1>0, <1>2 DEF HitsOf
<1> DEFINE I == {i \in 0..Len(c.t[k]) : \E x \in HitsOf(c, s) : x[1] = k /\ x[2] = i}
<1>4. PICK i \in I : \A j \in I : j <= i
  <2>0. Len(c.t[k]) \in Nat
    BY <1>3, <1>a
  <2>1. I # {}
    <3>1. z[2] \in 1..Len(c.t[k])
      BY <1>0, <1>2 DEF HitsOf
    <3>2. z[2] \in I
      BY <1>2, <2>0, <3>1
    <3> QED
      BY <3>2
  <2>2. I \in SUBSET (0..Len(c.t[k]))
    OBVIOUS
  <2> HIDE DEF I
  <2> QED
    BY <2>0, <2>1, <2>2, GreatestExists
<1>5. PICK x \in HitsOf(c, s) : x[1] = k /\ x[2] = i
  OBVIOUS
<1>6. ASSUME NEW y \in HitsOf(c, s) PROVE Later(x, y)
  <2>1. y[1] \in 1..c.n /\ y[2] \in 1..Len(c.t[y[1]])
    BY <1>0 DEF HitsOf
  <2>2. y[1] <= k
    <3>1. y[1] \in K
      BY <2>1, <1>a
    <3> QED
      BY <1>1, <3>1
  <2>3. y[1] = k => y[2] <= i
    <3> SUFFICES ASSUME y[1] = k PROVE y[2] <= i
      OBVIOUS
    <3>1. y[2] \in I
      BY <1>3, <1>a, <2>1
    <3> QED
      BY <1>4, <3>1
  <2> HIDE DEF K, I
  <2>4. k \in Nat
    BY <1>3
  <2>5. Len(c.t[k]) \in Nat
    BY <1>3, <1>a
  <2>6. i \in Nat
    BY <2>5 DEF I
  <2>7. y[1] < k \/ y[1] = k
    BY <1>a, <2>1, <2>2, <2>4
  <2>8. CASE y[1] < k
    BY <1>5, <2>1, <2>4, <2>8 DEF Later
  <2>9. CASE y[1] = k
    BY <1>5, <2>1, <2>3, <2>5, <2>6, <2>9 DEF Later
  <2> QED
    BY <2>7, <2>8, <2>9
<1>7. x \in Steps(c) /\ IsLast(c, s, x)
  BY <1>6 DEF IsLast, HitsOf
<1>8. ASSUME NEW u \in Steps(c), NEW v \in Steps(c), IsLast(c, s, u), IsLast(c, s, v) PROVE u = v
  <2>1. Later(u, v) /\ Later(v, u)
    BY <1>8 DEF IsLast
  <2>2. u[1] \in Nat /\ v[1] \in Nat /\ u[2] \in Nat /\ v[2] \in Nat
    <3>1. u[1] \in 1..c.n /\ u[2] \in 1..Len(c.t[u[1]]) /\ v[1] \in 1..c.n /\ v[2] \in 1..Len(c.t[v[1]])
      BY <1>0
    <3> QED
      BY <1>a, <3>1
  <2>3. u[1] = v[1] /\ u[2] = v[2]
    BY <2>1, <2>2 DEF Later
  <2>4. u = <<u[1], u[2]>> /\ v = <<v[1], v[2]>>
    BY <1>0
  <2> QED
    BY <2>3, <2>4
<1> QED
  BY <1>7, <1>8

\* Replaying the chain's offsets writes what its transactions write.
Replayed(c, f, over) == DOMAIN over = Covered(c) /\ \A s \in Covered(c) : over[s] = f[s]

LEMMA ChainReplayed ==
  ASSUME NEW c, NEW r, NEW g, NEW q, Chain(c, r, g, q), NEW f, Says(c, g, q, f)
  PROVE  Replayed(c, f, Replay(r, [k \in 1..c.n |-> c.p[k] % RingSize]))
<1> DEFINE chain == [k \in 1..c.n |-> c.p[k] % RingSize]
           all == Writes(r, chain)
           hits(s) == {x \in all : s \in WriteTarget(r, chain, x)}
           last(s) == CHOOSE x \in hits(s) : \A y \in hits(s) : Later(x, y)
           value(s) == Restored(r, chain[last(s)[1]], last(s)[2])
           cover == UNION {WriteTarget(r, chain, x) : x \in all}
<1>1. Replay(r, chain) = [s \in cover |-> value(s)]
  BY DEF Replay, Later
<1>2. /\ \A k \in 1..c.n : Met(c, r, g, q, k)
      /\ DOMAIN chain = 1..c.n /\ \A k \in 1..c.n : chain[k] = c.p[k] % RingSize
  BY ChainMet
<1> HIDE DEF chain
<1>3. \A k \in 1..c.n :
        /\ DOMAIN At(r, chain[k]).descs = 1..Len(c.t[k])
        /\ \A i \in 1..Len(c.t[k]) :
             /\ Restored(r, chain[k], i) = Written(Value(Number(c, q, k), g), c.t[k][i])
             /\ Target(At(r, chain[k]).descs[i]) = Target(c.t[k][i])
  BY <1>2 DEF Met
<1>4. all = Steps(c)
  <2>1. all = UNION {{<<k, i>> : i \in DOMAIN At(r, chain[k]).descs} : k \in 1..c.n}
    BY <1>2 DEF Writes
  <2>2. \A k \in 1..c.n : {<<k, i>> : i \in DOMAIN At(r, chain[k]).descs} = {<<k, i>> : i \in 1..Len(c.t[k])}
    BY <1>3
  <2> HIDE DEF all
  <2> QED
    BY <2>1, <2>2 DEF Steps
<1>0. \A x \in Steps(c) : x[1] \in 1..c.n /\ x[2] \in 1..Len(c.t[x[1]])
  BY StepsTyped
<1>5. \A x \in Steps(c) : WriteTarget(r, chain, x) = StepTarget(c, x)
  BY <1>0, <1>3 DEF WriteTarget, StepTarget
<1>6. cover = Covered(c)
  <2> HIDE DEF all
  <2> QED
    BY <1>4, <1>5 DEF Covered
<1>7. \A s : hits(s) = HitsOf(c, s)
  <2> HIDE DEF all
  <2> QED
    BY <1>4, <1>5 DEF HitsOf
<1>8. ASSUME NEW s \in Covered(c) PROVE value(s) = f[s]
  <2>1. PICK x \in Steps(c) : IsLast(c, s, x)
    BY LastHit
  <2>2. x \in hits(s) /\ \A y \in hits(s) : Later(x, y)
    <3> HIDE DEF hits
    <3> QED
      BY <1>7, <2>1 DEF IsLast
  <2>3. ASSUME NEW y \in hits(s), \A z \in hits(s) : Later(y, z) PROVE y = x
    <3>1. IsLast(c, s, y) /\ y \in Steps(c)
      <4> HIDE DEF hits
      <4> QED
        BY <1>7, <2>3 DEF IsLast, HitsOf
    <3> QED
      BY <2>1, <3>1, LastHit
  <2>4. last(s) = x
    <3> HIDE DEF hits
    <3> QED
      BY <2>2, <2>3
  <2>5. value(s) = Restored(r, chain[x[1]], x[2])
    <3> HIDE DEF last
    <3> QED
      BY <2>4
  <2>6. Restored(r, chain[x[1]], x[2]) = Written(Value(Number(c, q, x[1]), g), c.t[x[1]][x[2]])
    BY <1>0, <1>3
  <2>7. s \in Sectors
    BY StepsTyped
  <2> HIDE DEF value
  <2> QED
    BY <2>1, <2>5, <2>6, <2>7 DEF Says
<1> QED
  <2> HIDE DEF cover, value
  <2>1. DOMAIN Replay(r, chain) = Covered(c)
    BY <1>1, <1>6
  <2>2. \A s \in Covered(c) : Replay(r, chain)[s] = f[s]
    BY <1>1, <1>6, <1>8
  <2> QED
    BY <2>1, <2>2 DEF chain, Replayed

\* What an open reads through the log g is f in the sectors of K, and the file
\* in the others.
Reads(r, g, K, f) ==
  /\ Analyze(r, g).ok /\ DOMAIN Analyze(r, g).over = K
  /\ \A s \in K : Analyze(r, g).over[s] = f[s]

LEMMA ChainRead ==
  ASSUME NEW c, NEW r, NEW g, NEW q, Chain(c, r, g, q), c.n > 0, NewestOnly(c, r, g, q),
         NEW f, Says(c, g, q, f), FileSize <= MaxOverlay
  PROVE  Reads(r, g, Covered(c), f)
<1> DEFINE chain == CollectSequence(r, g)
           over == Replay(r, chain)
<1>1. chain = [k \in 1..c.n |-> c.p[k] % RingSize]
  BY ChainCollected
<1>2. DOMAIN over = Covered(c) /\ \A s \in Covered(c) : over[s] = f[s]
  <2> HIDE DEF chain
  <2>1. Replayed(c, f, over)
    BY <1>1, ChainReplayed
  <2> QED
    BY <2>1 DEF Replayed
<1>3. c.n \in Nat /\ 1 \in 1..c.n /\ \A k \in 1..c.n : Met(c, r, g, q, k)
  <2>1. c.n \in Nat /\ 1 \in 1..c.n
    BY DEF Chain
  <2> QED
    BY <2>1, ChainMet
<1>4. DOMAIN chain = 1..c.n /\ \A k \in 1..c.n : chain[k] = c.p[k] % RingSize
  BY <1>1
<1> HIDE DEF chain
<1>5. chain # <<-1>>
  <2>1. chain[1] \in Ring
    BY <1>3, <1>4 DEF Met
  <2>2. <<-1>>[1] = -1 /\ -1 \notin Ring
    BY DEF Ring
  <2> QED
    BY <2>1, <2>2
<1>6. \A k \in DOMAIN chain : \A i \in DOMAIN At(r, chain[k]).descs : Applies(r, chain[k], i)
  <2> SUFFICES ASSUME NEW k \in DOMAIN chain, NEW i \in DOMAIN At(r, chain[k]).descs
               PROVE  Applies(r, chain[k], i)
    OBVIOUS
  <2>1. k \in 1..c.n /\ chain[k] = c.p[k] % RingSize
    BY <1>4
  <2>2. i \in DOMAIN At(r, c.p[k] % RingSize).descs
    BY <2>1
  <2> QED
    BY <1>3, <2>1, <2>2 DEF Met
<1>7. Cardinality(DOMAIN over) <= MaxOverlay
  <2>1. IsFiniteSet(Sectors) /\ Cardinality(Sectors) = FileSize
    BY FS_Interval, RingAssumption DEF Sectors
  <2>2. Covered(c) \subseteq Sectors
    BY StepsTyped
  <2>3. IsFiniteSet(Covered(c)) /\ Cardinality(Covered(c)) <= FileSize
    BY <2>1, <2>2, FS_Subset
  <2>4. Cardinality(Covered(c)) \in Nat
    BY <2>3, FS_CardinalityType
  <2> HIDE DEF over
  <2> QED
    BY <1>2, <2>3, <2>4, RingAssumption, OverlayAssumption
<1>8. \E off \in Ring : IsEntry(r, off, g)
  BY <1>3 DEF Met
<1>9. Analyze(r, g) = [ok |-> TRUE, over |-> over]
  BY <1>5, <1>6, <1>7, <1>8 DEF Analyze, chain
<1> QED
  <2> HIDE DEF over
  <2>1. Analyze(r, g).ok /\ Analyze(r, g).over = over
    BY <1>9
  <2> QED
    BY <1>2, <2>1 DEF Reads

-----------------------------------------------------------------------------
(* A log at rest, and one an entry is being written to.                     *)

\* The sector was written with a value below v.
Older(x, v) ==
  /\ x.sig \in {"none", "more", "data", "loge"}
  /\ x.sig \in {"more", "data"} => x.rest \in Int /\ x.rest < v
  /\ x.sig = "loge" => x.seq \in Nat /\ x.guid \in Nat /\ Value(x.seq, x.guid) < v
OnlyOlder(r, v) == \A x \in Ring : Older(r[x], v)

LEMMA OlderStays ==
  ASSUME NEW x, NEW v \in Int, NEW u \in Int, v <= u, Older(x, v)
  PROVE  Older(x, u)
<1>1. CASE x.sig = "loge"
  <2>1. x.seq \in Nat /\ x.guid \in Nat /\ Value(x.seq, x.guid) < v
    BY <1>1 DEF Older
  <2>2. Value(x.seq, x.guid) \in Int
    <3>1. PICK a \in Int : a = x.seq
      BY <2>1
    <3>2. PICK b \in Nat : b = x.guid
      BY <2>1
    <3>3. Value(a, b) \in Int
      BY Values
    <3> QED
      BY <3>1, <3>2, <3>3
  <2>3. Value(x.seq, x.guid) < u
    BY <2>1, <2>2
  <2> QED
    BY <1>1, <2>1, <2>3 DEF Older
<1>2. CASE x.sig # "loge"
  BY <1>2 DEF Older
<1> QED
  BY <1>1, <1>2

\* Of the last number used there is an entry at the newest place alone.
OnlyNewest(c, r, g, q) ==
  c.n > 0 => \A x \in Ring : r[x].sig = "loge" /\ r[x].guid = g /\ r[x].seq = q - 1
                               => x = c.p[c.n] % RingSize

LEMMA InPlace ==
  ASSUME NEW r, NEW x \in Ring
  PROVE  x % RingSize = x /\ At(r, x) = r[x]
<1>1. x \in Nat /\ 0 * RingSize <= x /\ x < (0 + 1) * RingSize
  BY RingAssumption DEF Ring
<1>2. x % RingSize = x - 0 * RingSize
  BY <1>1, RingAssumption, DivisionUnique
<1>3. x % RingSize = x
  <2>1. x - 0 * RingSize = x
    BY <1>1, RingAssumption
  <2> QED
    BY <1>2, <2>1
<1> QED
  BY <1>3 DEF At

\* An entry of the log whose first sector is older is no newer than the newest.
LEMMA OlderEntry ==
  ASSUME NEW c, NEW r, NEW g \in Nat, NEW q \in Nat, OnlyNewest(c, r, g, q), c.n > 0,
         NEW off \in Ring, IsEntry(r, off, g), Older(r[off], Value(q, g))
  PROVE  /\ At(r, off).seq \in Nat /\ At(r, off).seq < q
         /\ At(r, off).seq = q - 1 => off = c.p[c.n] % RingSize
<1>1. At(r, off) = r[off]
  BY InPlace
<1>2. r[off].sig = "loge" /\ r[off].guid = g
  BY <1>1 DEF IsEntry
<1>3. r[off].seq \in Nat /\ Value(r[off].seq, g) < Value(q, g)
  BY <1>2 DEF Older
<1>4. r[off].seq < q
  <2>1. PICK a \in Int : a = r[off].seq
    BY <1>3
  <2>2. Value(a, g) < Value(q, g) => a < q
    BY Values
  <2> QED
    BY <1>3, <2>1, <2>2
<1> QED
  BY <1>1, <1>2, <1>3, <1>4 DEF OnlyNewest

LEMMA RestNewest ==
  ASSUME NEW c, NEW r, NEW g \in Nat, NEW q \in Nat, OnlyNewest(c, r, g, q), c.n > 0,
         OnlyOlder(r, Value(q, g))
  PROVE  NewestOnly(c, r, g, q)
<1> SUFFICES ASSUME NEW off \in Ring, IsEntry(r, off, g)
             PROVE  /\ At(r, off).seq \in Nat /\ At(r, off).seq < q
                    /\ At(r, off).seq = q - 1 => off = c.p[c.n] % RingSize
  BY DEF NewestOnly
<1>1. Older(r[off], Value(q, g))
  BY DEF OnlyOlder
<1> QED
  BY <1>1, OlderEntry

\* Of the entry for t, which begins at position a, the sectors in todo are still
\* to be written: they and the rest of the region are older.
Place(a, k) == (a + k - 1) % RingSize
Pair(a, t, q, g, tail, k) == <<Place(a, k), Entry(t, q, g, tail)[k]>>
Writing(r, a, t, q, g, tail, todo) ==
  /\ todo # {}
  /\ \A x \in todo : \E k \in 1..EntryLen(t) : x = Pair(a, t, q, g, tail, k)
  /\ \A k \in 1..EntryLen(t) :
       IF Pair(a, t, q, g, tail, k) \in todo
         THEN Older(r[Place(a, k)], Value(q, g))
         ELSE r[Place(a, k)] = Entry(t, q, g, tail)[k]
  /\ \A x \in Ring : (\A k \in 1..EntryLen(t) : x # Place(a, k)) => Older(r[x], Value(q, g))

\* An entry that is not complete is no entry: no half-written one is found.
LEMMA WritingNewest ==
  ASSUME NEW c, NEW r, NEW g \in Nat, NEW q \in Nat, OnlyNewest(c, r, g, q), c.n > 0,
         NEW a \in Nat, NEW t \in Trans, NEW tail, NEW todo, Writing(r, a, t, q, g, tail, todo)
  PROVE  NewestOnly(c, r, g, q)
<1> DEFINE v == Value(q, g)
           n == EntryLen(t)
           e == Entry(t, q, g, tail)
<1>0. n \in Nat \ {0}
  BY EntryLenTyped
<1> SUFFICES ASSUME NEW off \in Ring, IsEntry(r, off, g)
             PROVE  /\ At(r, off).seq \in Nat /\ At(r, off).seq < q
                    /\ At(r, off).seq = q - 1 => off = c.p[c.n] % RingSize
  BY DEF NewestOnly
<1>1. ASSUME ~Older(r[off], v) PROVE FALSE
  <2>1. PICK k \in 1..n : off = Place(a, k) /\ Pair(a, t, q, g, tail, k) \notin todo
    BY <1>1 DEF Writing
  <2>2. r[off] = e[k]
    BY <2>1 DEF Writing
  <2>3. At(r, off) = r[off] /\ r[off].sig = "loge"
    BY InPlace DEF IsEntry
  <2>4. k = 1
    <3> SUFFICES ASSUME k # 1 PROVE FALSE
      OBVIOUS
    <3>1. PICK j \in 1..(n - 1) : k = j + 1
      <4>1. k - 1 \in 1..(n - 1) /\ k = (k - 1) + 1
        BY <1>0
      <4> QED
        BY <4>1
    <3>2. IsSectorOf(t, j, q, v, e[k])
      BY <3>1, EntryShape
    <3>3. e[k].sig # "loge"
      <4> HIDE DEF e, v
      <4> QED
        BY <3>2 DEF IsSectorOf
    <3> HIDE DEF e
    <3> QED
      BY <2>2, <2>3, <3>3
  <2>5. At(r, off).len = n /\ At(r, off).body = Body(t, q, v)
    <3>1. e[1] = First(t, q, g, tail)
      BY EntryShape
    <3>2. At(r, off) = First(t, q, g, tail)
      <4> HIDE DEF e
      <4> QED
        BY <2>2, <2>3, <2>4, <3>1
    <3> QED
      BY <3>2 DEF First
  <2>6. PICK j \in 1..n : Pair(a, t, q, g, tail, j) \in todo
    BY DEF Writing
  <2>7. j # 1
    BY <2>1, <2>4, <2>6
  <2>8. j - 1 \in 1..(n - 1)
    BY <1>0, <2>7
  <2>9. At(r, off + (j - 1)) = Body(t, q, v)[j - 1]
    <3>1. At(r, off + (j - 1)) = At(r, off).body[j - 1]
      <4> HIDE DEF n
      <4> QED
        BY <2>5, <2>8 DEF IsEntry
    <3> QED
      BY <2>5, <3>1
  <2>10. At(r, off + (j - 1)) = r[Place(a, j)]
    <3>1. off = a % RingSize
      <4>1. a + 1 - 1 = a
        OBVIOUS
      <4> QED
        BY <2>1, <2>4, <4>1 DEF Place
    <3>2. j - 1 \in Nat /\ a + (j - 1) = a + j - 1
      BY <1>0
    <3>3. ((a % RingSize) + (j - 1)) % RingSize = (a + (j - 1)) % RingSize
      BY <3>2, Wrap
    <3> QED
      BY <3>1, <3>2, <3>3 DEF At, Place
  <2>11. IsSectorOf(t, j - 1, q, v, r[Place(a, j)])
    <3>1. IsSectorOf(t, j - 1, q, v, Body(t, q, v)[j - 1])
      BY <2>8, EntryShape
    <3> QED
      BY <2>9, <2>10, <3>1
  <2>12. Older(r[Place(a, j)], v)
    BY <2>6 DEF Writing
  <2>13. r[Place(a, j)].sig \in {"more", "data"} /\ r[Place(a, j)].rest = v
    <3> HIDE DEF v
    <3> QED
      BY <2>11 DEF IsSectorOf
  <2>14. v \in Int /\ v < v
    <3>1. v \in Int
      BY Values
    <3> HIDE DEF v
    <3> QED
      BY <2>12, <2>13, <3>1 DEF Older
  <2> HIDE DEF v
  <2> QED
    BY <2>14
<1>2. Older(r[off], v)
  BY <1>1
<1> QED
  BY <1>2, OlderEntry

\* What the sectors of an entry are worth, whichever of them it is.
LEMMA EntrySectors ==
  ASSUME NEW t \in Trans, NEW q \in Int, NEW g \in Nat, NEW tail, NEW k \in 1..EntryLen(t)
  PROVE  /\ Entry(t, q, g, tail)[k].sig = "loge"
              => k = 1 /\ Entry(t, q, g, tail)[k].guid = g /\ Entry(t, q, g, tail)[k].seq = q
         /\ q \in Nat => Older(Entry(t, q, g, tail)[k], Value(q + 1, g))
<1> DEFINE e == Entry(t, q, g, tail)
           v == Value(q, g)
<1>0. EntryLen(t) \in Nat \ {0} /\ v \in Int /\ Value(q + 1, g) = v + 1
  BY EntryLenTyped, Values
<1>1. CASE k = 1
  <2>1. e[k] = First(t, q, g, tail)
    BY <1>1, EntryShape
  <2>2. e[k].sig = "loge" /\ e[k].guid = g /\ e[k].seq = q
    <3> HIDE DEF e
    <3> QED
      BY <2>1 DEF First
  <2>3. q \in Nat => Older(e[k], Value(q + 1, g))
    <3>1. Value(e[k].seq, e[k].guid) < Value(q + 1, g)
      <4> HIDE DEF e
      <4> QED
        BY <1>0, <2>2
    <3> HIDE DEF e
    <3> QED
      BY <2>2, <3>1 DEF Older
  <2> QED
    BY <1>1, <2>2, <2>3
<1>2. CASE k # 1
  <2>1. PICK j \in 1..(EntryLen(t) - 1) : k = j + 1
    <3>1. k - 1 \in 1..(EntryLen(t) - 1) /\ k = (k - 1) + 1
      BY <1>0, <1>2
    <3> QED
      BY <3>1
  <2>2. IsSectorOf(t, j, q, v, e[k])
    BY <2>1, EntryShape
  <2>3. e[k].sig \in {"more", "data"} /\ e[k].rest = v
    <3> HIDE DEF e, v
    <3> QED
      BY <2>2 DEF IsSectorOf
  <2>4. Older(e[k], Value(q + 1, g)) /\ e[k].sig # "loge"
    <3> HIDE DEF e, v
    <3> QED
      BY <1>0, <2>3 DEF Older
  <2> QED
    BY <2>4
<1> QED
  BY <1>1, <1>2

\* One sector of the entry is written.
Wrote(r, rr, x) == DOMAIN r = Ring /\ rr = [r EXCEPT ![x[1]] = x[2]]

\* The entry is complete, and what it left is older.
Done(r, a, t, q, g, tail) ==
  /\ Holds(r, a, t, q, g, tail)
  /\ \A x \in Ring : (\A k \in 1..EntryLen(t) : x # Place(a, k)) => Older(r[x], Value(q, g))

LEMMA WriteOne ==
  ASSUME NEW r, NEW rr, NEW a \in Nat, NEW t \in Trans, NEW q, NEW g, NEW tail, NEW todo,
         Writing(r, a, t, q, g, tail, todo), EntryLen(t) <= RingSize,
         NEW x \in todo, Wrote(r, rr, x)
  PROVE  /\ todo # {x} => Writing(rr, a, t, q, g, tail, todo \ {x})
         /\ todo = {x} => Done(rr, a, t, q, g, tail)
<1> DEFINE n == EntryLen(t)
           pair(k) == Pair(a, t, q, g, tail, k)
           place(k) == Place(a, k)
           e == Entry(t, q, g, tail)
<1>0. n \in Nat \ {0}
  BY EntryLenTyped
<1>1. PICK j \in 1..n : x = pair(j)
  BY DEF Writing
<1>2. ASSUME NEW k \in 1..n PROVE place(k) \in Ring /\ (k # j => place(k) # place(j))
  <2>1. a + k - 1 \in Nat /\ a + j - 1 \in Nat
    BY <1>0
  <2>2. (a + k - 1) % RingSize \in Ring
    BY <2>1, Wrap
  <2>3. ASSUME place(k) = place(j) PROVE k = j
    <3>1. CASE k <= j
      <4>1. a + k - 1 <= a + j - 1 /\ a + j - 1 < (a + k - 1) + RingSize
        BY <1>0, <3>1, RingAssumption
      <4>2. a + k - 1 = a + j - 1
        BY <2>1, <2>3, <4>1, Apart DEF Place
      <4> QED
        BY <4>2
    <3>2. CASE j <= k
      <4>1. a + j - 1 <= a + k - 1 /\ a + k - 1 < (a + j - 1) + RingSize
        BY <1>0, <3>2, RingAssumption
      <4>2. a + j - 1 = a + k - 1
        BY <2>1, <2>3, <4>1, Apart DEF Place
      <4> QED
        BY <4>2
    <3> QED
      BY <1>0, <3>1, <3>2
  <2> QED
    BY <2>2, <2>3 DEF Place
<1>3. \A k \in 1..n : k # j => pair(k) # x
  BY <1>1, <1>2 DEF Pair
<1>4. x[1] = place(j) /\ x[2] = e[j]
  BY <1>1 DEF Pair
<1>5. /\ DOMAIN rr = Ring /\ rr[place(j)] = e[j]
      /\ \A y \in Ring : y # place(j) => rr[y] = r[y]
  <2>1. place(j) \in Ring
    BY <1>2
  <2> HIDE DEF place, e
  <2> QED
    BY <1>4, <2>1 DEF Wrote
<1>6. ASSUME NEW k \in 1..n
      PROVE  IF pair(k) \in todo \ {x} THEN Older(rr[place(k)], Value(q, g)) ELSE rr[place(k)] = e[k]
  <2>1. CASE k = j
    <3>1. pair(k) \notin todo \ {x}
      BY <1>1, <2>1
    <3> QED
      BY <1>5, <2>1, <3>1
  <2>2. CASE k # j
    <3>1. rr[place(k)] = r[place(k)]
      BY <1>2, <1>5, <2>2
    <3>2. pair(k) \in todo \ {x} <=> pair(k) \in todo
      BY <1>3, <2>2
    <3>3. IF pair(k) \in todo THEN Older(r[place(k)], Value(q, g)) ELSE r[place(k)] = e[k]
      BY DEF Writing
    <3> HIDE DEF pair, place, e
    <3> QED
      BY <3>1, <3>2, <3>3
  <2> QED
    BY <2>1, <2>2
<1>7. ASSUME NEW y \in Ring, \A k \in 1..n : y # place(k) PROVE Older(rr[y], Value(q, g))
  <2>1. rr[y] = r[y]
    BY <1>5, <1>7
  <2> QED
    BY <1>7, <2>1 DEF Writing
<1>8. ASSUME todo # {x} PROVE Writing(rr, a, t, q, g, tail, todo \ {x})
  <2>1. todo \ {x} # {}
    BY <1>8
  <2>2. \A y \in todo \ {x} : \E k \in 1..n : y = pair(k)
    BY DEF Writing
  <2> QED
    BY <1>6, <1>7, <2>1, <2>2 DEF Writing
<1>9. ASSUME todo = {x} PROVE Done(rr, a, t, q, g, tail)
  <2>1. \A k \in 1..n : pair(k) \notin todo \ {x}
    BY <1>9
  <2>2. \A k \in 1..n : rr[place(k)] = e[k]
    BY <1>6, <2>1
  <2> QED
    BY <1>7, <2>2 DEF Done, Holds, Place
<1> QED
  BY <1>8, <1>9

\* There is room for an entry for t after the chain.
Room(c, t) == c.p[c.n + 1] + EntryLen(t) <= c.p[1] + RingSize

\* A sector of the next entry overwrites none of the chain.
LEMMA ChainKept ==
  ASSUME NEW c, NEW r, NEW rr, NEW g \in Nat, NEW q, Chain(c, r, g, q), OnlyNewest(c, r, g, q),
         NEW t \in Trans, Room(c, t), NEW tail, NEW j \in 1..EntryLen(t),
         Wrote(r, rr, Pair(c.p[c.n + 1], t, q, g, tail, j))
  PROVE  Chain(c, rr, g, q) /\ OnlyNewest(c, rr, g, q)
<1> DEFINE a == c.p[c.n + 1]
           z == Place(a, j)
           e == Entry(t, q, g, tail)
<1>1. /\ c.n \in Nat /\ q \in Nat /\ c.p \in [1..(c.n + 1) -> Nat] /\ a \in Nat /\ c.p[1] \in Nat
      /\ EntryLen(t) \in Nat \ {0} /\ a + EntryLen(t) <= c.p[1] + RingSize
  <2>1. c.n \in Nat /\ q \in Nat /\ c.p \in [1..(c.n + 1) -> Nat]
    BY DEF Chain
  <2>2. 1 \in 1..(c.n + 1) /\ c.n + 1 \in 1..(c.n + 1)
    BY <2>1
  <2>3. EntryLen(t) \in Nat \ {0}
    BY EntryLenTyped
  <2> QED
    BY <2>1, <2>2, <2>3 DEF Room
<1>2. z \in Ring
  <2>1. a + j - 1 \in Nat
    BY <1>1
  <2> HIDE DEF a
  <2>2. (a + j - 1) % RingSize \in Ring
    BY <2>1, Wrap
  <2> QED
    BY <2>2 DEF Place
<1>3. /\ DOMAIN rr = Ring /\ rr[z] = e[j]
      /\ \A y \in Ring : y # z => rr[y] = r[y]
  <2>1. rr = [r EXCEPT ![z] = e[j]] /\ DOMAIN r = Ring
    BY DEF Wrote, Pair
  <2> HIDE DEF z, e
  <2> QED
    BY <1>2, <2>1, SMTT(30)
<1>4. ASSUME NEW k \in 1..c.n
      PROVE  Holds(rr, c.p[k], c.t[k], Number(c, q, k), g, c.tail[k])
  <2>1. c.t[k] \in Trans /\ c.p[k] \in Nat /\ c.p[k + 1] \in Nat
    <3>1. k \in 1..(c.n + 1) /\ k + 1 \in 1..(c.n + 1)
      BY <1>1, SMTT(30)
    <3>2. c.t[k] \in Trans
      BY DEF Chain
    <3> QED
      BY <1>1, <3>1, <3>2
  <2>2. EntryLen(c.t[k]) \in Nat \ {0}
    BY <2>1, EntryLenTyped
  <2>3. Grows(c)
    BY ChainGrows
  <2>4. c.p[1] + (k - 1) <= c.p[k] /\ c.p[k + 1] + ((c.n + 1) - (k + 1)) <= a
    <3>1. 1 \in 1..(c.n + 1) /\ k \in 1..(c.n + 1) /\ k + 1 \in 1..(c.n + 1) /\ c.n + 1 \in 1..(c.n + 1)
          /\ k + 1 <= c.n + 1 /\ 1 <= k
      <4>1. PICK n \in Nat : n = c.n
        BY <1>1
      <4>2. k \in 1..n
        BY <4>1
      <4>3. 1 \in 1..(n + 1) /\ k \in 1..(n + 1) /\ k + 1 \in 1..(n + 1) /\ n + 1 \in 1..(n + 1)
            /\ k + 1 <= n + 1 /\ 1 <= k
        BY <4>2
      <4> QED
        BY <4>1, <4>3
    <3>2. \A x, y \in 1..(c.n + 1) : x <= y => c.p[x] + (y - x) <= c.p[y]
      BY <2>3, Zenon DEF Grows
    <3>3. c.p[1] + (k - 1) <= c.p[k]
      BY <3>1, <3>2, Zenon
    <3>4. c.p[k + 1] + ((c.n + 1) - (k + 1)) <= c.p[c.n + 1]
      BY <3>1, <3>2, Zenon
    <3> QED
      BY <3>3, <3>4
  <2>5. c.p[k + 1] = c.p[k] + EntryLen(c.t[k])
    BY DEF Chain
  <2> SUFFICES ASSUME NEW i \in 1..EntryLen(c.t[k])
               PROVE  rr[(c.p[k] + i - 1) % RingSize] = Entry(c.t[k], Number(c, q, k), g, c.tail[k])[i]
    BY DEF Holds
  <2> DEFINE x == c.p[k] + i - 1
             b == a + j - 1
  <2>6. x \in Nat /\ b \in Nat /\ x < b /\ b < x + RingSize
    <3>a. PICK p1 \in Nat : p1 = c.p[1]
      BY <1>1
    <3>b. PICK pk \in Nat : pk = c.p[k]
      BY <2>1
    <3>c. PICK pl \in Nat : pl = c.p[k + 1]
      BY <2>1
    <3>d. PICK pa \in Nat : pa = a
      BY <1>1
    <3>1. p1 = c.p[1] /\ pk = c.p[k] /\ pl = c.p[k + 1] /\ pa = a
      BY <3>a, <3>b, <3>c, <3>d
    <3>2. PICK el, en \in Nat \ {0} : el = EntryLen(c.t[k]) /\ en = EntryLen(t)
      BY <1>1, <2>2
    <3>3. p1 <= pk /\ pl <= pa /\ pl = pk + el /\ pa + en <= p1 + RingSize
      <4>1. k \in Nat /\ k - 1 >= 0 /\ (c.n + 1) - (k + 1) >= 0
        BY <1>1
      <4>2. p1 + (k - 1) <= pk /\ pl + ((c.n + 1) - (k + 1)) <= pa
        BY <2>4, <3>1
      <4>3. pl = pk + el /\ pa + en <= p1 + RingSize
        BY <1>1, <2>5, <3>1, <3>2
      <4> QED
        BY <1>1, <4>1, <4>2, <4>3, SMTT(30)
    <3>4. i \in 1..el /\ j \in 1..en /\ x = pk + i - 1 /\ b = pa + j - 1
      BY <3>1, <3>2
    <3> HIDE DEF x, b
    <3> QED
      BY <3>3, <3>4, RingAssumption
  <2>7. x % RingSize \in Ring /\ x % RingSize # b % RingSize
    <3> HIDE DEF x, b
    <3>1. x % RingSize \in Ring
      BY <2>6, Wrap
    <3>2. x % RingSize = b % RingSize => x = b
      BY <2>6, Apart
    <3> QED
      BY <2>6, <3>1, <3>2
  <2>8. rr[x % RingSize] = r[x % RingSize]
    BY <1>3, <2>7 DEF Place
  <2>9. Holds(r, c.p[k], c.t[k], Number(c, q, k), g, c.tail[k])
    BY DEF Chain
  <2> QED
    BY <2>8, <2>9 DEF Holds
<1>5. Chain(c, rr, g, q)
  BY <1>4 DEF Chain
<1>6. OnlyNewest(c, rr, g, q)
  <2> SUFFICES ASSUME c.n > 0, NEW x \in Ring, rr[x].sig = "loge", rr[x].guid = g, rr[x].seq = q - 1
               PROVE  x = c.p[c.n] % RingSize
    BY DEF OnlyNewest
  <2>1. x # z
    <3>1. e[j].sig = "loge" => e[j].seq = q
      BY <1>1, EntrySectors
    <3>2. q # q - 1
      BY <1>1
    <3> HIDE DEF z, e
    <3> QED
      BY <1>3, <3>1, <3>2
  <2>2. rr[x] = r[x]
    BY <1>3, <2>1
  <2> QED
    BY <2>2 DEF OnlyNewest
<1> QED
  BY <1>5, <1>6

\* The chain from entry m on, with the entry for t after it, which records where
\* entry m begins as its tail.
Extended(c, m, t) ==
  LET n == c.n - m + 2 IN
  [n |-> n,
   p |-> [k \in 1..(n + 1) |-> IF k <= n THEN c.p[k + (m - 1)] ELSE c.p[c.n + 1] + EntryLen(t)],
   t |-> [k \in 1..n |-> IF k < n THEN c.t[k + (m - 1)] ELSE t],
   tail |-> [k \in 1..n |-> IF k < n THEN c.tail[k + (m - 1)] ELSE c.p[m] % RingSize]]

\* Its parts, entry by entry.
ExtendedBy(c, m, t, d) ==
  /\ d.n = c.n - m + 2
  /\ d.p[1] = c.p[m] /\ d.p[d.n] = c.p[c.n + 1] /\ d.p[d.n + 1] = c.p[c.n + 1] + EntryLen(t)
  /\ d.t[d.n] = t /\ d.tail[d.n] = c.p[m] % RingSize
  /\ \A k \in 1..(d.n - 1) :
       /\ k + (m - 1) \in m..c.n
       /\ d.p[k] = c.p[k + (m - 1)] /\ d.p[k + 1] = c.p[k + (m - 1) + 1]
       /\ d.t[k] = c.t[k + (m - 1)] /\ d.tail[k] = c.tail[k + (m - 1)]

LEMMA ExtendedParts ==
  ASSUME NEW c, c.n \in Nat, NEW m \in 1..(c.n + 1), NEW t
  PROVE  ExtendedBy(c, m, t, Extended(c, m, t))
<1> DEFINE n == c.n - m + 2
           d == Extended(c, m, t)
           p == [k \in 1..(n + 1) |-> IF k <= n THEN c.p[k + (m - 1)] ELSE c.p[c.n + 1] + EntryLen(t)]
           ts == [k \in 1..n |-> IF k < n THEN c.t[k + (m - 1)] ELSE t]
           tl == [k \in 1..n |-> IF k < n THEN c.tail[k + (m - 1)] ELSE c.p[m] % RingSize]
<1>1. d.n = n /\ d.p = p /\ d.t = ts /\ d.tail = tl
  BY DEF Extended
<1>2. n \in Nat /\ n >= 1 /\ n + (m - 1) = c.n + 1 /\ 1 + (m - 1) = m
  OBVIOUS
<1>3. p[1] = c.p[m] /\ p[n] = c.p[c.n + 1] /\ p[n + 1] = c.p[c.n + 1] + EntryLen(t)
  <2>1. 1 \in 1..(n + 1) /\ n \in 1..(n + 1) /\ n + 1 \in 1..(n + 1) /\ ~(n + 1 <= n) /\ 1 <= n /\ n <= n
    BY <1>2
  <2> HIDE DEF n
  <2> QED
    BY <1>2, <2>1
<1>4. ts[n] = t /\ tl[n] = c.p[m] % RingSize
  <2> HIDE DEF n
  <2> QED
    BY <1>2
<1>5. ASSUME NEW k \in 1..(n - 1)
      PROVE  /\ k + (m - 1) \in m..c.n
             /\ p[k] = c.p[k + (m - 1)] /\ p[k + 1] = c.p[k + (m - 1) + 1]
             /\ ts[k] = c.t[k + (m - 1)] /\ tl[k] = c.tail[k + (m - 1)]
  <2>1. k + (m - 1) \in m..c.n
    BY <1>2
  <2>2. k \in 1..n /\ k < n /\ k + 1 \in 1..(n + 1) /\ k + 1 <= n /\ k \in 1..(n + 1) /\ k <= n
    BY <1>2
  <2>3. (k + 1) + (m - 1) = k + (m - 1) + 1
    OBVIOUS
  <2> HIDE DEF n
  <2> QED
    BY <2>1, <2>2, <2>3
<1> QED
  <2> HIDE DEF d, n, p, ts, tl
  <2>1. ExtendedBy(c, m, t, d)
    BY <1>1, <1>3, <1>4, <1>5 DEF ExtendedBy, n
  <2> QED
    BY <2>1 DEF d

\* A complete entry extends the chain.
LEMMA ExtendedChain ==
  ASSUME NEW c, NEW r, NEW g, NEW q, Chain(c, r, g, q), NEW m \in 1..(c.n + 1),
         NEW t \in Trans, Room(c, t), Holds(r, c.p[c.n + 1], t, q, g, c.p[m] % RingSize)
  PROVE  /\ Chain(Extended(c, m, t), r, g, q + 1)
         /\ \A k \in 1..(c.n - m + 1) : Number(Extended(c, m, t), q + 1, k) = Number(c, q, k + (m - 1))
         /\ Number(Extended(c, m, t), q + 1, c.n - m + 2) = q
<1> DEFINE d == Extended(c, m, t)
           n == c.n - m + 2
<1>1. c.n \in Nat /\ q \in Nat /\ q - c.n >= 1 /\ c.p \in [1..(c.n + 1) -> Nat] /\ n \in Nat /\ n >= 1
  BY DEF Chain
<1>2. ExtendedBy(c, m, t, d)
  BY <1>1, ExtendedParts
<1>3. DOMAIN d.p = 1..(n + 1) /\ DOMAIN d.t = 1..n /\ DOMAIN d.tail = 1..n
      /\ d.p = [k \in 1..(n + 1) |-> d.p[k]] /\ d.t = [k \in 1..n |-> d.t[k]]
      /\ d.tail = [k \in 1..n |-> d.tail[k]]
  BY DEF Extended
<1> HIDE DEF d
<1>4. d.n = n
  BY <1>2 DEF ExtendedBy
<1>5. ASSUME NEW k \in 1..(n - 1)
      PROVE  /\ k + (m - 1) \in 1..c.n
             /\ d.p[k] = c.p[k + (m - 1)] /\ d.p[k + 1] = c.p[k + (m - 1) + 1]
             /\ d.t[k] = c.t[k + (m - 1)] /\ d.tail[k] = c.tail[k + (m - 1)]
             /\ Number(d, q + 1, k) = Number(c, q, k + (m - 1))
  <2>1. k \in 1..(d.n - 1)
    BY <1>4
  <2>2. k + (m - 1) \in 1..c.n
    BY <1>1
  <2>3. Number(d, q + 1, k) = Number(c, q, k + (m - 1))
    <3>1. PICK x \in Nat : x = c.n
      BY <1>1
    <3>2. (q + 1) - (x - m + 2) + k - 1 = q - x + (k + (m - 1)) - 1
      <4>1. k \in Int /\ m \in Int /\ q \in Int /\ x \in Int
        BY <1>1
      <4> HIDE DEF n
      <4> QED
        BY <4>1
    <3> HIDE DEF n
    <3>3. Number(d, q + 1, k) = (q + 1) - n + k - 1
      BY <1>4 DEF Number
    <3>4. Number(c, q, k + (m - 1)) = q - x + (k + (m - 1)) - 1
      BY <3>1 DEF Number
    <3>5. n = x - m + 2
      BY <3>1 DEF n
    <3> QED
      BY <3>2, <3>3, <3>4, <3>5
  <2> QED
    BY <1>2, <2>1, <2>2, <2>3 DEF ExtendedBy
<1>6. /\ d.p[1] = c.p[m] /\ d.p[n] = c.p[c.n + 1] /\ d.p[n + 1] = c.p[c.n + 1] + EntryLen(t)
      /\ d.t[n] = t /\ d.tail[n] = c.p[m] % RingSize
  BY <1>2, <1>4 DEF ExtendedBy
<1>7. EntryLen(t) \in Nat \ {0} /\ c.p[m] \in Nat /\ c.p[c.n + 1] \in Nat /\ c.p[m] % RingSize \in Ring
  <2>0. c.n + 1 \in 1..(c.n + 1)
    BY <1>1, SMTT(30)
  <2>1. c.p[m] \in Nat /\ c.p[c.n + 1] \in Nat
    BY <1>1, <2>0
  <2> QED
    BY <2>1, EntryLenTyped, Wrap
<1>8. Number(d, q + 1, n) = q
  <2> HIDE DEF n
  <2>1. Number(d, q + 1, n) = (q + 1) - n + n - 1
    BY <1>4 DEF Number
  <2> QED
    BY <1>1, <2>1, SMTT(30)
<1>9. \A k \in 1..n : k \in 1..(n - 1) \/ k = n
  BY <1>1
<1>a. n \in Nat /\ d.n = n /\ n + 1 \in 1..(n + 1)
  BY <1>1, <1>4, SMTT(30)
<1>b. \A k \in 1..(c.n - m + 1) : k \in 1..(n - 1)
  BY <1>1
<1>c. (q + 1) - n >= 1
  <2>1. PICK x \in Nat : x = c.n
    BY <1>1
  <2>2. q - x >= 1 /\ n = x - m + 2
    BY <1>1, <2>1
  <2> HIDE DEF n
  <2> QED
    BY <1>1, <2>1, <2>2, SMTT(30)
<1> HIDE DEF n
<1>10. ASSUME NEW k \in 1..n
       PROVE  /\ d.p[k] \in Nat /\ d.t[k] \in Trans /\ d.tail[k] \in Ring
              /\ d.p[k + 1] = d.p[k] + EntryLen(d.t[k])
              /\ Holds(r, d.p[k], d.t[k], Number(d, q + 1, k), g, d.tail[k])
  <2>1. CASE k = n
    <3>1. d.p[k] \in Nat /\ d.t[k] \in Trans /\ d.tail[k] \in Ring
      BY <1>6, <1>7, <2>1
    <3>2. d.p[k + 1] = d.p[k] + EntryLen(d.t[k])
      BY <1>6, <2>1
    <3>3. Holds(r, d.p[k], d.t[k], Number(d, q + 1, k), g, d.tail[k])
      BY <1>6, <1>8, <2>1
    <3> QED
      BY <3>1, <3>2, <3>3
  <2>2. CASE k \in 1..(n - 1)
    <3>1. PICK j \in 1..c.n : j = k + (m - 1)
      BY <1>5, <2>2
    <3>2. /\ d.p[k] = c.p[j] /\ d.p[k + 1] = c.p[j + 1] /\ d.t[k] = c.t[j] /\ d.tail[k] = c.tail[j]
          /\ Number(d, q + 1, k) = Number(c, q, j)
      BY <1>5, <2>2, <3>1
    <3>3. c.t[j] \in Trans /\ c.tail[j] \in Ring /\ j \in 1..(c.n + 1)
      BY <1>1 DEF Chain
    <3>4. c.p[j] \in Nat
      BY <1>1, <3>3
    <3>5. c.p[j + 1] = c.p[j] + EntryLen(c.t[j]) /\ Holds(r, c.p[j], c.t[j], Number(c, q, j), g, c.tail[j])
      BY DEF Chain
    <3> QED
      BY <3>2, <3>3, <3>4, <3>5
  <2> QED
    BY <1>9, <2>1, <2>2
<1>11. d.p \in [1..(n + 1) -> Nat] /\ d.t \in [1..n -> Trans] /\ d.tail \in [1..n -> Ring]
  <2>1. \A k \in 1..(n + 1) : k \in 1..n \/ k = n + 1
    BY <1>a
  <2>2. d.p[n + 1] \in Nat
    BY <1>6, <1>7
  <2>3. \A k \in 1..(n + 1) : d.p[k] \in Nat
    BY <1>10, <2>1, <2>2
  <2> QED
    BY <1>3, <1>10, <2>3
<1>12. d.p[n + 1] <= d.p[1] + RingSize
  <2>1. c.p[1] <= c.p[m]
    <3>1. 1 \in 1..(c.n + 1) /\ 1 <= m
      BY <1>1
    <3>2. \A j, k \in 1..(c.n + 1) : j <= k => c.p[j] + (k - j) <= c.p[k]
      BY ChainGrows DEF Grows
    <3>3. c.p[1] + (m - 1) <= c.p[m]
      BY <3>1, <3>2, Zenon
    <3>4. c.p[1] \in Nat
      BY <1>1, <3>1
    <3> QED
      BY <1>7, <3>3, <3>4
  <2>2. c.p[1] \in Nat
    BY <1>1, SMTT(30)
  <2>3. c.p[c.n + 1] + EntryLen(t) <= c.p[1] + RingSize
    BY DEF Room
  <2> QED
    BY <1>6, <1>7, <2>1, <2>2, <2>3, RingAssumption
<1>13. Chain(d, r, g, q + 1)
  <2>1. q + 1 \in Nat /\ (q + 1) - d.n >= 1
    BY <1>1, <1>a, <1>c
  <2>2. d.n > 0 => d.tail[d.n] = d.p[1] % RingSize
    BY <1>6, <1>a
  <2> QED
    BY <1>10, <1>11, <1>12, <1>a, <2>1, <2>2 DEF Chain
<1> QED
  BY <1>5, <1>8, <1>13, <1>b DEF d, n

-----------------------------------------------------------------------------
(* What a transaction does to the file.                                     *)

TargetsOf(t) == UNION {Target(t[i]) : i \in 1..Len(t)}

\* i is the last descriptor of t that writes sector s.
LastOf(t, s, i) == s \in Target(t[i]) /\ \A j \in 1..Len(t) : s \in Target(t[j]) => j <= i

\* h is f with what t writes over it.
IsEffect(h, f, t, v) ==
  /\ DOMAIN h = DOMAIN f \cup TargetsOf(t) /\ TargetsOf(t) \subseteq Sectors
  /\ \A s \in DOMAIN f : s \notin TargetsOf(t) => h[s] = f[s]
  /\ \A s \in TargetsOf(t) : \E i \in 1..Len(t) : LastOf(t, s, i)
  /\ \A s : \A i \in 1..Len(t) : LastOf(t, s, i) => h[s] = Written(v, t[i])

LEMMA EffectFacts ==
  ASSUME NEW f, NEW t \in Trans, NEW v
  PROVE  IsEffect(Effect(f, t, v), f, t, v)
<1> DEFINE hits(s) == {i \in DOMAIN t : s \in Target(t[i])}
           Best(s, i) == \A j \in hits(s) : j <= i
           last(s) == t[CHOOSE i \in hits(s) : Best(s, i)]
           D == DOMAIN f \cup UNION {Target(t[i]) : i \in DOMAIN t}
           F(s) == IF hits(s) = {} THEN f[s] ELSE Written(v, last(s))
<1>1. Len(t) \in Nat /\ DOMAIN t = 1..Len(t) /\ \A i \in 1..Len(t) : Target(t[i]) \subseteq Sectors
  <2>1. IsTrans(t)
    BY TransTyped
  <2> DEFINE Ds == [kind : {"desc", "zero"}, at : Sectors, len : Nat]
  <2>2. t \in Seq(Ds)
    BY <2>1 DEF IsTrans
  <2>3. Len(t) \in Nat /\ DOMAIN t = 1..Len(t)
    <3> HIDE DEF Ds
    <3> QED
      BY <2>2
  <2> QED
    BY <2>1, <2>3 DEF IsTrans
<1>2. Effect(f, t, v) = [s \in D |-> F(s)]
  BY DEF Effect
<1>3. D = DOMAIN f \cup TargetsOf(t)
  BY <1>1 DEF TargetsOf
<1>4. \A s : hits(s) = {} <=> s \notin TargetsOf(t)
  BY <1>1 DEF TargetsOf
<1>5. ASSUME NEW s \in TargetsOf(t) PROVE \E i \in 1..Len(t) : LastOf(t, s, i)
  <2>1. hits(s) # {} /\ hits(s) \in SUBSET (0..Len(t))
    BY <1>1, <1>4
  <2>2. PICK i \in hits(s) : \A j \in hits(s) : j <= i
    <3> HIDE DEF hits
    <3> QED
      BY <1>1, <2>1, GreatestExists
  <2> QED
    BY <1>1, <2>2 DEF LastOf
<1>6. ASSUME NEW s, NEW i \in 1..Len(t), LastOf(t, s, i) PROVE Effect(f, t, v)[s] = Written(v, t[i])
  <2>1. i \in hits(s) /\ Best(s, i)
    BY <1>1, <1>6 DEF LastOf
  <2>2. ASSUME NEW j \in hits(s), Best(s, j) PROVE j = i
    <3>1. j <= i /\ i <= j /\ i \in Nat /\ j \in Nat
      BY <1>1, <2>1, <2>2
    <3> QED
      BY <3>1
  <2>3. (CHOOSE j \in hits(s) : Best(s, j)) = i
    <3> HIDE DEF hits, Best
    <3> QED
      BY <2>1, <2>2
  <2>4. F(s) = Written(v, t[i])
    <3>1. last(s) = t[i]
      BY <2>3
    <3> HIDE DEF last, hits
    <3> QED
      BY <2>1, <3>1
  <2>5. s \in D
    BY <1>1, <2>1
  <2> HIDE DEF D, F
  <2> QED
    BY <1>2, <2>4, <2>5
<1>7. ASSUME NEW s \in DOMAIN f, s \notin TargetsOf(t) PROVE Effect(f, t, v)[s] = f[s]
  <2>1. hits(s) = {}
    BY <1>4, <1>7
  <2>2. F(s) = f[s]
    <3> HIDE DEF hits
    <3> QED
      BY <2>1
  <2>3. s \in D
    OBVIOUS
  <2> HIDE DEF D, F
  <2> QED
    BY <1>2, <2>2, <2>3
<1>8. TargetsOf(t) \subseteq Sectors
  BY <1>1 DEF TargetsOf
<1>9. DOMAIN Effect(f, t, v) = DOMAIN f \cup TargetsOf(t)
  <2> HIDE DEF D, F
  <2> QED
    BY <1>2, <1>3
<1> QED
  BY <1>5, <1>6, <1>7, <1>8, <1>9 DEF IsEffect

\* A transaction added to a chain that says what is in f says what is in f then.
LEMMA ExtendedSays ==
  ASSUME NEW c, NEW r, NEW g, NEW q, Chain(c, r, g, q), NEW m \in 1..(c.n + 1),
         NEW t \in Trans, Room(c, t), Holds(r, c.p[c.n + 1], t, q, g, c.p[m] % RingSize),
         NEW f, DOMAIN f = Sectors, Says(c, g, q, f)
  PROVE  Says(Extended(c, m, t), g, q + 1, Effect(f, t, Value(q, g)))
<1> DEFINE d == Extended(c, m, t)
           v == Value(q, g)
           n == c.n - m + 2
<1>1. c.n \in Nat /\ n \in Nat /\ n >= 1
  BY SMTT(30) DEF Chain
<1>2. ExtendedBy(c, m, t, d)
  BY <1>1, ExtendedParts
<1>3. /\ Chain(d, r, g, q + 1) /\ Number(d, q + 1, n) = q
      /\ \A k \in 1..(n - 1) : Number(d, q + 1, k) = Number(c, q, k + (m - 1))
  <2>1. /\ Chain(d, r, g, q + 1) /\ Number(d, q + 1, n) = q
        /\ \A k \in 1..(c.n - m + 1) : Number(d, q + 1, k) = Number(c, q, k + (m - 1))
    BY ExtendedChain
  <2>2. \A k \in 1..(n - 1) : k \in 1..(c.n - m + 1)
    BY <1>1
  <2> HIDE DEF d, n
  <2> QED
    BY <2>1, <2>2
<1> HIDE DEF d
<1>4. d.n = n /\ d.t[n] = t
  BY <1>2 DEF ExtendedBy
<1>5. \A k \in 1..(n - 1) : k + (m - 1) \in m..c.n /\ d.t[k] = c.t[k + (m - 1)]
  BY <1>2, <1>4 DEF ExtendedBy
<1>6. \A k \in m..c.n : k - (m - 1) \in 1..(n - 1) /\ (k - (m - 1)) + (m - 1) = k
  BY <1>1
<1>a. \A k \in 1..n : k \in 1..(n - 1) \/ k = n
  BY <1>1
<1>b. n \in 1..n /\ \A k \in 1..(n - 1) : k \in 1..n /\ k < n
  BY <1>1
<1>c. m \in Nat /\ m >= 1
  BY <1>1
<1> HIDE DEF n
<1> SUFFICES ASSUME NEW s \in Sectors, NEW x \in Steps(d), IsLast(d, s, x)
             PROVE  Effect(f, t, v)[s] = Written(Value(Number(d, q + 1, x[1]), g), d.t[x[1]][x[2]])
  BY DEF Says, d
<1>7. x[1] \in 1..n /\ x[2] \in 1..Len(d.t[x[1]]) /\ x = <<x[1], x[2]>>
  BY <1>3, <1>4, StepsTyped
<1>8. s \in Target(d.t[x[1]][x[2]])
  BY DEF IsLast, HitsOf, StepTarget
<1>9. ASSUME NEW k \in 1..n, NEW i \in 1..Len(d.t[k]), s \in Target(d.t[k][i]) PROVE Later(x, <<k, i>>)
  <2>1. <<k, i>> \in Steps(d)
    BY <1>4 DEF Steps
  <2>2. <<k, i>> \in HitsOf(d, s)
    BY <1>9, <2>1 DEF HitsOf, StepTarget
  <2> QED
    BY <2>2 DEF IsLast
<1>10. CASE x[1] = n
  <2>1. LastOf(t, s, x[2]) /\ x[2] \in 1..Len(t)
    <3>1. x[2] \in 1..Len(t) /\ s \in Target(t[x[2]])
      BY <1>4, <1>7, <1>8, <1>10
    <3>2. ASSUME NEW j \in 1..Len(t), s \in Target(t[j]) PROVE j <= x[2]
      <4>1. Later(x, <<n, j>>)
        BY <1>4, <1>9, <1>b, <3>2
      <4>2. ~(x[1] > n)
        BY <1>1, <1>10
      <4> QED
        BY <4>1, <4>2 DEF Later
    <3> QED
      BY <3>1, <3>2 DEF LastOf
  <2>2. Effect(f, t, v)[s] = Written(v, t[x[2]])
    <3>1. IsEffect(Effect(f, t, v), f, t, v)
      BY EffectFacts
    <3> QED
      BY <2>1, <3>1 DEF IsEffect
  <2> HIDE DEF v
  <2> QED
    BY <1>3, <1>4, <1>10, <2>2 DEF v
<1>11. CASE x[1] \in 1..(n - 1)
  <2>1. s \notin TargetsOf(t)
    <3> SUFFICES ASSUME NEW j \in 1..Len(t), s \in Target(t[j]) PROVE FALSE
      BY DEF TargetsOf
    <3>1. Later(x, <<n, j>>)
      BY <1>4, <1>9, <1>b
    <3>2. x[1] < n /\ x[1] \in Nat
      BY <1>1, <1>11
    <3> QED
      BY <1>1, <3>1, <3>2 DEF Later
  <2>2. Effect(f, t, v)[s] = f[s]
    <3>1. IsEffect(Effect(f, t, v), f, t, v)
      BY EffectFacts
    <3> QED
      BY <2>1, <3>1 DEF IsEffect
  <2>3. PICK k \in m..c.n : k = x[1] + (m - 1)
    BY <1>5, <1>11
  <2> DEFINE z == <<k, x[2]>>
  <2>4. d.t[x[1]] = c.t[k] /\ Number(d, q + 1, x[1]) = Number(c, q, k) /\ k \in 1..c.n
    <3>1. k \in 1..c.n
      BY <1>1, <1>c
    <3> QED
      BY <1>3, <1>5, <1>11, <2>3, <3>1
  <2>5. z \in HitsOf(c, s) /\ z \in Steps(c)
    <3>1. z \in Steps(c)
      BY <1>7, <2>4 DEF Steps
    <3> QED
      BY <1>8, <2>4, <3>1 DEF HitsOf, StepTarget
  <2>6. ASSUME NEW y \in HitsOf(c, s) PROVE Later(z, y)
    <3>1. y[1] \in 1..c.n /\ y[2] \in 1..Len(c.t[y[1]]) /\ s \in Target(c.t[y[1]][y[2]])
      BY StepsTyped DEF HitsOf, StepTarget
    <3>2. CASE y[1] < m
      <4>1. k > y[1]
        BY <1>1, <1>c, <3>1, <3>2
      <4> QED
        BY <4>1 DEF Later
    <3>3. CASE y[1] \in m..c.n
      <4>1. PICK j \in 1..(n - 1) : j = y[1] - (m - 1) /\ j + (m - 1) = y[1]
        BY <1>6, <3>3
      <4>2. d.t[j] = c.t[y[1]] /\ j \in 1..n
        BY <1>5, <1>b, <4>1
      <4>3. Later(x, <<j, y[2]>>)
        BY <1>9, <3>1, <4>2
      <4>4. x[1] \in Int /\ j \in Int /\ k = x[1] + (m - 1) /\ y[1] = j + (m - 1)
        BY <1>11, <2>3, <4>1
      <4>5. x[1] > j \/ (x[1] = j /\ x[2] >= y[2])
        BY <4>3 DEF Later
      <4>6. k > y[1] \/ (k = y[1] /\ x[2] >= y[2])
        BY <1>c, <4>4, <4>5
      <4> QED
        BY <4>6 DEF Later
    <3>4. y[1] < m \/ y[1] \in m..c.n
      BY <1>1, <1>c, <3>1
    <3> QED
      BY <3>2, <3>3, <3>4
  <2>7. f[s] = Written(Value(Number(c, q, k), g), c.t[k][x[2]])
    <3>1. IsLast(c, s, z)
      BY <2>5, <2>6 DEF IsLast
    <3>2. f[s] = Written(Value(Number(c, q, z[1]), g), c.t[z[1]][z[2]])
      <4> HIDE DEF z
      <4> QED
        BY <2>5, <3>1 DEF Says
    <3> QED
      BY <3>2
  <2> QED
    BY <2>2, <2>4, <2>7
<1> QED
  BY <1>7, <1>10, <1>11, <1>a

\* The sectors of D are written by entries from m on.
FromOn(c, m, D) == \A s \in D : \E x \in Steps(c) : s \in StepTarget(c, x) /\ x[1] >= m

\* What the new entry and those kept write is covered by the chain it extends.
LEMMA ExtendedCovers ==
  ASSUME NEW c, NEW r, NEW g, NEW q, Chain(c, r, g, q), NEW m \in 1..(c.n + 1),
         NEW t \in Trans, NEW D, FromOn(c, m, D)
  PROVE  FromOn(Extended(c, m, t), 1, D \cup TargetsOf(t))
<1> DEFINE d == Extended(c, m, t)
           n == c.n - m + 2
<1>1. c.n \in Nat /\ n \in Nat /\ n >= 1
  BY DEF Chain
<1>2. ExtendedBy(c, m, t, d)
  BY <1>1, ExtendedParts
<1> HIDE DEF d
<1>4. d.n = n /\ d.t[n] = t
  BY <1>2 DEF ExtendedBy
<1>5. \A k \in 1..(n - 1) : d.t[k] = c.t[k + (m - 1)]
  BY <1>2, <1>4 DEF ExtendedBy
<1>6. \A k \in m..c.n : k - (m - 1) \in 1..(n - 1) /\ (k - (m - 1)) + (m - 1) = k
  BY <1>1
<1>b. n \in 1..n /\ n >= 1 /\ \A k \in 1..(n - 1) : k \in 1..n /\ k >= 1
  BY <1>1
<1> HIDE DEF n
<1>7. ASSUME NEW s \in TargetsOf(t) PROVE \E x \in Steps(d) : s \in StepTarget(d, x) /\ x[1] >= 1
  <2>1. PICK i \in 1..Len(t) : s \in Target(t[i])
    BY DEF TargetsOf
  <2>2. <<n, i>> \in Steps(d)
    BY <1>4, <1>b DEF Steps
  <2>3. s \in StepTarget(d, <<n, i>>) /\ <<n, i>>[1] >= 1
    BY <1>4, <1>b, <2>1 DEF StepTarget
  <2> QED
    BY <2>2, <2>3
<1>8. ASSUME NEW s \in D PROVE \E x \in Steps(d) : s \in StepTarget(d, x) /\ x[1] >= 1
  <2>1. PICK y \in Steps(c) : s \in StepTarget(c, y) /\ y[1] >= m
    BY DEF FromOn
  <2>2. y[1] \in 1..c.n /\ y[2] \in 1..Len(c.t[y[1]])
    BY StepsTyped
  <2>3. y[1] \in m..c.n
    BY <1>1, <2>1, <2>2
  <2>4. PICK j \in 1..(n - 1) : j + (m - 1) = y[1]
    BY <1>6, <2>3
  <2>5. d.t[j] = c.t[y[1]] /\ j \in 1..n /\ j >= 1
    BY <1>5, <1>b, <2>4
  <2>6. <<j, y[2]>> \in Steps(d)
    BY <1>4, <2>2, <2>5 DEF Steps
  <2>7. s \in StepTarget(d, <<j, y[2]>>) /\ <<j, y[2]>>[1] >= 1
    BY <2>1, <2>5 DEF StepTarget
  <2> QED
    BY <2>6, <2>7
<1> QED
  BY <1>7, <1>8 DEF FromOn, d

\* The values a log writes, within the bounds and below those of the next log.
LEMMA ValueBounds ==
  ASSUME NEW g \in 1..MaxLogs, NEW q \in 1..MaxSeq
  PROVE  /\ Value(q, g) \in 1..(MaxSeq * MaxLogs)
         /\ Value(q + 1, g) <= Value(1, g + 1) /\ Value(1, g + 1) \in Int
<1>1. MaxSeq \in Nat /\ MaxLogs \in Nat /\ g \in Nat /\ q \in Nat /\ 1 <= q /\ q <= MaxSeq /\ 1 <= g /\ g <= MaxLogs
  BY BoundsAssumption
<1>2. PICK x \in Nat : x = (g - 1) * MaxSeq
  BY <1>1
<1>3. ((g + 1) - 1) * MaxSeq = x + MaxSeq
  <2>1. ((g + 1) - 1) * MaxSeq = (g - 1) * MaxSeq + MaxSeq
    BY <1>1
  <2> QED
    BY <1>2, <2>1
<1>4. PICK y \in Nat : y = MaxSeq * MaxLogs
  BY <1>1
<1>5. x + MaxSeq <= y
  <2>1. g * MaxSeq <= MaxLogs * MaxSeq
    BY <1>1
  <2>2. MaxLogs * MaxSeq = MaxSeq * MaxLogs /\ g * MaxSeq = ((g + 1) - 1) * MaxSeq
    BY <1>1
  <2> QED
    BY <1>1, <1>3, <1>4, <2>1, <2>2
<1>6. Value(q, g) = x + q /\ Value(q + 1, g) = x + (q + 1) /\ Value(1, g + 1) = x + MaxSeq + 1
  BY <1>1, <1>2, <1>3 DEF Value
<1> QED
  BY <1>1, <1>4, <1>5, <1>6

\* A transaction keeps the type of the file, and leaves no sector absent.
LEMMA EffectTyped ==
  ASSUME NEW f \in [Sectors -> SectorValues], NEW t \in Trans, NEW v \in 1..(MaxSeq * MaxLogs)
  PROVE  /\ Effect(f, t, v) \in [Sectors -> SectorValues]
         /\ \A s \in Sectors : Effect(f, t, v)[s] = Absent => f[s] = Absent
<1> DEFINE h == Effect(f, t, v)
<1>1. IsEffect(h, f, t, v)
  BY EffectFacts
<1>2. h = [s \in DOMAIN h |-> h[s]]
  BY DEF Effect
<1> HIDE DEF h
<1>3. DOMAIN h = Sectors
  BY <1>1 DEF IsEffect
<1>4. ASSUME NEW s \in Sectors PROVE h[s] \in SectorValues /\ (h[s] = Absent => f[s] = Absent)
  <2>1. CASE s \in TargetsOf(t)
    <3>1. PICK i \in 1..Len(t) : LastOf(t, s, i)
      BY <1>1, <2>1 DEF IsEffect
    <3>2. h[s] = Written(v, t[i])
      BY <1>1, <3>1 DEF IsEffect
    <3>3. Written(v, t[i]) \in SectorValues /\ Written(v, t[i]) # Absent
      <4>1. MaxSeq * MaxLogs \in Nat
        BY BoundsAssumption
      <4>2. v \in Words /\ 0 \in Words /\ v # -1
        BY <4>1 DEF Words
      <4>3. <<v, v>> \in SectorValues /\ <<0, 0>> \in SectorValues
        BY <4>2 DEF SectorValues
      <4> QED
        BY <4>2, <4>3 DEF Written, Zeroes, Absent
    <3> QED
      BY <3>2, <3>3
  <2>2. CASE s \notin TargetsOf(t)
    BY <1>1, <2>2 DEF IsEffect
  <2> QED
    BY <2>1, <2>2
<1>5. h \in [Sectors -> SectorValues]
  BY <1>2, <1>3, <1>4
<1> QED
  BY <1>4, <1>5 DEF h

\* The last sector of an entry makes it the newest of the chain.
Grown(c, m, t, r, g, q, f, D) ==
  LET d == Extended(c, m, t) IN
  /\ Chain(d, r, g, q + 1) /\ OnlyNewest(d, r, g, q + 1) /\ OnlyOlder(r, Value(q + 1, g))
  /\ Says(d, g, q + 1, Effect(f, t, Value(q, g)))
  /\ FromOn(d, 1, D \cup TargetsOf(t))
  /\ d.n = c.n - m + 2 /\ d.n \in Nat /\ d.n > 0
  /\ d.p[1] = c.p[m] /\ d.p[d.n] = c.p[c.n + 1] /\ d.p[d.n + 1] = c.p[c.n + 1] + EntryLen(t)

LEMMA Commit ==
  ASSUME NEW c, NEW r, NEW rr, NEW g \in Nat, NEW q \in Nat, Chain(c, r, g, q), OnlyNewest(c, r, g, q),
         NEW m \in 1..(c.n + 1), NEW t \in Trans, Room(c, t), NEW x,
         Writing(r, c.p[c.n + 1], t, q, g, c.p[m] % RingSize, {x}), Wrote(r, rr, x),
         NEW f, DOMAIN f = Sectors, Says(c, g, q, f), NEW D, FromOn(c, m, D)
  PROVE  Grown(c, m, t, rr, g, q, f, D)
<1> DEFINE a == c.p[c.n + 1]
           tail == c.p[m] % RingSize
           v == Value(q, g)
           d == Extended(c, m, t)
<1>1. c.n \in Nat /\ a \in Nat /\ c.p[1] \in Nat /\ EntryLen(t) \in Nat \ {0}
  <2>1. c.n \in Nat /\ c.p \in [1..(c.n + 1) -> Nat]
    BY DEF Chain
  <2>2. c.n + 1 \in 1..(c.n + 1) /\ 1 \in 1..(c.n + 1)
    BY <2>1
  <2> QED
    BY <2>1, <2>2, EntryLenTyped
<1>2. EntryLen(t) <= RingSize
  <2>1. c.p[1] + c.n <= a
    <3>1. 1 \in 1..(c.n + 1) /\ c.n + 1 \in 1..(c.n + 1) /\ 1 <= c.n + 1 /\ (c.n + 1) - 1 = c.n
      BY <1>1
    <3>2. \A j, k \in 1..(c.n + 1) : j <= k => c.p[j] + (k - j) <= c.p[k]
      BY ChainGrows DEF Grows
    <3>3. c.p[1] + ((c.n + 1) - 1) <= c.p[c.n + 1]
      BY <3>1, <3>2, Zenon
    <3> QED
      BY <3>1, <3>3
  <2>2. a + EntryLen(t) <= c.p[1] + RingSize
    BY DEF Room
  <2> HIDE DEF a
  <2> QED
    BY <1>1, <2>1, <2>2, RingAssumption
<1>3. PICK j \in 1..EntryLen(t) : x = Pair(a, t, q, g, tail, j)
  BY DEF Writing
<1>4. Chain(c, rr, g, q)
  <2>1. Wrote(r, rr, Pair(a, t, q, g, tail, j))
    BY <1>3
  <2> QED
    BY <2>1, ChainKept
<1>5. Done(rr, a, t, q, g, tail)
  <2> HIDE DEF a, tail
  <2>1. Writing(r, a, t, q, g, tail, {x})
    BY DEF a, tail
  <2> QED
    BY <1>1, <1>2, <2>1, WriteOne
<1>6. Holds(rr, a, t, q, g, tail)
  BY <1>5 DEF Done
<1>7. Chain(d, rr, g, q + 1) /\ Says(d, g, q + 1, Effect(f, t, v)) /\ FromOn(d, 1, D \cup TargetsOf(t))
  <2>1. Chain(d, rr, g, q + 1)
    BY <1>4, <1>6, ExtendedChain
  <2>2. Says(d, g, q + 1, Effect(f, t, v))
    BY <1>4, <1>6, ExtendedSays
  <2>3. FromOn(d, 1, D \cup TargetsOf(t))
    BY <1>4, ExtendedCovers
  <2> QED
    BY <2>1, <2>2, <2>3
<1>8. /\ d.n = c.n - m + 2 /\ d.n \in Nat /\ d.n > 0
      /\ d.p[1] = c.p[m] /\ d.p[d.n] = a /\ d.p[d.n + 1] = a + EntryLen(t)
  <2>1. ExtendedBy(c, m, t, d)
    BY <1>1, ExtendedParts
  <2>2. c.n - m + 2 \in Nat /\ c.n - m + 2 > 0
    BY <1>1
  <2> HIDE DEF d
  <2> QED
    BY <2>1, <2>2 DEF ExtendedBy
<1>9. v \in Int /\ Value(q + 1, g) = v + 1
  <2>1. q \in Int
    OBVIOUS
  <2> QED
    BY <2>1, Values, Zenon
<1>10. ASSUME NEW y \in Ring
       PROVE  /\ Older(rr[y], Value(q + 1, g))
              /\ rr[y].sig = "loge" /\ rr[y].guid = g /\ rr[y].seq = q => y = a % RingSize
  <2>1. CASE \A k \in 1..EntryLen(t) : y # Place(a, k)
    <3>1. Older(rr[y], v)
      <4> HIDE DEF v, a, tail
      <4> QED
        BY <1>5, <2>1 DEF Done, v
    <3>2. Older(rr[y], Value(q + 1, g))
      <4> HIDE DEF v
      <4>1. v + 1 \in Int /\ v <= v + 1
        BY <1>9
      <4> QED
        BY <1>9, <3>1, <4>1, OlderStays
    <3>3. ~(rr[y].sig = "loge" /\ rr[y].guid = g /\ rr[y].seq = q)
      <4> SUFFICES ASSUME rr[y].sig = "loge", rr[y].guid = g, rr[y].seq = q PROVE FALSE
        OBVIOUS
      <4>1. Value(rr[y].seq, rr[y].guid) < v
        BY <3>1 DEF Older
      <4>2. v < v
        BY <4>1
      <4> HIDE DEF v
      <4> QED
        BY <1>9, <4>2
    <3> QED
      BY <3>2, <3>3
  <2>2. CASE \E k \in 1..EntryLen(t) : y = Place(a, k)
    <3>1. PICK k \in 1..EntryLen(t) : y = Place(a, k)
      BY <2>2
    <3>2. rr[y] = Entry(t, q, g, tail)[k]
      BY <1>6, <3>1 DEF Holds, Place
    <3>3. Older(rr[y], Value(q + 1, g)) /\ (rr[y].sig = "loge" => k = 1)
      <4> HIDE DEF tail
      <4> QED
        BY <3>2, EntrySectors
    <3>4. k = 1 => y = a % RingSize
      <4>1. a + 1 - 1 = a
        <5> HIDE DEF a
        <5> QED
          BY <1>1
      <4> HIDE DEF a
      <4> QED
        BY <3>1, <4>1 DEF Place
    <3> QED
      BY <3>3, <3>4
  <2> QED
    BY <2>1, <2>2
<1>11. OnlyOlder(rr, Value(q + 1, g)) /\ OnlyNewest(d, rr, g, q + 1)
  <2>1. OnlyOlder(rr, Value(q + 1, g))
    BY <1>10 DEF OnlyOlder
  <2>2. (q + 1) - 1 = q
    OBVIOUS
  <2> HIDE DEF d
  <2> QED
    BY <1>8, <1>10, <2>1, <2>2 DEF OnlyNewest
<1> QED
  <2> HIDE DEF d, v, a
  <2> QED
    BY <1>7, <1>8, <1>11 DEF Grown, d, v, a

-----------------------------------------------------------------------------
(* What an open shows.                                                      *)

\* An open shows f, of which the sectors of K come from the log.
Shows(h, r, fl, f, K) ==
  LET o == OpenVHDX(h, r, FALSE) IN
  /\ o.ok /\ DOMAIN o.over = K /\ K \subseteq Sectors
  /\ [s \in Sectors |-> IF s \in DOMAIN o.over THEN o.over[s] ELSE fl[s]] = f

\* The header current of two that are readable or not is one of them.
LEMMA CurrentOf ==
  ASSUME NEW h
  PROVE  CurrentHeader(h) \in {1, 2} /\ (h[CurrentHeader(h)].ok => Readable(h))
BY DEF CurrentHeader, Readable

\* With a log that reads as f where it matters, f is shown.
LEMMA ShownByLog ==
  ASSUME NEW h, NEW r, NEW fl, NEW V, NEW f \in [Sectors -> V], NEW K \in SUBSET Sectors,
         h[CurrentHeader(h)].ok, h[CurrentHeader(h)].guid # NoGuid,
         Reads(r, h[CurrentHeader(h)].guid, K, f),
         \A s \in Sectors : s \notin K => fl[s] = f[s]
  PROVE  Shows(h, r, fl, f, K)
<1> DEFINE g == h[CurrentHeader(h)].guid
           over == Analyze(r, g).over
           o == OpenVHDX(h, r, FALSE)
           seen == [s \in Sectors |-> IF s \in DOMAIN o.over THEN o.over[s] ELSE fl[s]]
<1>1. o = Analyze(r, g)
  BY CurrentOf DEF OpenVHDX, Reads
<1> HIDE DEF o
<1>2. o.ok /\ DOMAIN o.over = K /\ \A s \in K : o.over[s] = f[s]
  BY <1>1 DEF Reads
<1>3. \A s \in Sectors : seen[s] = f[s]
  BY <1>2
<1>4. seen = f
  BY <1>3
<1> QED
  BY <1>2, <1>4 DEF Shows, o

\* Without a log the file is shown.
LEMMA ShownByFile ==
  ASSUME NEW h, NEW r, NEW fl, NEW V, NEW f \in [Sectors -> V],
         h[CurrentHeader(h)].ok, h[CurrentHeader(h)].guid = NoGuid,
         \A s \in Sectors : fl[s] = f[s]
  PROVE  Shows(h, r, fl, f, {})
<1> DEFINE o == OpenVHDX(h, r, FALSE)
           seen == [s \in Sectors |-> IF s \in DOMAIN o.over THEN o.over[s] ELSE fl[s]]
<1>1. o = [ok |-> TRUE, over |-> Nothing]
  BY CurrentOf DEF OpenVHDX
<1> HIDE DEF o
<1>2. o.ok /\ DOMAIN o.over = {}
  BY <1>1 DEF Nothing
<1>3. \A s \in Sectors : seen[s] = f[s]
  BY <1>2
<1>4. seen = f
  BY <1>3
<1> QED
  BY <1>2, <1>4 DEF Shows, o

\* With a chain that says what f is, and a file that is f elsewhere, f is shown.
LEMMA ShownByChain ==
  ASSUME NEW h, NEW r, NEW fl, NEW V, NEW f \in [Sectors -> V], NEW c, NEW q, NEW g,
         h[CurrentHeader(h)].ok, h[CurrentHeader(h)].guid = g, g # NoGuid,
         Chain(c, r, g, q), c.n > 0, NewestOnly(c, r, g, q), Says(c, g, q, f),
         NEW m, NEW D, FromOn(c, m, D), \A s \in Sectors : s \notin D => fl[s] = f[s],
         FileSize <= MaxOverlay
  PROVE  Shows(h, r, fl, f, Covered(c)) /\ D \subseteq Covered(c)
<1>1. D \subseteq Covered(c)
  BY DEF FromOn, Covered
<1>2. Covered(c) \subseteq Sectors
  BY StepsTyped
<1>3. Reads(r, g, Covered(c), f)
  BY ChainRead
<1>4. \A s \in Sectors : s \notin Covered(c) => fl[s] = f[s]
  BY <1>1
<1>5. Shows(h, r, fl, f, Covered(c))
  BY <1>2, <1>3, <1>4, ShownByLog
<1> QED
  BY <1>1, <1>5

\* An entry about to be written has all its sectors still to be written.
LEMMA WritingStarts ==
  ASSUME NEW r, NEW a \in Nat, NEW t \in Trans, NEW q, NEW g, NEW tail, OnlyOlder(r, Value(q, g))
  PROVE  Writing(r, a, t, q, g, tail, ToWrite(t, q, g, a % RingSize, tail))
<1> DEFINE todo == ToWrite(t, q, g, a % RingSize, tail)
           pair(k) == Pair(a, t, q, g, tail, k)
<1>1. EntryLen(t) \in Nat \ {0}
  BY EntryLenTyped
<1>2. ASSUME NEW k \in 1..EntryLen(t)
      PROVE  Place(a, k) \in Ring /\ <<((a % RingSize) + k - 1) % RingSize, Entry(t, q, g, tail)[k]>> = pair(k)
  <2>1. k - 1 \in Nat /\ a + (k - 1) \in Nat /\ a + (k - 1) = a + k - 1
    BY <1>1
  <2>2. (a % RingSize) \in Nat
    BY RingAssumption, Division
  <2>3. (a % RingSize) + k - 1 = (a % RingSize) + (k - 1)
    BY <2>2
  <2>4. ((a % RingSize) + (k - 1)) % RingSize = (a + (k - 1)) % RingSize /\ (a + (k - 1)) % RingSize \in Ring
    BY <2>1, Wrap
  <2> QED
    BY <2>1, <2>3, <2>4 DEF Place, Pair
<1>3. todo = {pair(k) : k \in 1..EntryLen(t)}
  <2> HIDE DEF pair
  <2> QED
    BY <1>2 DEF ToWrite
<1>4. todo # {}
  BY <1>1, <1>3
<1> HIDE DEF todo
<1>5. \A k \in 1..EntryLen(t) : pair(k) \in todo /\ Older(r[Place(a, k)], Value(q, g))
  BY <1>2, <1>3 DEF OnlyOlder
<1>6. \A x \in todo : \E k \in 1..EntryLen(t) : x = pair(k)
  BY <1>3
<1>7. Writing(r, a, t, q, g, tail, todo)
  BY <1>4, <1>5, <1>6 DEF Writing, OnlyOlder
<1> QED
  BY <1>7 DEF todo

\* The tail an entry records, counted back from the head.
LEMMA BackFrom ==
  ASSUME NEW x \in Nat, NEW y \in Nat, y <= x, x - y <= RingSize
  PROVE  ((x % RingSize) + RingSize - (x - y)) % RingSize = y % RingSize
<1> DEFINE j == RingSize - (x - y)
<1>1. j \in Nat /\ x + j = y + RingSize /\ x % RingSize \in Nat
  <2>1. x % RingSize \in Nat
    BY RingAssumption, Division
  <2> QED
    BY <2>1, RingAssumption
<1>2. ((x % RingSize) + j) % RingSize = (x + j) % RingSize
  BY <1>1, Wrap
<1>3. (y + RingSize) % RingSize = y % RingSize
  <2>1. y + RingSize \in Nat /\ (y + RingSize) % RingSize \in Nat
    BY RingAssumption, Division
  <2> DEFINE q == y \div RingSize
             s == y % RingSize
  <2>2. q \in Nat /\ s \in Nat /\ s < RingSize /\ y = q * RingSize + s
    BY RingAssumption, Division
  <2>3. PICK z \in Nat : z = q * RingSize
    BY <2>2, RingAssumption
  <2>4. (q + 1) * RingSize = z + RingSize /\ ((q + 1) + 1) * RingSize = (z + RingSize) + RingSize
    BY <2>2, <2>3, RingAssumption
  <2>5. (q + 1) * RingSize <= y + RingSize /\ y + RingSize < ((q + 1) + 1) * RingSize
    <3> HIDE DEF q, s
    <3> QED
      BY <2>2, <2>3, <2>4, RingAssumption
  <2>6. q + 1 \in Nat
    BY <2>2
  <2>7. (y + RingSize) % RingSize = (y + RingSize) - (q + 1) * RingSize
    <3> HIDE DEF q
    <3> QED
      BY <2>1, <2>5, <2>6, RingAssumption, DivisionUnique, Zenon
  <2>8. (y + RingSize) - (q + 1) * RingSize = s
    <3> HIDE DEF q, s
    <3> QED
      BY <2>2, <2>3, <2>4, RingAssumption
  <2> QED
    BY <2>7, <2>8
<1>4. (x % RingSize) + RingSize - (x - y) = (x % RingSize) + j
  BY <1>1, RingAssumption
<1> QED
  BY <1>1, <1>2, <1>3, <1>4

-----------------------------------------------------------------------------
(* The invariant.                                                           *)

Current == hdr[CurrentHeader(hdr)]

\* The types, with what they need of their own: the current header is readable,
\* only the last sector of the file may be absent, and no sector of the log is of
\* a log that has not been started yet.
Typed ==
  /\ hdr \in [1..2 -> [ok : BOOLEAN, seq : Nat \ {0}, guid : 0..MaxLogs]]
  /\ Current.ok
  /\ w = [pc |-> w.pc, todo |-> w.todo, trans |-> w.trans, dirty |-> w.dirty, used |-> w.used,
          pend |-> w.pend, guid |-> w.guid, head |-> w.head, seq |-> w.seq, logs |-> w.logs]
  /\ w.pc \in {"off", "starting", "logging", "ready", "replaying", "sealing", "header"}
  /\ w.trans \in Trans /\ w.head \in Ring /\ w.seq \in Nat \ {0}
  /\ w.logs \in 0..MaxLogs /\ w.guid \in 0..w.logs
  /\ w.used \in 0..RingSize /\ w.pend \in 0..w.used
  /\ DOMAIN w.dirty \subseteq Sectors
  /\ DOMAIN ring = Ring /\ OnlyOlder(ring, Value(1, w.logs + 1))
  /\ file \in [Sectors -> SectorValues] /\ committed \in [Sectors -> SectorValues]
  /\ \A s \in Sectors : file[s] = Absent \/ committed[s] = Absent => s = FileSize - 1

\* A writer holds every sector in which the file lags behind what is committed.
InSync ==
  w.pc # "off" => \A s \in Sectors :
    IF s \in DOMAIN w.dirty THEN w.dirty[s] = committed[s] ELSE file[s] = committed[s]

\* What each phase of the writer means for the header and the sectors it holds.
Phase ==
  /\ w.todo # {} => w.pc \in {"starting", "logging"}
  /\ w.pc = "off" => w.dirty = Nothing
  /\ w.pc \in {"starting", "logging", "ready"} => w.guid = w.logs /\ w.guid # NoGuid
  /\ w.pc = "starting" => Current.guid = NoGuid /\ w.dirty = Nothing
  /\ w.pc \in {"logging", "ready"} => Current.guid = w.guid
  /\ w.pc \in {"sealing", "header"} =>
       w.dirty = Nothing /\ (w.guid # NoGuid => w.guid = w.logs /\ Current.guid = NoGuid)
  /\ w.pc \in {"logging", "ready", "replaying"} => DOMAIN w.dirty \subseteq DOMAIN Opened.over

\* Whatever happens, an open finds what is committed.
Presents ==
  /\ Opened.ok /\ DOMAIN Opened.over \subseteq Sectors
  /\ Viewed(Opened.over) = committed

\* The writer's log is the chain c, of which the entries from m on are still to
\* be put in place.
Holding(c, m) ==
  /\ Chain(c, ring, w.guid, w.seq) /\ OnlyNewest(c, ring, w.guid, w.seq)
  /\ Says(c, w.guid, w.seq, committed)
  /\ m \in 1..(c.n + 1) /\ FromOn(c, m, DOMAIN w.dirty)
  /\ w.head = c.p[c.n + 1] % RingSize

AtRest(c, m) ==
  /\ Holding(c, m) /\ c.n > 0
  /\ OnlyOlder(ring, Value(w.seq, w.guid))
  /\ w.used = c.p[c.n + 1] - c.p[1] /\ w.pend = c.p[c.n + 1] - c.p[m]

\* The entry being written begins at position a.
Journalling(c, m) ==
  LET a == c.p[c.n + 1] IN
  /\ Holding(c, m) /\ Room(c, w.trans)
  /\ Writing(ring, a, w.trans, w.seq, w.guid, c.p[m] % RingSize, w.todo)
  /\ w.used = (a - c.p[m]) + EntryLen(w.trans)

InLog ==
  /\ w.pc = "ready" \/ (w.pc \in {"sealing", "header"} /\ w.guid # NoGuid) => \E c, m : AtRest(c, m)
  /\ w.pc = "logging" => /\ w.seq <= MaxSeq /\ w.pend = w.used
                         /\ \E c, m : Journalling(c, m) /\ c.n > 0
  /\ w.pc = "starting" => /\ w.seq = 1 /\ w.trans = <<>> /\ w.pend = 0
                          /\ \E c, m : Journalling(c, m) /\ c.n = 0

Inv == Typed /\ InSync /\ Phase /\ Presents /\ InLog

\* What is shown is what Presents asks for.
LEMMA ShownIsPresented ==
  ASSUME NEW K, Shows(hdr, ring, file, committed, K)
  PROVE  Presents /\ DOMAIN Opened.over = K
BY DEF Shows, Presents, Opened, Viewed

LEMMA ShownIsPresentedNext ==
  ASSUME NEW K, Shows(hdr', ring', file', committed', K)
  PROVE  Presents' /\ DOMAIN Opened'.over = K
BY DEF Shows, Presents, Opened, Viewed

-----------------------------------------------------------------------------
(* Every step keeps the invariant.                                          *)

LEMMA InitInv == Init => Inv
<1> SUFFICES ASSUME Init PROVE Inv
  OBVIOUS
<1>1. PICK b \in BOOLEAN : hdr = <<[ok |-> b, seq |-> 1, guid |-> NoGuid], [ok |-> TRUE, seq |-> 2, guid |-> NoGuid]>>
  BY DEF Init
<1>2. hdr[1] = [ok |-> b, seq |-> 1, guid |-> 0] /\ hdr[2] = [ok |-> TRUE, seq |-> 2, guid |-> 0]
      /\ hdr = [i \in 1..2 |-> hdr[i]]
  BY <1>1 DEF NoGuid
<1>3. hdr \in [1..2 -> [ok : BOOLEAN, seq : Nat \ {0}, guid : 0..MaxLogs]]
  <2>1. hdr[1] \in [ok : BOOLEAN, seq : Nat \ {0}, guid : 0..MaxLogs]
    BY <1>2, BoundsAssumption
  <2>2. hdr[2] \in [ok : BOOLEAN, seq : Nat \ {0}, guid : 0..MaxLogs]
    BY <1>2, BoundsAssumption
  <2>3. \A i \in 1..2 : i = 1 \/ i = 2
    OBVIOUS
  <2> HIDE <1>1
  <2> QED
    BY <1>2, <2>1, <2>2, <2>3
<1>4. CurrentHeader(hdr) = 2 /\ Current.ok /\ Current.guid = NoGuid
  <2>1. hdr[1].seq = 1 /\ hdr[2].seq = 2 /\ hdr[2].ok /\ hdr[2].guid = 0
    BY <1>2
  <2>2. CurrentHeader(hdr) = 2
    BY <2>1 DEF CurrentHeader
  <2> QED
    BY <2>1, <2>2 DEF Current, NoGuid
<1>5. w = [pc |-> "off", todo |-> {}, trans |-> <<>>, dirty |-> Nothing, used |-> 0, pend |-> 0,
           guid |-> NoGuid, head |-> 0, seq |-> 1, logs |-> 0]
  BY DEF Init, NoWriter
<1>6. DOMAIN ring = Ring /\ OnlyOlder(ring, Value(1, w.logs + 1))
  <2>1. ring = [k \in Ring |-> [sig |-> "none"]]
    BY DEF Init
  <2> QED
    BY <2>1 DEF OnlyOlder, Older
<1>7. /\ file \in [Sectors -> SectorValues] /\ committed = file
      /\ \A s \in Sectors : file[s] = Absent => s = FileSize - 1
  <2>1. Zeroes \in SectorValues /\ Absent \in SectorValues /\ Zeroes # Absent
    <3>1. 0 \in Words /\ -1 \in Words
      <4>1. MaxSeq * MaxLogs \in Nat
        BY BoundsAssumption
      <4> QED
        BY <4>1 DEF Words
    <3> QED
      BY <3>1 DEF SectorValues, Zeroes, Absent
  <2>2. file = [s \in Sectors |-> Zeroes] \/ file = [s \in Sectors |-> IF s = FileSize - 1 THEN Absent ELSE Zeroes]
    BY DEF Init
  <2> QED
    BY <2>1, <2>2 DEF Init
<1>8. Typed
  <2>1. 0 \in Ring /\ <<>> \in Trans
    BY RingAssumption DEF Ring, Trans
  <2>2. DOMAIN w.dirty \subseteq Sectors
    BY <1>5 DEF Nothing
  <2>3. w = [pc |-> w.pc, todo |-> w.todo, trans |-> w.trans, dirty |-> w.dirty, used |-> w.used,
             pend |-> w.pend, guid |-> w.guid, head |-> w.head, seq |-> w.seq, logs |-> w.logs]
    BY <1>5
  <2>4. /\ w.pc = "off" /\ w.trans = <<>> /\ w.head = 0 /\ w.seq = 1 /\ w.logs = 0 /\ w.guid = 0
        /\ w.used = 0 /\ w.pend = 0
    BY <1>5 DEF NoGuid
  <2>5. w.logs \in 0..MaxLogs /\ w.used \in 0..RingSize /\ w.pend \in 0..w.used /\ w.guid \in 0..w.logs
    BY <2>4, BoundsAssumption, RingAssumption
  <2>6. /\ w.pc \in {"off", "starting", "logging", "ready", "replaying", "sealing", "header"}
        /\ w.trans \in Trans /\ w.head \in Ring /\ w.seq \in Nat \ {0}
    BY <2>1, <2>4
  <2> QED
    BY <1>3, <1>4, <1>6, <1>7, <2>2, <2>3, <2>5, <2>6 DEF Typed
<1>9. w.pc = "off" /\ w.dirty = Nothing /\ w.todo = {}
  BY <1>5
<1>10. Presents
  <2>1. Shows(hdr, ring, file, committed, {})
    <3>1. \A s \in Sectors : file[s] = committed[s]
      BY <1>7
    <3> QED
      BY <1>4, <1>7, <3>1, ShownByFile DEF Current
  <2> QED
    BY <2>1, ShownIsPresented
<1> QED
  BY <1>8, <1>9, <1>10 DEF Inv, InSync, Phase, InLog

\* What is on disk is seen as before while it is left alone.
LEMMA DiskUnchanged ==
  ASSUME UNCHANGED <<hdr, ring, file, committed>>, Presents
  PROVE  Presents' /\ Opened' = Opened /\ Current' = Current
BY DEF Presents, Opened, Viewed, Current

\* With no log in the header the file is what is committed.
LEMMA NoLogInSync ==
  ASSUME Typed, Presents, Current.guid = NoGuid
  PROVE  \A s \in Sectors : file[s] = committed[s]
<1>1. Opened.over = Nothing
  BY CurrentOf DEF Opened, OpenVHDX, Current, Typed
<1>2. \A s : s \notin DOMAIN Opened.over
  BY <1>1 DEF Nothing
<1>3. \A s \in Sectors : Viewed(Opened.over)[s] = file[s]
  BY <1>2 DEF Viewed
<1> QED
  BY <1>3 DEF Presents

\* What the parts of the invariant come down to in the state after a step.
LEMMA AtRestNext ==
  ASSUME NEW CONSTANT c, NEW CONSTANT m,
         Chain(c, ring', w'.guid, w'.seq), OnlyNewest(c, ring', w'.guid, w'.seq),
         Says(c, w'.guid, w'.seq, committed'),
         m \in 1..(c.n + 1), FromOn(c, m, DOMAIN w'.dirty), w'.head = c.p[c.n + 1] % RingSize,
         c.n > 0, OnlyOlder(ring', Value(w'.seq, w'.guid)),
         w'.used = c.p[c.n + 1] - c.p[1], w'.pend = c.p[c.n + 1] - c.p[m]
  PROVE  AtRest(c, m)'
BY DEF AtRest, Holding

LEMMA JournallingNext ==
  ASSUME NEW CONSTANT c, NEW CONSTANT m,
         Chain(c, ring', w'.guid, w'.seq), OnlyNewest(c, ring', w'.guid, w'.seq),
         Says(c, w'.guid, w'.seq, committed'),
         m \in 1..(c.n + 1), FromOn(c, m, DOMAIN w'.dirty), w'.head = c.p[c.n + 1] % RingSize,
         Room(c, w'.trans), w'.used = (c.p[c.n + 1] - c.p[m]) + EntryLen(w'.trans),
         Writing(ring', c.p[c.n + 1], w'.trans, w'.seq, w'.guid, c.p[m] % RingSize, w'.todo)
  PROVE  Journalling(c, m)'
BY DEF Journalling, Holding

LEMMA StartLogInv ==
  ASSUME Inv, StartLog
  PROVE  Inv'
<1>0. PICK g : g = w.logs + 1
  OBVIOUS
<1>a. PICK head : head = w.head
  OBVIOUS
<1>b. PICK c : c = [n |-> 0, p |-> [k \in 1..1 |-> head], t |-> [k \in 1..0 |-> <<>>],
                    tail |-> [k \in 1..0 |-> head]]
  OBVIOUS
<1>1. /\ w.pc = "off" /\ Current.guid = NoGuid /\ w.logs < MaxLogs /\ w.dirty = Nothing
      /\ head \in Ring /\ w.logs \in Nat /\ g \in 1..MaxLogs /\ head \in Nat /\ g \in Nat
  <2>1. w.pc = "off" /\ Current.guid = NoGuid /\ w.logs < MaxLogs /\ w.dirty = Nothing
    BY DEF StartLog, Current, Inv, Phase
  <2> QED
    BY <1>0, <1>a, <2>1, BoundsAssumption DEF Inv, Typed, Ring
<1>2. UNCHANGED <<hdr, ring, file, committed>>
  BY DEF StartLog
<1>3. Presents' /\ Opened' = Opened /\ Current' = Current
  BY <1>2, DiskUnchanged DEF Inv
<1>4. w' = [pc |-> "starting", todo |-> ToWrite(<<>>, 1, g, head, head), trans |-> <<>>, dirty |-> w.dirty,
            used |-> 1, pend |-> 0, guid |-> g, head |-> head, seq |-> 1, logs |-> g]
  BY <1>0, <1>a DEF StartLog, Inv, Typed
<1>5. /\ w'.pc = "starting" /\ w'.todo = ToWrite(<<>>, 1, g, head, head) /\ w'.trans = <<>>
      /\ w'.dirty = Nothing /\ w'.used = 1 /\ w'.pend = 0 /\ w'.guid = g /\ w'.head = head
      /\ w'.seq = 1 /\ w'.logs = g
  BY <1>1, <1>4
<1>6. OnlyOlder(ring, Value(1, g))
  BY <1>0 DEF Inv, Typed
<1>7. Typed'
  <2>1. OnlyOlder(ring, Value(1, g + 1))
    <3>1. 1 \in 1..MaxSeq /\ 1 \in Int
      BY BoundsAssumption
    <3>2. Value(1 + 1, g) <= Value(1, g + 1) /\ Value(1, g + 1) \in Int
      BY <1>1, <3>1, ValueBounds
    <3>3. Value(1, g) \in Int /\ Value(1 + 1, g) = Value(1, g) + 1
      BY <1>1, <3>1, Values, Zenon
    <3>4. Value(1, g) <= Value(1, g + 1)
      BY <3>2, <3>3
    <3> QED
      BY <1>6, <3>2, <3>3, <3>4, OlderStays DEF OnlyOlder
  <2>2. w' = [pc |-> w'.pc, todo |-> w'.todo, trans |-> w'.trans, dirty |-> w'.dirty, used |-> w'.used,
              pend |-> w'.pend, guid |-> w'.guid, head |-> w'.head, seq |-> w'.seq, logs |-> w'.logs]
    BY <1>4
  <2>3. /\ w'.trans \in Trans /\ w'.head \in Ring /\ w'.seq \in Nat \ {0} /\ DOMAIN w'.dirty \subseteq Sectors
        /\ w'.pc \in {"off", "starting", "logging", "ready", "replaying", "sealing", "header"}
    BY <1>1, <1>5 DEF Trans, Nothing
  <2>4. /\ w'.logs \in 0..MaxLogs /\ w'.guid \in 0..w'.logs
        /\ w'.used \in 0..RingSize /\ w'.pend \in 0..w'.used
    BY <1>1, <1>5, RingAssumption
  <2>5. OnlyOlder(ring', Value(1, w'.logs + 1))
    BY <1>2, <1>5, <2>1
  <2>6. /\ hdr' \in [1..2 -> [ok : BOOLEAN, seq : Nat \ {0}, guid : 0..MaxLogs]]
        /\ Current'.ok /\ DOMAIN ring' = Ring
        /\ file' \in [Sectors -> SectorValues] /\ committed' \in [Sectors -> SectorValues]
        /\ \A s \in Sectors : file'[s] = Absent \/ committed'[s] = Absent => s = FileSize - 1
    BY <1>2, <1>3 DEF Inv, Typed
  <2> QED
    BY <2>2, <2>3, <2>4, <2>5, <2>6 DEF Typed
<1>8. InSync'
  <2>1. \A s \in Sectors : file[s] = committed[s]
    BY <1>1, NoLogInSync DEF Inv
  <2>2. DOMAIN w'.dirty = {}
    BY <1>5 DEF Nothing
  <2> QED
    BY <1>2, <2>1, <2>2 DEF InSync
<1>9. Phase'
  BY <1>1, <1>3, <1>5 DEF Phase, NoGuid
<1>10. c.n = 0 /\ c.p = [k \in 1..1 |-> head] /\ c.p[1] = head
       /\ c.t = [k \in 1..0 |-> <<>>] /\ c.tail = [k \in 1..0 |-> head]
  BY <1>b
<1>11. EntryLen(<<>>) = 1 /\ <<>> \in Trans
  <2>1. Len(<<>>) = 0
    OBVIOUS
  <2>2. DataIndex(<<>>, 0 + 1) = 0
    <3>1. {j \in 1..((0 + 1) - 1) : <<>>[j].kind = "desc"} = {}
      OBVIOUS
    <3> QED
      BY <3>1, FS_EmptySet DEF DataIndex
  <2> QED
    BY <2>1, <2>2, EmptyEntry DEF EntryLen, Trans
<1>12. Chain(c, ring, g, 1)
  <2>1. c.n \in Nat /\ 1 \in Nat /\ 1 - c.n >= 1 /\ c.p \in [1..(c.n + 1) -> Nat]
    BY <1>1, <1>10
  <2>2. c.t \in [1..c.n -> Trans] /\ c.tail \in [1..c.n -> Ring]
    BY <1>1, <1>10
  <2>3. c.p[c.n + 1] <= c.p[1] + RingSize
    BY <1>1, <1>10, RingAssumption
  <2>4. ~(c.n > 0) /\ \A k \in 1..c.n : FALSE
    BY <1>10
  <2> QED
    BY <2>1, <2>2, <2>3, <2>4 DEF Chain
<1>13. head % RingSize = head
  BY <1>1, InPlace
<1>14. Journalling(c, 1)'
  <2>1. Writing(ring, head, <<>>, 1, g, head, ToWrite(<<>>, 1, g, head, head))
    <3>1. Writing(ring, head, <<>>, 1, g, head, ToWrite(<<>>, 1, g, head % RingSize, head))
      BY <1>1, <1>6, <1>11, WritingStarts
    <3> QED
      BY <1>13, <3>1
  <2>2. c.p[c.n + 1] = head /\ c.p[1] = head /\ 1 \in 1..(c.n + 1)
    BY <1>10
  <2>3. Room(c, w'.trans) /\ w'.used = (c.p[c.n + 1] - c.p[1]) + EntryLen(w'.trans)
    BY <1>1, <1>5, <1>11, <2>2, RingAssumption DEF Room
  <2>4. Steps(c) = {} /\ DOMAIN w'.dirty = {}
    BY <1>5, <1>10 DEF Steps, Nothing
  <2>5. OnlyNewest(c, ring', w'.guid, w'.seq)
    BY <1>10 DEF OnlyNewest
  <2>6. Says(c, w'.guid, w'.seq, committed') /\ FromOn(c, 1, DOMAIN w'.dirty)
    BY <2>4 DEF Says, FromOn
  <2>7. Chain(c, ring', w'.guid, w'.seq) /\ w'.head = c.p[c.n + 1] % RingSize
    BY <1>2, <1>5, <1>12, <1>13, <2>2
  <2>8. Writing(ring', c.p[c.n + 1], w'.trans, w'.seq, w'.guid, c.p[1] % RingSize, w'.todo)
    BY <1>2, <1>5, <1>13, <2>1, <2>2
  <2> QED
    BY <2>2, <2>3, <2>5, <2>6, <2>7, <2>8, JournallingNext
<1>15. InLog'
  BY <1>5, <1>10, <1>14 DEF InLog
<1> QED
  BY <1>3, <1>7, <1>8, <1>9, <1>15 DEF Inv

\* Where the positions of a log that is held lie.
LEMMA Positions ==
  ASSUME Typed, NEW c, NEW m, Holding(c, m)
  PROVE  /\ c.n \in Nat /\ m \in 1..(c.n + 1)
         /\ c.p[1] \in Nat /\ c.p[m] \in Nat /\ c.p[c.n + 1] \in Nat
         /\ c.p[1] <= c.p[m] /\ c.p[m] <= c.p[c.n + 1] /\ c.p[c.n + 1] <= c.p[1] + RingSize
         /\ w.guid \in Nat /\ w.seq \in Nat /\ w.logs \in Nat
<1>1. Chain(c, ring, w.guid, w.seq) /\ m \in 1..(c.n + 1)
  BY DEF Holding
<1>2. Grows(c)
  BY <1>1, ChainGrows
<1>3. /\ c.n \in Nat /\ c.p \in [1..(c.n + 1) -> Nat] /\ c.p[c.n + 1] <= c.p[1] + RingSize
      /\ 1 \in 1..(c.n + 1) /\ c.n + 1 \in 1..(c.n + 1)
  BY <1>1 DEF Chain
<1>4. c.p[1] \in Nat /\ c.p[m] \in Nat /\ c.p[c.n + 1] \in Nat
  BY <1>1, <1>3
<1>5. c.p[1] <= c.p[m] /\ c.p[m] <= c.p[c.n + 1]
  <2>1. PICK last \in Nat : last = c.n + 1
    BY <1>3
  <2>2. 1 \in 1..last /\ last \in 1..last /\ m \in 1..last /\ 1 <= m /\ m <= last
    BY <1>1, <2>1
  <2>3. \A j, k \in 1..last : j <= k => c.p[j] + (k - j) <= c.p[k]
    BY <1>2, <2>1 DEF Grows
  <2>4. c.p[1] + (m - 1) <= c.p[m] /\ c.p[m] + (last - m) <= c.p[last]
    BY <2>2, <2>3
  <2>5. c.p[last] \in Nat
    BY <1>4, <2>1
  <2>6. c.p[1] <= c.p[m] /\ c.p[m] <= c.p[last]
    BY <1>4, <2>2, <2>4, <2>5
  <2> QED
    BY <2>1, <2>6
<1>7. w.guid \in Nat /\ w.seq \in Nat /\ w.logs \in Nat
  BY BoundsAssumption DEF Typed
<1> QED
  BY <1>1, <1>3, <1>4, <1>5, <1>7

LEMMA LogInv ==
  ASSUME Inv, NEW t \in Transactions, Log(t)
  PROVE  Inv'
<1>1. UNCHANGED <<hdr, ring, file, committed>>
  BY DEF Log
<1>2. Presents' /\ Opened' = Opened /\ Current' = Current
  BY <1>1, DiskUnchanged DEF Inv
<1>3. w.pc = "ready" /\ w.seq <= MaxSeq /\ EntryLen(t) <= RingSize - w.used
  BY DEF Log
<1>4. PICK c, m : AtRest(c, m)
  BY <1>3 DEF Inv, InLog
<1>5. PICK tail : tail = (w.head + RingSize - w.pend) % RingSize
  OBVIOUS
<1>6. PICK len : len = w.pend + EntryLen(t)
  OBVIOUS
<1>7. w' = [pc |-> "logging", todo |-> ToWrite(t, w.seq, w.guid, w.head, tail), trans |-> t, dirty |-> w.dirty,
            used |-> len, pend |-> len, guid |-> w.guid, head |-> w.head, seq |-> w.seq, logs |-> w.logs]
  BY <1>5, <1>6 DEF Log, Inv, Typed
<1>8. /\ w'.pc = "logging" /\ w'.todo = ToWrite(t, w.seq, w.guid, w.head, tail) /\ w'.trans = t
      /\ w'.dirty = w.dirty /\ w'.used = len /\ w'.pend = len /\ w'.guid = w.guid /\ w'.head = w.head
      /\ w'.seq = w.seq /\ w'.logs = w.logs
  BY <1>7
<1>9. /\ c.n \in Nat /\ m \in 1..(c.n + 1)
      /\ c.p[1] \in Nat /\ c.p[m] \in Nat /\ c.p[c.n + 1] \in Nat
      /\ c.p[1] <= c.p[m] /\ c.p[m] <= c.p[c.n + 1] /\ c.p[c.n + 1] <= c.p[1] + RingSize
      /\ w.guid \in Nat /\ w.seq \in Nat
  BY <1>4, Positions DEF Inv, AtRest
<1>10. /\ w.used = c.p[c.n + 1] - c.p[1] /\ w.pend = c.p[c.n + 1] - c.p[m]
       /\ w.head = c.p[c.n + 1] % RingSize /\ OnlyOlder(ring, Value(w.seq, w.guid)) /\ c.n > 0
  BY <1>4 DEF AtRest, Holding
<1>11. t \in Trans /\ EntryLen(t) \in Nat \ {0}
  BY EntryLenTyped DEF Trans
<1>12. Room(c, t) /\ len = (c.p[c.n + 1] - c.p[m]) + EntryLen(t) /\ len \in 0..RingSize
  BY <1>3, <1>6, <1>9, <1>10, <1>11, RingAssumption DEF Room
<1>13. tail = c.p[m] % RingSize
  <2>1. c.p[c.n + 1] - c.p[m] <= RingSize
    BY <1>9, RingAssumption
  <2>2. ((c.p[c.n + 1] % RingSize) + RingSize - (c.p[c.n + 1] - c.p[m])) % RingSize = c.p[m] % RingSize
    BY <1>9, <2>1, BackFrom
  <2> QED
    BY <1>5, <1>10, <2>2
<1>14. Typed'
  <2>1. w' = [pc |-> w'.pc, todo |-> w'.todo, trans |-> w'.trans, dirty |-> w'.dirty, used |-> w'.used,
              pend |-> w'.pend, guid |-> w'.guid, head |-> w'.head, seq |-> w'.seq, logs |-> w'.logs]
    BY <1>7
  <2>2. w.head \in Ring /\ w.seq \in Nat \ {0} /\ DOMAIN w.dirty \subseteq Sectors
        /\ w.logs \in 0..MaxLogs /\ w.guid \in 0..w.logs
    BY DEF Inv, Typed
  <2>3. /\ w'.trans \in Trans /\ w'.head \in Ring /\ w'.seq \in Nat \ {0} /\ DOMAIN w'.dirty \subseteq Sectors
        /\ w'.pc \in {"off", "starting", "logging", "ready", "replaying", "sealing", "header"}
        /\ w'.logs \in 0..MaxLogs /\ w'.guid \in 0..w'.logs
    BY <1>8, <1>11, <2>2
  <2>4. w'.used \in 0..RingSize /\ w'.pend \in 0..w'.used
    BY <1>8, <1>12, RingAssumption
  <2>5. /\ hdr' \in [1..2 -> [ok : BOOLEAN, seq : Nat \ {0}, guid : 0..MaxLogs]]
        /\ Current'.ok /\ DOMAIN ring' = Ring /\ OnlyOlder(ring', Value(1, w'.logs + 1))
        /\ file' \in [Sectors -> SectorValues] /\ committed' \in [Sectors -> SectorValues]
        /\ \A s \in Sectors : file'[s] = Absent \/ committed'[s] = Absent => s = FileSize - 1
    BY <1>1, <1>2, <1>8 DEF Inv, Typed
  <2> QED
    BY <2>1, <2>3, <2>4, <2>5 DEF Typed
<1>15. InSync' /\ Phase'
  BY <1>1, <1>2, <1>3, <1>8 DEF Inv, InSync, Phase
<1>16. Journalling(c, m)'
  <2>1. Writing(ring, c.p[c.n + 1], t, w.seq, w.guid, tail, ToWrite(t, w.seq, w.guid, w.head, tail))
    <3>1. Writing(ring, c.p[c.n + 1], t, w.seq, w.guid, tail,
                  ToWrite(t, w.seq, w.guid, c.p[c.n + 1] % RingSize, tail))
      BY <1>9, <1>10, <1>11, WritingStarts
    <3> QED
      BY <1>10, <3>1
  <2>2. Writing(ring', c.p[c.n + 1], w'.trans, w'.seq, w'.guid, c.p[m] % RingSize, w'.todo)
    BY <1>1, <1>8, <1>13, <2>1
  <2>3. /\ Chain(c, ring', w'.guid, w'.seq) /\ OnlyNewest(c, ring', w'.guid, w'.seq)
        /\ Says(c, w'.guid, w'.seq, committed')
        /\ m \in 1..(c.n + 1) /\ FromOn(c, m, DOMAIN w'.dirty) /\ w'.head = c.p[c.n + 1] % RingSize
    BY <1>1, <1>4, <1>8 DEF AtRest, Holding
  <2>4. Room(c, w'.trans) /\ w'.used = (c.p[c.n + 1] - c.p[m]) + EntryLen(w'.trans)
    BY <1>8, <1>12
  <2> QED
    BY <2>2, <2>3, <2>4, JournallingNext
<1>17. InLog'
  BY <1>3, <1>8, <1>10, <1>16 DEF InLog
<1> QED
  BY <1>2, <1>14, <1>15, <1>17 DEF Inv

\* While the disk is left alone the types are those of the writer.
LEMMA QuietTyped ==
  ASSUME Typed, Presents, UNCHANGED <<hdr, ring, file, committed>>,
         w' = [pc |-> w'.pc, todo |-> w'.todo, trans |-> w'.trans, dirty |-> w'.dirty, used |-> w'.used,
               pend |-> w'.pend, guid |-> w'.guid, head |-> w'.head, seq |-> w'.seq, logs |-> w'.logs],
         w'.pc \in {"off", "starting", "logging", "ready", "replaying", "sealing", "header"},
         w'.trans \in Trans, w'.head = w.head, w'.seq = w.seq, w'.logs = w.logs, w'.guid \in {w.guid, NoGuid},
         w'.used \in 0..RingSize, w'.pend \in 0..w'.used, DOMAIN w'.dirty \subseteq Sectors
  PROVE  Typed'
<1>1. Current' = Current
  BY DiskUnchanged
<1>2. w'.head \in Ring /\ w'.seq \in Nat \ {0} /\ w'.logs \in 0..MaxLogs
  BY DEF Typed
<1>3. w'.guid \in 0..w'.logs
  BY BoundsAssumption DEF Typed, NoGuid
<1> QED
  BY <1>1, <1>2, <1>3 DEF Typed

LEMMA PowerCutInv ==
  ASSUME Inv, PowerCut
  PROVE  Inv'
<1>1. UNCHANGED <<hdr, ring, file, committed>>
  BY DEF PowerCut
<1>2. Presents'
  BY <1>1, DiskUnchanged DEF Inv
<1>3. w' = [pc |-> "off", todo |-> {}, trans |-> <<>>, dirty |-> Nothing, used |-> 0, pend |-> 0,
            guid |-> NoGuid, head |-> w.head, seq |-> w.seq, logs |-> w.logs]
  BY DEF PowerCut, NoWriter
<1>4. /\ w'.pc = "off" /\ w'.todo = {} /\ w'.trans = <<>> /\ w'.dirty = Nothing /\ w'.used = 0 /\ w'.pend = 0
      /\ w'.guid = NoGuid /\ w'.head = w.head /\ w'.seq = w.seq /\ w'.logs = w.logs
      /\ w' = [pc |-> w'.pc, todo |-> w'.todo, trans |-> w'.trans, dirty |-> w'.dirty, used |-> w'.used,
               pend |-> w'.pend, guid |-> w'.guid, head |-> w'.head, seq |-> w'.seq, logs |-> w'.logs]
  BY <1>3
<1>5. w'.trans \in Trans /\ DOMAIN w'.dirty \subseteq Sectors /\ w'.used \in 0..RingSize /\ w'.pend \in 0..w'.used
  BY <1>4, RingAssumption DEF Trans, Nothing
<1>6. Typed'
  BY <1>1, <1>4, <1>5, QuietTyped DEF Inv
<1>7. InSync' /\ Phase' /\ InLog'
  BY <1>4 DEF InSync, Phase, InLog
<1> QED
  BY <1>2, <1>6, <1>7 DEF Inv

LEMMA CloseInv ==
  ASSUME Inv, Close
  PROVE  Inv'
<1>1. UNCHANGED <<hdr, ring, file, committed>>
  BY DEF Close
<1>2. Presents'
  BY <1>1, DiskUnchanged DEF Inv
<1>3. w.pc \in {"ready", "replaying"} /\ w.dirty = Nothing
  BY DEF Close
<1>4. w' = [pc |-> "sealing", todo |-> w.todo, trans |-> w.trans, dirty |-> w.dirty, used |-> w.used,
            pend |-> w.pend, guid |-> NoGuid, head |-> w.head, seq |-> w.seq, logs |-> w.logs]
  BY DEF Close, Inv, Typed
<1>5. /\ w'.pc = "sealing" /\ w'.todo = w.todo /\ w'.trans = w.trans /\ w'.dirty = w.dirty
      /\ w'.used = w.used /\ w'.pend = w.pend
      /\ w'.guid = NoGuid /\ w'.head = w.head /\ w'.seq = w.seq /\ w'.logs = w.logs
      /\ w' = [pc |-> w'.pc, todo |-> w'.todo, trans |-> w'.trans, dirty |-> w'.dirty, used |-> w'.used,
               pend |-> w'.pend, guid |-> w'.guid, head |-> w'.head, seq |-> w'.seq, logs |-> w'.logs]
  BY <1>4
<1>6. Typed'
  <2>1. w.trans \in Trans /\ w.used \in 0..RingSize /\ w.pend \in 0..w.used /\ DOMAIN w.dirty \subseteq Sectors
    BY DEF Inv, Typed
  <2> QED
    BY <1>1, <1>5, <2>1, QuietTyped DEF Inv
<1>7. InSync' /\ Phase' /\ InLog'
  BY <1>1, <1>3, <1>5 DEF Inv, InSync, Phase, InLog
<1> QED
  BY <1>2, <1>6, <1>7 DEF Inv

LEMMA RecoverInv ==
  ASSUME Inv, Recover
  PROVE  Inv'
<1>1. UNCHANGED <<hdr, ring, file, committed>>
  BY DEF Recover
<1>2. Presents' /\ Opened' = Opened
  BY <1>1, DiskUnchanged DEF Inv
<1>3. w' = [pc |-> "replaying", todo |-> w.todo, trans |-> w.trans, dirty |-> Opened.over, used |-> w.used,
            pend |-> w.pend, guid |-> w.guid, head |-> w.head, seq |-> w.seq, logs |-> w.logs]
  BY DEF Recover, Inv, Typed
<1>4. /\ w'.pc = "replaying" /\ w'.todo = w.todo /\ w'.trans = w.trans /\ w'.dirty = Opened.over
      /\ w'.used = w.used
      /\ w'.pend = w.pend /\ w'.guid = w.guid /\ w'.head = w.head /\ w'.seq = w.seq /\ w'.logs = w.logs
      /\ w' = [pc |-> w'.pc, todo |-> w'.todo, trans |-> w'.trans, dirty |-> w'.dirty, used |-> w'.used,
               pend |-> w'.pend, guid |-> w'.guid, head |-> w'.head, seq |-> w'.seq, logs |-> w'.logs]
  <2> HIDE DEF Opened
  <2> QED
    BY <1>3
<1>5. Typed'
  <2>1. w.trans \in Trans /\ w.used \in 0..RingSize /\ w.pend \in 0..w.used /\ DOMAIN Opened.over \subseteq Sectors
    BY DEF Inv, Typed, Presents
  <2> QED
    BY <1>1, <1>4, <2>1, QuietTyped DEF Inv
<1>6. InSync'
  <2>1. Viewed(Opened.over) = committed
    BY DEF Inv, Presents
  <2>2. \A s \in Sectors : IF s \in DOMAIN Opened.over THEN Opened.over[s] = committed[s] ELSE file[s] = committed[s]
    BY <2>1 DEF Viewed
  <2> QED
    BY <1>1, <1>4, <2>2 DEF InSync
<1>7. Phase' /\ InLog'
  <2>1. w.todo = {}
    BY DEF Recover, Inv, Phase
  <2> QED
    BY <1>2, <1>4, <2>1 DEF Phase, InLog
<1> QED
  BY <1>2, <1>5, <1>6, <1>7 DEF Inv

LEMMA TearHeaderInv ==
  ASSUME Inv, TearHeader
  PROVE  Inv'
<1>1. UNCHANGED <<ring, file, committed>> /\ w.pc = "sealing"
      /\ hdr' = [hdr EXCEPT ![3 - CurrentHeader(hdr)].ok = FALSE]
  BY DEF TearHeader
<1>2. PICK k \in {1, 2} : k = CurrentHeader(hdr)
  BY CurrentOf
<1>3. hdr \in [1..2 -> [ok : BOOLEAN, seq : Nat \ {0}, guid : 0..MaxLogs]] /\ hdr[k].ok
  BY <1>2 DEF Inv, Typed, Current
<1>4. /\ hdr' \in [1..2 -> [ok : BOOLEAN, seq : Nat \ {0}, guid : 0..MaxLogs]]
      /\ hdr'[k] = hdr[k] /\ hdr'[3 - k].ok = FALSE
  <2>1. PICK j \in 1..2 : j = 3 - k
    OBVIOUS
  <2>2. PICK x : x = [hdr[j] EXCEPT !.ok = FALSE]
    OBVIOUS
  <2>3. x.ok = FALSE /\ x \in [ok : BOOLEAN, seq : Nat \ {0}, guid : 0..MaxLogs]
    <3>1. hdr[j] \in [ok : BOOLEAN, seq : Nat \ {0}, guid : 0..MaxLogs]
      BY <1>3
    <3> QED
      BY <2>2, <3>1
  <2>4. hdr' = [hdr EXCEPT ![j] = x]
    BY <1>1, <1>2, <2>1, <2>2
  <2> QED
    BY <1>3, <2>1, <2>3, <2>4
<1>5. CurrentHeader(hdr') = k /\ Readable(hdr') /\ Readable(hdr)
  BY <1>2, <1>3, <1>4 DEF CurrentHeader, Readable
<1>6. Current' = Current /\ Opened' = Opened /\ Presents'
  <2>1. Current' = Current
    BY <1>2, <1>4, <1>5 DEF Current
  <2>2. Opened' = Opened
    BY <1>1, <1>2, <1>4, <1>5 DEF Opened, OpenVHDX
  <2> QED
    BY <1>1, <2>1, <2>2 DEF Inv, Presents, Viewed
<1>7. w' = [pc |-> "header", todo |-> w.todo, trans |-> w.trans, dirty |-> w.dirty, used |-> w.used,
            pend |-> w.pend, guid |-> w.guid, head |-> w.head, seq |-> w.seq, logs |-> w.logs]
  BY DEF TearHeader, Inv, Typed
<1>8. /\ w'.pc = "header" /\ w'.todo = w.todo /\ w'.trans = w.trans /\ w'.dirty = w.dirty
      /\ w'.used = w.used /\ w'.pend = w.pend
      /\ w'.guid = w.guid /\ w'.head = w.head /\ w'.seq = w.seq /\ w'.logs = w.logs
      /\ w' = [pc |-> w'.pc, todo |-> w'.todo, trans |-> w'.trans, dirty |-> w'.dirty, used |-> w'.used,
               pend |-> w'.pend, guid |-> w'.guid, head |-> w'.head, seq |-> w'.seq, logs |-> w'.logs]
  BY <1>7
<1>9. Typed'
  BY <1>1, <1>4, <1>6, <1>8 DEF Inv, Typed
<1>10. InSync' /\ Phase'
  BY <1>1, <1>6, <1>8 DEF Inv, InSync, Phase
<1>11. InLog'
  <2>1. ASSUME w.guid # NoGuid PROVE \E c, m : AtRest(c, m)'
    <3>1. PICK c, m : AtRest(c, m)
      BY <1>1, <2>1 DEF Inv, InLog
    <3>2. AtRest(c, m)'
      BY <1>1, <1>8, <3>1 DEF AtRest, Holding
    <3> QED
      BY <3>2
  <2> QED
    BY <1>8, <2>1 DEF InLog
<1> QED
  BY <1>6, <1>9, <1>10, <1>11 DEF Inv

\* The header now written is current, and the log it names is the one at rest.
LEMMA WriteHeaderInv ==
  ASSUME Inv, WriteHeader, FileSize <= MaxOverlay
  PROVE  Inv'
<1>1. UNCHANGED <<ring, file, committed>> /\ w.pc = "header"
  BY DEF WriteHeader
<1>2. PICK k \in {1, 2} : k = CurrentHeader(hdr)
  BY CurrentOf
<1>3. hdr' = [hdr EXCEPT ![3 - k] = [ok |-> TRUE, seq |-> hdr[k].seq + 1, guid |-> w.guid]]
  BY <1>2 DEF WriteHeader
<1>4. hdr \in [1..2 -> [ok : BOOLEAN, seq : Nat \ {0}, guid : 0..MaxLogs]] /\ hdr[k].ok
  BY <1>2 DEF Inv, Typed, Current
<1>5. w.guid \in 0..MaxLogs /\ w.dirty = Nothing
  BY <1>1, BoundsAssumption DEF Inv, Typed, Phase
<1>6. /\ hdr' \in [1..2 -> [ok : BOOLEAN, seq : Nat \ {0}, guid : 0..MaxLogs]]
      /\ hdr'[k] = hdr[k] /\ hdr'[3 - k] = [ok |-> TRUE, seq |-> hdr[k].seq + 1, guid |-> w.guid]
  <2>1. [ok |-> TRUE, seq |-> hdr[k].seq + 1, guid |-> w.guid] \in [ok : BOOLEAN, seq : Nat \ {0}, guid : 0..MaxLogs]
    BY <1>2, <1>4, <1>5
  <2>2. CASE k = 1
    BY <1>3, <1>4, <2>1, <2>2
  <2>3. CASE k = 2
    BY <1>3, <1>4, <2>1, <2>3
  <2> QED
    BY <1>2, <2>2, <2>3
<1>7. Current'.ok /\ Current'.guid = w.guid
  <2>1. hdr'[3 - k].ok /\ hdr'[3 - k].seq = hdr'[k].seq + 1 /\ hdr'[3 - k].guid = w.guid /\ hdr'[k].seq \in Nat
    BY <1>2, <1>4, <1>6
  <2>2. CurrentHeader(hdr') = 3 - k
    BY <1>2, <2>1 DEF CurrentHeader
  <2> QED
    BY <2>1, <2>2 DEF Current
<1>8. \A s \in Sectors : file[s] = committed[s]
  BY <1>1, <1>5 DEF Inv, InSync, Nothing
<1>9. committed' \in [Sectors -> SectorValues]
  BY <1>1 DEF Inv, Typed
<1>10. CASE w.guid = NoGuid
  <2>1. w' = [pc |-> "off", todo |-> {}, trans |-> <<>>, dirty |-> Nothing, used |-> 0, pend |-> 0,
              guid |-> NoGuid, head |-> w.head, seq |-> w.seq, logs |-> w.logs]
    BY <1>10 DEF WriteHeader, NoWriter
  <2>2. /\ w'.pc = "off" /\ w'.todo = {} /\ w'.trans = <<>> /\ w'.dirty = Nothing /\ w'.used = 0 /\ w'.pend = 0
        /\ w'.guid = NoGuid /\ w'.head = w.head /\ w'.seq = w.seq /\ w'.logs = w.logs
        /\ w' = [pc |-> w'.pc, todo |-> w'.todo, trans |-> w'.trans, dirty |-> w'.dirty, used |-> w'.used,
                 pend |-> w'.pend, guid |-> w'.guid, head |-> w'.head, seq |-> w'.seq, logs |-> w'.logs]
    BY <2>1
  <2>3. Shows(hdr', ring', file', committed', {})
    BY <1>1, <1>7, <1>8, <1>9, <1>10, ShownByFile DEF Current
  <2>4. Presents'
    BY <2>3, ShownIsPresentedNext
  <2>5. w'.trans \in Trans /\ DOMAIN w'.dirty \subseteq Sectors /\ w'.used \in 0..RingSize /\ w'.pend \in 0..w'.used
    BY <2>2, RingAssumption DEF Trans, Nothing
  <2>6. w'.guid \in 0..w'.logs
    BY <2>2 DEF Inv, Typed, NoGuid
  <2>7. Typed'
    BY <1>1, <1>6, <1>7, <2>2, <2>5, <2>6 DEF Inv, Typed
  <2>8. InSync' /\ Phase' /\ InLog'
    BY <2>2 DEF InSync, Phase, InLog
  <2> QED
    BY <2>4, <2>7, <2>8 DEF Inv
<1>11. CASE w.guid # NoGuid
  <2>1. w' = [pc |-> "ready", todo |-> w.todo, trans |-> w.trans, dirty |-> w.dirty, used |-> w.used,
              pend |-> w.pend, guid |-> w.guid, head |-> w.head, seq |-> w.seq, logs |-> w.logs]
    BY <1>11 DEF WriteHeader, Inv, Typed
  <2>2. /\ w'.pc = "ready" /\ w'.todo = w.todo /\ w'.trans = w.trans /\ w'.dirty = w.dirty
        /\ w'.used = w.used /\ w'.pend = w.pend
        /\ w'.guid = w.guid /\ w'.head = w.head /\ w'.seq = w.seq /\ w'.logs = w.logs
        /\ w' = [pc |-> w'.pc, todo |-> w'.todo, trans |-> w'.trans, dirty |-> w'.dirty, used |-> w'.used,
                 pend |-> w'.pend, guid |-> w'.guid, head |-> w'.head, seq |-> w'.seq, logs |-> w'.logs]
    BY <2>1
  <2>3. PICK c, m : AtRest(c, m)
    BY <1>1, <1>11 DEF Inv, InLog
  <2>4. /\ Chain(c, ring, w.guid, w.seq) /\ OnlyNewest(c, ring, w.guid, w.seq) /\ c.n > 0
        /\ OnlyOlder(ring, Value(w.seq, w.guid)) /\ Says(c, w.guid, w.seq, committed)
    BY <2>3 DEF AtRest, Holding
  <2>5. NewestOnly(c, ring, w.guid, w.seq)
    BY <1>5, <2>4, RestNewest DEF Inv, Typed
  <2>6. FromOn(c, 1, {})
    BY DEF FromOn
  <2>7. Shows(hdr', ring', file', committed', Covered(c))
    <3>1. /\ hdr'[CurrentHeader(hdr')].ok /\ hdr'[CurrentHeader(hdr')].guid = w.guid
      BY <1>7 DEF Current
    <3>2. \A s \in Sectors : s \notin {} => file'[s] = committed'[s]
      BY <1>1, <1>8
    <3>3. /\ Chain(c, ring', w.guid, w.seq) /\ c.n > 0 /\ NewestOnly(c, ring', w.guid, w.seq)
          /\ Says(c, w.guid, w.seq, committed')
      BY <1>1, <2>4, <2>5
    <3> QED
      BY <1>9, <1>11, <2>6, <3>1, <3>2, <3>3, ShownByChain
  <2>8. Presents'
    BY <2>7, ShownIsPresentedNext
  <2>9. Typed'
    BY <1>1, <1>6, <1>7, <2>2 DEF Inv, Typed
  <2>10. InSync'
    BY <1>1, <2>2 DEF Inv, InSync
  <2>11. DOMAIN w'.dirty = {}
    BY <1>5, <2>2 DEF Nothing
  <2>12. w'.guid = w'.logs
    BY <1>1, <1>11, <2>2 DEF Inv, Phase
  <2>13. Phase'
    <3>1. w'.todo = {}
      BY <1>1, <2>2 DEF Inv, Phase
    <3> QED
      BY <1>7, <1>11, <2>2, <2>11, <2>12, <3>1 DEF Phase
  <2>14. AtRest(c, m)'
    BY <1>1, <2>2, <2>3 DEF AtRest, Holding
  <2>15. InLog'
    BY <2>2, <2>14 DEF InLog
  <2> QED
    BY <2>8, <2>9, <2>10, <2>13, <2>15 DEF Inv
<1> QED
  BY <1>10, <1>11

\* A sector put in place is one the log shows anyhow.
LEMMA ApplySectorInv ==
  ASSUME Inv, ApplySector
  PROVE  Inv'
<1>1. UNCHANGED <<hdr, ring, committed>> /\ w.pc \in {"ready", "replaying"}
  BY DEF ApplySector
<1>2. PICK s \in DOMAIN w.dirty :
        LET rest == DOMAIN w.dirty \ {s} IN
        /\ file' = [file EXCEPT ![s] = w.dirty[s]]
        /\ w' = [w EXCEPT !.dirty = [u \in rest |-> w.dirty[u]], !.pend = IF rest = {} THEN 0 ELSE @]
  BY DEF ApplySector
<1>3. PICK rest : rest = DOMAIN w.dirty \ {s}
  OBVIOUS
<1>4. PICK dirty : dirty = [u \in rest |-> w.dirty[u]]
  OBVIOUS
<1>5. PICK pend : pend = IF rest = {} THEN 0 ELSE w.pend
  OBVIOUS
<1>6. w' = [pc |-> w.pc, todo |-> w.todo, trans |-> w.trans, dirty |-> dirty, used |-> w.used,
            pend |-> pend, guid |-> w.guid, head |-> w.head, seq |-> w.seq, logs |-> w.logs]
  BY <1>2, <1>3, <1>4, <1>5 DEF Inv, Typed
<1>7. /\ w'.pc = w.pc /\ w'.todo = w.todo /\ w'.trans = w.trans /\ w'.dirty = dirty
      /\ w'.used = w.used /\ w'.pend = pend
      /\ w'.guid = w.guid /\ w'.head = w.head /\ w'.seq = w.seq /\ w'.logs = w.logs
      /\ w' = [pc |-> w'.pc, todo |-> w'.todo, trans |-> w'.trans, dirty |-> w'.dirty, used |-> w'.used,
               pend |-> w'.pend, guid |-> w'.guid, head |-> w'.head, seq |-> w'.seq, logs |-> w'.logs]
  BY <1>6
<1>8. s \in Sectors /\ s \in DOMAIN Opened.over /\ w.dirty[s] = committed[s]
  BY <1>1 DEF Inv, Typed, Phase, InSync
<1>9. file' = [file EXCEPT ![s] = committed[s]] /\ file \in [Sectors -> SectorValues]
      /\ committed \in [Sectors -> SectorValues]
  BY <1>2, <1>8 DEF Inv, Typed
<1>10. file' \in [Sectors -> SectorValues] /\ file'[s] = committed[s]
       /\ \A u \in Sectors : u # s => file'[u] = file[u]
  BY <1>8, <1>9
<1>11. DOMAIN dirty = rest /\ \A u \in rest : dirty[u] = w.dirty[u]
  BY <1>4
<1>12. Current' = Current /\ Opened' = Opened
  BY <1>1 DEF Current, Opened
<1>13. Presents'
  <2>1. Viewed(Opened.over)' = Viewed(Opened.over)
    <3>1. \A u \in Sectors : (IF u \in DOMAIN Opened.over THEN Opened.over[u] ELSE file'[u])
                             = (IF u \in DOMAIN Opened.over THEN Opened.over[u] ELSE file[u])
      BY <1>8, <1>10
    <3> HIDE DEF Opened
    <3> QED
      BY <1>12, <3>1 DEF Viewed
  <2> QED
    BY <1>1, <1>12, <2>1 DEF Inv, Presents
<1>14. Typed'
  <2>1. \A u \in Sectors : file'[u] = Absent \/ committed'[u] = Absent => u = FileSize - 1
    BY <1>1, <1>8, <1>10 DEF Inv, Typed
  <2>2. pend \in 0..w.used
    BY <1>5, RingAssumption DEF Inv, Typed
  <2>3. DOMAIN dirty \subseteq Sectors
    BY <1>3, <1>11 DEF Inv, Typed
  <2> QED
    BY <1>1, <1>7, <1>10, <1>12, <2>1, <2>2, <2>3 DEF Inv, Typed
<1>15. InSync'
  <2>1. \A u \in Sectors : IF u \in DOMAIN dirty THEN dirty[u] = committed[u] ELSE file'[u] = committed[u]
    BY <1>1, <1>3, <1>10, <1>11 DEF Inv, InSync
  <2> QED
    BY <1>1, <1>7, <2>1 DEF InSync
<1>16. Phase'
  <2>1. DOMAIN dirty \subseteq DOMAIN Opened.over
    BY <1>1, <1>3, <1>11 DEF Inv, Phase
  <2> QED
    BY <1>1, <1>7, <1>12, <2>1 DEF Inv, Phase
<1>17. InLog'
  <2>1. ASSUME w.pc = "ready" PROVE \E c, m : AtRest(c, m)'
    <3>1. PICK c, m : AtRest(c, m)
      BY <2>1 DEF Inv, InLog
    <3>2. PICK k : k = IF rest = {} THEN c.n + 1 ELSE m
      OBVIOUS
    <3>3. /\ c.n \in Nat /\ m \in 1..(c.n + 1) /\ c.p[c.n + 1] \in Nat
      BY <3>1, Positions DEF Inv, AtRest
    <3>4. k \in 1..(c.n + 1) /\ FromOn(c, k, rest)
      <4>1. FromOn(c, m, DOMAIN w.dirty)
        BY <3>1 DEF AtRest, Holding
      <4> QED
        BY <1>3, <3>2, <3>3, <4>1 DEF FromOn
    <3>5. pend = c.p[c.n + 1] - c.p[k]
      BY <1>5, <3>1, <3>2, <3>3 DEF AtRest
    <3>6. AtRest(c, k)'
      BY <1>1, <1>7, <1>11, <3>1, <3>4, <3>5 DEF AtRest, Holding
    <3> QED
      BY <3>6
  <2> QED
    BY <1>1, <1>7, <2>1 DEF InLog
<1> QED
  BY <1>13, <1>14, <1>15, <1>16, <1>17 DEF Inv

\* A sector of an entry, when it is written, leaves the chain as it is and the
\* region without a sector of a log that is still to come.
LEMMA SectorWritten ==
  ASSUME Typed, NEW c, NEW m, Journalling(c, m), w.guid = w.logs, w.guid # NoGuid, w.seq <= MaxSeq,
         NEW x \in w.todo, ring' = [ring EXCEPT ![x[1]] = x[2]]
  PROVE  /\ Wrote(ring, ring', x)
         /\ EntryLen(w.trans) \in Nat \ {0} /\ EntryLen(w.trans) <= RingSize
         /\ Chain(c, ring', w.guid, w.seq) /\ OnlyNewest(c, ring', w.guid, w.seq)
         /\ DOMAIN ring' = Ring /\ OnlyOlder(ring', Value(1, w.logs + 1))
         /\ Value(w.seq, w.guid) \in 1..(MaxSeq * MaxLogs)
<1>1. PICK t \in Trans : t = w.trans
  BY DEF Typed
<1>2. PICK q \in 1..MaxSeq : q = w.seq
  BY BoundsAssumption DEF Typed
<1>3. PICK g \in 1..MaxLogs : g = w.guid
  BY BoundsAssumption DEF Typed, NoGuid
<1>4. g \in Nat /\ q \in Nat /\ q \in Int /\ w.logs = g
  BY <1>2, <1>3, BoundsAssumption
<1>5. PICK a \in Nat : a = c.p[c.n + 1]
  BY Positions DEF Journalling
<1>6. PICK tail : tail = c.p[m] % RingSize
  OBVIOUS
<1>7. /\ Chain(c, ring, g, q) /\ OnlyNewest(c, ring, g, q) /\ Room(c, t)
      /\ Writing(ring, a, t, q, g, tail, w.todo)
  BY <1>1, <1>2, <1>3, <1>5, <1>6 DEF Journalling, Holding
<1>8. PICK j \in 1..EntryLen(t) : x = Pair(a, t, q, g, tail, j)
  BY <1>7 DEF Writing
<1>9. Wrote(ring, ring', x)
  BY DEF Wrote, Typed
<1>10. EntryLen(t) \in Nat \ {0} /\ EntryLen(t) <= RingSize
  <2>1. EntryLen(t) \in Nat \ {0}
    BY EntryLenTyped
  <2>2. c.p[1] \in Nat /\ c.p[1] <= a
    <3>1. c.p[1] \in Nat /\ c.p[m] \in Nat /\ c.p[1] <= c.p[m] /\ c.p[m] <= c.p[c.n + 1]
      BY Positions DEF Journalling
    <3> QED
      BY <1>5, <3>1
  <2>3. a + EntryLen(t) <= c.p[1] + RingSize
    BY <1>5, <1>7 DEF Room
  <2> QED
    BY <2>1, <2>2, <2>3, RingAssumption
<1>11. Chain(c, ring', g, q) /\ OnlyNewest(c, ring', g, q)
  BY <1>4, <1>5, <1>7, <1>8, <1>9, ChainKept
<1>12. Value(q, g) \in 1..(MaxSeq * MaxLogs) /\ Value(q + 1, g) <= Value(1, g + 1) /\ Value(1, g + 1) \in Int
  BY ValueBounds
<1>13. OnlyOlder(ring', Value(1, g + 1))
  <2>1. Older(x[2], Value(q + 1, g))
    BY <1>4, <1>8, EntrySectors DEF Pair
  <2>2. Value(q + 1, g) \in Int
    <3>1. Value(q, g) \in Int /\ Value(q + 1, g) = Value(q, g) + 1
      BY <1>4, Values, Zenon
    <3> QED
      BY <3>1
  <2>3. Older(x[2], Value(1, g + 1))
    BY <1>12, <2>1, <2>2, OlderStays
  <2>4. \A y \in Ring : Older(ring[y], Value(1, g + 1))
    BY <1>4 DEF Typed, OnlyOlder
  <2>5. \A y \in Ring : ring'[y] = x[2] \/ ring'[y] = ring[y]
    BY DEF Typed
  <2> QED
    BY <2>3, <2>4, <2>5 DEF OnlyOlder
<1>14. DOMAIN ring' = Ring
  BY DEF Typed
<1> QED
  BY <1>1, <1>2, <1>3, <1>4, <1>9, <1>10, <1>11, <1>12, <1>13, <1>14

\* Before the last sector of an entry an open finds what it found before.
LEMMA WriteSomeInv ==
  ASSUME Inv, FileSize <= MaxOverlay, NEW x \in w.todo, w.todo # {x},
         ring' = [ring EXCEPT ![x[1]] = x[2]], UNCHANGED <<hdr, file, committed>>,
         w' = [pc |-> w.pc, todo |-> w.todo \ {x}, trans |-> w.trans, dirty |-> w.dirty, used |-> w.used,
               pend |-> w.pend, guid |-> w.guid, head |-> w.head, seq |-> w.seq, logs |-> w.logs]
  PROVE  Inv'
<1>1. w.pc \in {"starting", "logging"}
  BY DEF Inv, Phase
<1>2. PICK c, m : Journalling(c, m) /\ (w.pc = "logging" => c.n > 0) /\ (w.pc = "starting" => c.n = 0)
  BY <1>1 DEF Inv, InLog
<1>3. w.guid = w.logs /\ w.guid # NoGuid /\ w.seq <= MaxSeq /\ w.guid \in Nat /\ w.seq \in Nat
  BY <1>1, BoundsAssumption DEF Inv, Phase, InLog, Typed
<1>4. /\ Wrote(ring, ring', x)
      /\ EntryLen(w.trans) \in Nat \ {0} /\ EntryLen(w.trans) <= RingSize
      /\ Chain(c, ring', w.guid, w.seq) /\ OnlyNewest(c, ring', w.guid, w.seq)
      /\ DOMAIN ring' = Ring /\ OnlyOlder(ring', Value(1, w.logs + 1))
  BY <1>2, <1>3, SectorWritten DEF Inv
<1>5. PICK todo : todo = w.todo \ {x}
  OBVIOUS
<1>6. w'.pc = w.pc /\ w'.todo = todo /\ w'.trans = w.trans /\ w'.dirty = w.dirty /\ w'.used = w.used
  BY <1>5
<1>7. /\ w'.pc = w.pc /\ w'.todo = todo /\ w'.trans = w.trans /\ w'.dirty = w.dirty /\ w'.used = w.used
      /\ w'.pend = w.pend /\ w'.guid = w.guid /\ w'.head = w.head /\ w'.seq = w.seq /\ w'.logs = w.logs
      /\ w' = [pc |-> w'.pc, todo |-> w'.todo, trans |-> w'.trans, dirty |-> w'.dirty, used |-> w'.used,
               pend |-> w'.pend, guid |-> w'.guid, head |-> w'.head, seq |-> w'.seq, logs |-> w'.logs]
  BY <1>6
<1>8. Writing(ring', c.p[c.n + 1], w.trans, w.seq, w.guid, c.p[m] % RingSize, todo)
  <2>1. c.p[c.n + 1] \in Nat /\ w.trans \in Trans
    BY <1>2, Positions DEF Inv, Typed, Journalling
  <2>2. Writing(ring, c.p[c.n + 1], w.trans, w.seq, w.guid, c.p[m] % RingSize, w.todo)
    BY <1>2 DEF Journalling
  <2> QED
    BY <1>4, <1>5, <2>1, <2>2, WriteOne
<1>9. Journalling(c, m)'
  <2>1. /\ Says(c, w.guid, w.seq, committed) /\ m \in 1..(c.n + 1) /\ FromOn(c, m, DOMAIN w.dirty)
        /\ w.head = c.p[c.n + 1] % RingSize /\ Room(c, w.trans)
        /\ w.used = (c.p[c.n + 1] - c.p[m]) + EntryLen(w.trans)
    BY <1>2 DEF Journalling, Holding
  <2> QED
    BY <1>4, <1>7, <1>8, <2>1, JournallingNext
<1>10. Current' = Current
  BY DEF Current
<1>11. committed' \in [Sectors -> SectorValues] /\ Current'.ok /\ Current'.guid = Current.guid
  BY <1>10 DEF Inv, Typed
<1>12. Presents' /\ (w.pc = "logging" => DOMAIN w.dirty \subseteq DOMAIN Opened'.over)
  <2>1. CASE w.pc = "logging"
    <3>1. c.n > 0 /\ Says(c, w.guid, w.seq, committed') /\ FromOn(c, m, DOMAIN w.dirty)
          /\ c.p[c.n + 1] \in Nat /\ w.trans \in Trans
      BY <1>2, <2>1, Positions DEF Journalling, Holding, Inv, Typed
    <3>2. NewestOnly(c, ring', w.guid, w.seq)
      BY <1>3, <1>4, <1>8, <3>1, WritingNewest
    <3>3. \A s \in Sectors : s \notin DOMAIN w.dirty => file'[s] = committed'[s]
      BY <2>1 DEF Inv, InSync
    <3>4. hdr'[CurrentHeader(hdr')].ok /\ hdr'[CurrentHeader(hdr')].guid = w.guid
      BY <1>11, <2>1 DEF Current, Inv, Phase
    <3>5. Shows(hdr', ring', file', committed', Covered(c)) /\ DOMAIN w.dirty \subseteq Covered(c)
      <4>1. Chain(c, ring', w.guid, w.seq) /\ w.guid # NoGuid
        BY <1>3, <1>4
      <4>2. committed' \in [Sectors -> SectorValues]
        BY <1>11
      <4> QED
        BY <3>1, <3>2, <3>3, <3>4, <4>1, <4>2, ShownByChain, ZenonT(60)
    <3> QED
      BY <3>5, ShownIsPresentedNext
  <2>2. CASE w.pc = "starting"
    <3>1. Current.guid = NoGuid /\ w.dirty = Nothing
      BY <2>2 DEF Inv, Phase
    <3>2. \A s \in Sectors : file'[s] = committed'[s]
      BY <2>2, <3>1 DEF Inv, InSync, Nothing
    <3>3. hdr'[CurrentHeader(hdr')].ok /\ hdr'[CurrentHeader(hdr')].guid = NoGuid
      BY <1>11, <3>1 DEF Current
    <3>4. Shows(hdr', ring', file', committed', {})
      BY <1>11, <3>2, <3>3, ShownByFile
    <3> QED
      BY <2>2, <3>4, ShownIsPresentedNext
  <2> QED
    BY <1>1, <2>1, <2>2
<1>13. Typed'
  BY <1>4, <1>7, <1>10 DEF Inv, Typed
<1>14. InSync'
  BY <1>7 DEF Inv, InSync
<1>15. Phase'
  BY <1>1, <1>7, <1>10, <1>12 DEF Inv, Phase
<1>16. InLog'
  <2>1. /\ w.pc = "logging" => w.seq <= MaxSeq /\ w.pend = w.used
        /\ w.pc = "starting" => w.seq = 1 /\ w.trans = <<>> /\ w.pend = 0
    BY DEF Inv, InLog
  <2> QED
    BY <1>1, <1>2, <1>7, <1>9, <2>1 DEF InLog
<1> QED
  BY <1>12, <1>13, <1>14, <1>15, <1>16 DEF Inv

\* The last sector of an entry commits it: what the writer holds, what is
\* committed and what an open finds change together.
LEMMA WriteLastInv ==
  ASSUME Inv, FileSize <= MaxOverlay, NEW x \in w.todo, w.todo = {x},
         ring' = [ring EXCEPT ![x[1]] = x[2]], UNCHANGED <<hdr, file>>,
         NEW v, v = Value(w.seq, w.guid), committed' = Effect(committed, w.trans, v),
         w' = [pc |-> IF w.pc = "starting" THEN "sealing" ELSE "ready", todo |-> {}, trans |-> w.trans,
               dirty |-> Effect(w.dirty, w.trans, v), used |-> w.used, pend |-> w.pend, guid |-> w.guid,
               head |-> (w.head + EntryLen(w.trans)) % RingSize, seq |-> w.seq + 1, logs |-> w.logs]
  PROVE  Inv'
<1>1. w.pc \in {"starting", "logging"}
  BY DEF Inv, Phase
<1>2. PICK c, m : Journalling(c, m) /\ (w.pc = "logging" => c.n > 0) /\ (w.pc = "starting" => c.n = 0)
  BY <1>1 DEF Inv, InLog
<1>3. w.guid = w.logs /\ w.guid # NoGuid /\ w.seq <= MaxSeq /\ w.guid \in Nat /\ w.seq \in Nat
  BY <1>1, BoundsAssumption DEF Inv, Phase, InLog, Typed
<1>4. /\ Wrote(ring, ring', x)
      /\ EntryLen(w.trans) \in Nat \ {0} /\ EntryLen(w.trans) <= RingSize
      /\ DOMAIN ring' = Ring /\ OnlyOlder(ring', Value(1, w.logs + 1))
      /\ v \in 1..(MaxSeq * MaxLogs)
  BY <1>2, <1>3, SectorWritten DEF Inv
<1>5. PICK dirty : dirty = Effect(w.dirty, w.trans, v)
  OBVIOUS
<1>6. PICK pc : pc = IF w.pc = "starting" THEN "sealing" ELSE "ready"
  OBVIOUS
<1>7. PICK head : head = (w.head + EntryLen(w.trans)) % RingSize
  OBVIOUS
<1>8. /\ w'.pc = pc /\ w'.todo = {} /\ w'.trans = w.trans /\ w'.dirty = dirty /\ w'.used = w.used
      /\ w'.pend = w.pend /\ w'.guid = w.guid /\ w'.head = head /\ w'.seq = w.seq + 1 /\ w'.logs = w.logs
      /\ w' = [pc |-> w'.pc, todo |-> w'.todo, trans |-> w'.trans, dirty |-> w'.dirty, used |-> w'.used,
               pend |-> w'.pend, guid |-> w'.guid, head |-> w'.head, seq |-> w'.seq, logs |-> w'.logs]
  BY <1>5, <1>6, <1>7
<1>9. /\ committed \in [Sectors -> SectorValues] /\ DOMAIN committed = Sectors /\ w.trans \in Trans
      /\ DOMAIN w.dirty \subseteq Sectors
  BY DEF Inv, Typed
<1>10. /\ c.n \in Nat /\ m \in 1..(c.n + 1)
       /\ c.p[1] \in Nat /\ c.p[m] \in Nat /\ c.p[c.n + 1] \in Nat
       /\ c.p[1] <= c.p[m] /\ c.p[m] <= c.p[c.n + 1]
  BY <1>2, Positions DEF Inv, Journalling
<1>11. PICK d : d = Extended(c, m, w.trans)
  OBVIOUS
<1>12. Grown(c, m, w.trans, ring', w.guid, w.seq, committed, DOMAIN w.dirty)
  <2>1. /\ Chain(c, ring, w.guid, w.seq) /\ OnlyNewest(c, ring, w.guid, w.seq) /\ Room(c, w.trans)
        /\ Says(c, w.guid, w.seq, committed) /\ FromOn(c, m, DOMAIN w.dirty)
        /\ Writing(ring, c.p[c.n + 1], w.trans, w.seq, w.guid, c.p[m] % RingSize, {x})
    BY <1>2 DEF Journalling, Holding
  <2> QED
    BY <1>3, <1>4, <1>9, <1>10, <2>1, Commit
<1>13. IsEffect(committed', committed, w.trans, v) /\ IsEffect(dirty, w.dirty, w.trans, v)
  BY <1>5, <1>9, EffectFacts
<1>14. /\ DOMAIN dirty = DOMAIN w.dirty \cup TargetsOf(w.trans) /\ DOMAIN dirty \subseteq Sectors
  BY <1>9, <1>13 DEF IsEffect
<1>15. /\ Chain(d, ring', w.guid, w.seq + 1) /\ OnlyNewest(d, ring', w.guid, w.seq + 1)
       /\ OnlyOlder(ring', Value(w.seq + 1, w.guid)) /\ Says(d, w.guid, w.seq + 1, committed')
       /\ FromOn(d, 1, DOMAIN dirty) /\ d.n \in Nat /\ d.n > 0
       /\ d.p[1] = c.p[m] /\ d.p[d.n + 1] = c.p[c.n + 1] + EntryLen(w.trans)
  BY <1>11, <1>12, <1>14 DEF Grown
<1>16. head = d.p[d.n + 1] % RingSize /\ head \in Ring
  <2>1. PICK a \in Nat : a = c.p[c.n + 1]
    BY <1>10
  <2>2. PICK len \in Nat : len = EntryLen(w.trans)
    BY <1>4
  <2>3. w.head = a % RingSize
    BY <1>2, <2>1 DEF Journalling, Holding
  <2>4. ((a % RingSize) + len) % RingSize = (a + len) % RingSize
    BY Wrap
  <2>5. (a + len) % RingSize \in Ring
    <3>1. a + len \in Nat
      OBVIOUS
    <3> QED
      BY <3>1, Wrap
  <2> QED
    BY <1>7, <1>15, <2>1, <2>2, <2>3, <2>4, <2>5
<1>17. w.used = d.p[d.n + 1] - d.p[1]
  BY <1>2, <1>4, <1>10, <1>15 DEF Journalling
<1>18. Current' = Current
  BY DEF Current
<1>19. /\ committed' \in [Sectors -> SectorValues]
       /\ \A s \in Sectors : committed'[s] = Absent => committed[s] = Absent
  BY <1>4, <1>9, EffectTyped
<1>20. \A s \in Sectors : IF s \in DOMAIN dirty THEN dirty[s] = committed'[s] ELSE file[s] = committed'[s]
  <2> SUFFICES ASSUME NEW s \in Sectors
               PROVE  IF s \in DOMAIN dirty THEN dirty[s] = committed'[s] ELSE file[s] = committed'[s]
    OBVIOUS
  <2>1. IF s \in DOMAIN w.dirty THEN w.dirty[s] = committed[s] ELSE file[s] = committed[s]
    BY <1>1 DEF Inv, InSync
  <2>2. CASE s \in TargetsOf(w.trans)
    <3>1. PICK i \in 1..Len(w.trans) : LastOf(w.trans, s, i)
      BY <1>13, <2>2 DEF IsEffect
    <3>2. dirty[s] = Written(v, w.trans[i]) /\ committed'[s] = Written(v, w.trans[i])
      BY <1>13, <3>1 DEF IsEffect
    <3> QED
      BY <1>14, <2>2, <3>2
  <2>3. CASE s \notin TargetsOf(w.trans)
    <3>1. committed'[s] = committed[s] /\ (s \in DOMAIN w.dirty => dirty[s] = w.dirty[s])
      BY <1>9, <1>13, <2>3 DEF IsEffect
    <3> QED
      BY <1>14, <2>1, <2>3, <3>1
  <2> QED
    BY <2>2, <2>3
<1>21. Typed'
  <2>1. \A s \in Sectors : file'[s] = Absent \/ committed'[s] = Absent => s = FileSize - 1
    BY <1>19 DEF Inv, Typed
  <2>2. w'.pc \in {"off", "starting", "logging", "ready", "replaying", "sealing", "header"}
    BY <1>6, <1>8
  <2>3. w'.seq \in Nat \ {0}
    BY <1>3, <1>8
  <2> QED
    BY <1>4, <1>8, <1>9, <1>14, <1>16, <1>18, <1>19, <2>1, <2>2, <2>3 DEF Inv, Typed
<1>22. InSync'
  BY <1>8, <1>20 DEF InSync
<1>23. CASE w.pc = "logging"
  <2>1. pc = "ready" /\ Current.guid = w.guid /\ w.pend = w.used
    BY <1>6, <1>23 DEF Inv, Phase, InLog
  <2>2. NewestOnly(d, ring', w.guid, w.seq + 1)
    <3>1. w.seq + 1 \in Nat
      BY <1>3
    <3> QED
      BY <1>3, <1>15, <3>1, RestNewest
  <2>3. hdr'[CurrentHeader(hdr')].ok /\ hdr'[CurrentHeader(hdr')].guid = w.guid
    BY <1>18, <2>1 DEF Current, Inv, Typed
  <2>4. \A s \in Sectors : s \notin DOMAIN dirty => file'[s] = committed'[s]
    BY <1>20
  <2>5. Shows(hdr', ring', file', committed', Covered(d)) /\ DOMAIN dirty \subseteq Covered(d)
    <3>1. PICK q : q = w.seq + 1
      OBVIOUS
    <3>2. /\ Chain(d, ring', w.guid, q) /\ d.n > 0 /\ NewestOnly(d, ring', w.guid, q)
          /\ Says(d, w.guid, q, committed') /\ FromOn(d, 1, DOMAIN dirty)
      BY <1>15, <2>2, <3>1
    <3>3. committed' \in [Sectors -> SectorValues] /\ w.guid # NoGuid
      BY <1>3, <1>19
    <3>4. /\ hdr'[CurrentHeader(hdr')].ok /\ hdr'[CurrentHeader(hdr')].guid = w.guid
          /\ \A s \in Sectors : s \notin DOMAIN dirty => file'[s] = committed'[s]
      BY <2>3, <2>4
    <3> QED
      BY <3>2, <3>3, <3>4, ShownByChain, ZenonT(120)
  <2>6. Presents' /\ DOMAIN dirty \subseteq DOMAIN Opened'.over
    BY <2>5, ShownIsPresentedNext
  <2>7. Phase'
    BY <1>3, <1>8, <1>18, <2>1, <2>6 DEF Phase
  <2>8. AtRest(d, 1)'
    <3>1. 1 \in 1..(d.n + 1)
      BY <1>15
    <3> QED
      BY <1>8, <1>15, <1>16, <1>17, <2>1, <3>1, AtRestNext
  <2>9. InLog'
    BY <1>8, <2>1, <2>8 DEF InLog
  <2> QED
    BY <1>21, <1>22, <2>6, <2>7, <2>9 DEF Inv
<1>24. CASE w.pc = "starting"
  <2>1. pc = "sealing" /\ Current.guid = NoGuid /\ w.dirty = Nothing /\ w.trans = <<>> /\ w.pend = 0
    BY <1>6, <1>24 DEF Inv, Phase, InLog
  <2>2. DOMAIN dirty = {}
    <3>1. Len(<<>>) = 0
      OBVIOUS
    <3>2. TargetsOf(<<>>) = {}
      BY <3>1 DEF TargetsOf
    <3> QED
      BY <1>14, <2>1, <3>2 DEF Nothing
  <2>3. dirty = Nothing
    <3>1. dirty = [s \in DOMAIN dirty |-> dirty[s]]
      BY <1>5 DEF Effect
    <3> QED
      BY <2>2, <3>1 DEF Nothing
  <2>4. hdr'[CurrentHeader(hdr')].ok /\ hdr'[CurrentHeader(hdr')].guid = NoGuid
    BY <1>18, <2>1 DEF Current, Inv, Typed
  <2>5. \A s \in Sectors : file'[s] = committed'[s]
    BY <1>20, <2>2
  <2>6. Shows(hdr', ring', file', committed', {})
    BY <1>19, <2>4, <2>5, ShownByFile
  <2>7. Presents'
    BY <2>6, ShownIsPresentedNext
  <2>8. Phase'
    BY <1>3, <1>8, <1>18, <2>1, <2>3 DEF Phase
  <2>9. AtRest(d, d.n + 1)'
    <3>1. d.n + 1 \in 1..(d.n + 1) /\ FromOn(d, d.n + 1, DOMAIN dirty)
      BY <1>15, <2>2 DEF FromOn
    <3>2. w.pend = d.p[d.n + 1] - d.p[d.n + 1]
      BY <1>4, <1>10, <1>15, <2>1
    <3>3. PICK k : k = d.n + 1
      OBVIOUS
    <3>4. AtRest(d, k)'
      BY <1>8, <1>15, <1>16, <1>17, <3>1, <3>2, <3>3, AtRestNext
    <3> QED
      BY <3>3, <3>4
  <2>10. InLog'
    BY <1>8, <2>1, <2>9 DEF InLog
  <2> QED
    BY <1>21, <1>22, <2>7, <2>8, <2>10 DEF Inv
<1> QED
  BY <1>1, <1>23, <1>24

LEMMA WriteLogSectorInv ==
  ASSUME Inv, FileSize <= MaxOverlay, WriteLogSector
  PROVE  Inv'
<1>1. PICK x \in w.todo :
        LET done == w.todo = {x} IN
        /\ ring' = [ring EXCEPT ![x[1]] = x[2]]
        /\ committed' = IF done THEN Effect(committed, w.trans, Value(w.seq, w.guid)) ELSE committed
        /\ w' = [w EXCEPT !.todo = @ \ {x},
                          !.pc = IF ~done THEN @ ELSE IF @ = "starting" THEN "sealing" ELSE "ready",
                          !.head = IF done THEN (@ + EntryLen(w.trans)) % RingSize ELSE @,
                          !.seq = IF done THEN @ + 1 ELSE @,
                          !.dirty = IF done THEN Effect(@, w.trans, Value(w.seq, w.guid)) ELSE @]
        /\ UNCHANGED <<hdr, file>>
  BY DEF WriteLogSector
<1>2. w = [pc |-> w.pc, todo |-> w.todo, trans |-> w.trans, dirty |-> w.dirty, used |-> w.used,
           pend |-> w.pend, guid |-> w.guid, head |-> w.head, seq |-> w.seq, logs |-> w.logs]
  BY DEF Inv, Typed
<1>3. CASE w.todo # {x}
  <2>1. w' = [pc |-> w.pc, todo |-> w.todo \ {x}, trans |-> w.trans, dirty |-> w.dirty, used |-> w.used,
              pend |-> w.pend, guid |-> w.guid, head |-> w.head, seq |-> w.seq, logs |-> w.logs]
    BY <1>1, <1>2, <1>3
  <2> QED
    BY <1>1, <1>3, <2>1, WriteSomeInv
<1>4. CASE w.todo = {x}
  <2>1. PICK v : v = Value(w.seq, w.guid)
    OBVIOUS
  <2>2. w' = [pc |-> IF w.pc = "starting" THEN "sealing" ELSE "ready", todo |-> {}, trans |-> w.trans,
              dirty |-> Effect(w.dirty, w.trans, v), used |-> w.used, pend |-> w.pend, guid |-> w.guid,
              head |-> (w.head + EntryLen(w.trans)) % RingSize, seq |-> w.seq + 1, logs |-> w.logs]
    BY <1>1, <1>2, <1>4, <2>1
  <2> QED
    BY <1>1, <1>4, <2>1, <2>2, WriteLastInv
<1> QED
  BY <1>3, <1>4

LEMMA NextInv ==
  ASSUME Inv, [Next]_vars, FileSize <= MaxOverlay
  PROVE  Inv'
<1>1. CASE StartLog
  BY <1>1, StartLogInv
<1>2. CASE WriteLogSector
  BY <1>2, WriteLogSectorInv
<1>3. CASE ApplySector
  BY <1>3, ApplySectorInv
<1>4. CASE Close
  BY <1>4, CloseInv
<1>5. CASE \E t \in Transactions : Log(t)
  BY <1>5, LogInv
<1>6. CASE TearHeader
  BY <1>6, TearHeaderInv
<1>7. CASE WriteHeader
  BY <1>7, WriteHeaderInv
<1>8. CASE PowerCut
  BY <1>8, PowerCutInv
<1>9. CASE Recover
  BY <1>9, RecoverInv
<1>10. CASE UNCHANGED vars
  <2>1. UNCHANGED <<hdr, ring, file, committed>> /\ w' = w
    BY <1>10 DEF vars
  <2>2. Presents' /\ Opened' = Opened /\ Current' = Current
    BY <2>1, DiskUnchanged DEF Inv
  <2>3. Typed' /\ InSync' /\ Phase'
    BY <2>1, <2>2 DEF Inv, Typed, InSync, Phase
  <2>4. \A c, m : (AtRest(c, m) => AtRest(c, m)') /\ (Journalling(c, m) => Journalling(c, m)')
    BY <2>1 DEF AtRest, Journalling, Holding
  <2>5. InLog'
    BY <2>1, <2>4 DEF Inv, InLog
  <2> QED
    BY <2>2, <2>3, <2>5 DEF Inv
<1> QED
  BY <1>1, <1>2, <1>3, <1>4, <1>5, <1>6, <1>7, <1>8, <1>9, <1>10 DEF Next

-----------------------------------------------------------------------------
(* Reading through the overlay.                                             *)

\* Where byte b of the file lies.
LEMMA SectorOf ==
  ASSUME NEW b \in Nat, b < 2 * FileSize
  PROVE  /\ b \div 2 \in Sectors /\ b % 2 \in {0, 1}
         /\ 2 * (FileSize - 1) <= b => b \div 2 = FileSize - 1
<1>1. FileSize \in Nat
  BY RingAssumption
<1>2. PICK n \in Nat : n = FileSize
  BY <1>1
<1>3. PICK h \in Nat : h = b \div 2
  BY Division
<1>4. PICK l \in Nat : l = b % 2
  BY Division
<1>5. b = h * 2 + l /\ l < 2
  BY <1>3, <1>4, Division
<1>6. h \in 0..(n - 1) /\ l \in {0, 1} /\ (2 * (n - 1) <= b => h = n - 1)
  BY <1>2, <1>5
<1> QED
  BY <1>2, <1>3, <1>4, <1>6 DEF Sectors

\* The file ends with its last sector, or before it where that one is absent.
LEMMA FileEndIs ==
  ASSUME NEW f, \A s \in Sectors : f[s] = Absent => s = FileSize - 1
  PROVE  FileEnd(f) = IF f[FileSize - 1] = Absent THEN 2 * (FileSize - 1) ELSE 2 * FileSize
<1> DEFINE S == {s \in Sectors : \A t \in 0..s : f[t] # Absent}
<1>1. PICK n \in Nat : n = FileSize /\ n >= 1
  BY RingAssumption
<1>2. Sectors = 0..(n - 1)
  BY <1>1 DEF Sectors
<1>3. \A s \in 0..(n - 1) : f[s] = Absent => s = n - 1
  BY <1>1, <1>2
<1>4. CASE f[n - 1] = Absent
  <2>1. S = 0..(n - 2)
    BY <1>1, <1>2, <1>3, <1>4
  <2>2. Cardinality(0..(n - 2)) = n - 1
    <3>1. CASE n = 1
      <4>1. 0..(n - 2) = {}
        BY <3>1
      <4> QED
        BY <3>1, <4>1, FS_EmptySet
    <3>2. CASE n > 1
      <4>1. 0 \in Int /\ n - 2 \in Int /\ 0 <= n - 2 /\ (n - 2) - 0 + 1 = n - 1
        BY <3>2
      <4> QED
        BY <4>1, FS_Interval
    <3> QED
      BY <1>1, <3>1, <3>2
  <2> QED
    BY <1>1, <1>4, <2>1, <2>2 DEF FileEnd
<1>5. CASE f[n - 1] # Absent
  <2>1. S = 0..(n - 1)
    BY <1>1, <1>2, <1>3, <1>5
  <2>2. Cardinality(0..(n - 1)) = n
    <3>1. 0 \in Int /\ n - 1 \in Int /\ 0 <= n - 1 /\ (n - 1) - 0 + 1 = n
      BY <1>1
    <3> QED
      BY <3>1, FS_Interval
  <2> QED
    BY <1>1, <1>5, <2>1, <2>2 DEF FileEnd
<1> QED
  BY <1>1, <1>4, <1>5

\* How far a read gets: to the end of the request, or to a byte that lies beyond
\* the end of the file and in no replayed sector.
Reaches(f, over, at, len) ==
  LET n == OverlayRead(f, over, at, len).n IN
  /\ n \in 0..len
  /\ n < len => FileEnd(f) <= at + n /\ (at + n) \div 2 \notin DOMAIN over

LEMMA ReadReaches ==
  ASSUME NEW f, NEW over, NEW at \in Nat, NEW len \in Nat, FileEnd(f) \in Nat
  PROVE  Reaches(f, over, at, len)
<1>1. PICK end \in Nat : end = FileEnd(f)
  OBVIOUS
<1> DEFINE fromFile == SmallerOf(len, LargerOf(0, end - at))
           met == {b \in at..(at + len - 1) : b \div 2 \in DOMAIN over}
           short == {v \in fromFile..(len - 1) : (at + v) \div 2 \notin DOMAIN over}
           Least(v) == \A u \in short : v <= u
           valid == IF met = {} THEN fromFile ELSE IF short = {} THEN len
                    ELSE CHOOSE v \in short : Least(v)
<1>2. OverlayRead(f, over, at, len).n = valid
  BY <1>1 DEF OverlayRead
<1>3. fromFile \in 0..len /\ (fromFile < len => end <= at + fromFile)
  BY DEF SmallerOf, LargerOf
<1>4. ASSUME met = {} PROVE fromFile < len => (at + fromFile) \div 2 \notin DOMAIN over
  <2>1. ASSUME fromFile < len PROVE at + fromFile \in at..(at + len - 1)
    <3> HIDE DEF fromFile
    <3> QED
      BY <1>3, <2>1
  <2> HIDE DEF fromFile
  <2> QED
    BY <1>4, <2>1
<1>5. ASSUME short # {}
      PROVE  /\ valid = fromFile \/ valid \in short
             /\ met # {} => valid \in short
  <2>1. short \subseteq Nat /\ short # {}
    <3> HIDE DEF fromFile
    <3> QED
      BY <1>3, <1>5
  <2> HIDE DEF short
  <2>2. \E v \in short : \A u \in short : v <= u
    <3>1. \E v \in Nat : v \in short
      BY <2>1
    <3> QED
      BY <2>1, LeastExists
  <2>3. (CHOOSE v \in short : Least(v)) \in short
    BY <2>2
  <2> HIDE DEF fromFile, met, Least
  <2> QED
    BY <1>5, <2>3
<1>6. valid \in 0..len /\ (valid < len => end <= at + valid /\ (at + valid) \div 2 \notin DOMAIN over)
  <2>1. CASE met = {}
    <3>1. valid = fromFile
      BY <2>1
    <3> HIDE DEF valid, fromFile
    <3> QED
      BY <1>3, <1>4, <2>1, <3>1
  <2>2. CASE met # {} /\ short = {}
    <3>1. valid = len
      BY <2>2
    <3> HIDE DEF valid
    <3> QED
      BY <3>1
  <2>3. CASE met # {} /\ short # {}
    <3>1. PICK v : v = valid
      <4> HIDE DEF valid
      <4> QED
        OBVIOUS
    <3>2. v \in short
      BY <1>5, <2>3, <3>1
    <3>3. v \in fromFile..(len - 1) /\ (at + v) \div 2 \notin DOMAIN over
      <4> HIDE DEF fromFile, valid
      <4> QED
        BY <3>2
    <3>4. v \in 0..len /\ end <= at + v
      <4> HIDE DEF fromFile, valid, short, met
      <4> QED
        BY <1>3, <3>3
    <3> HIDE DEF valid
    <3> QED
      BY <3>1, <3>3, <3>4
  <2> QED
    BY <2>1, <2>2, <2>3
<1> HIDE DEF valid
<1> QED
  BY <1>1, <1>2, <1>6 DEF Reaches

\* What a read delivers, byte by byte.
LEMMA ReadDelivers ==
  ASSUME NEW f, NEW over, NEW at, NEW len
  PROVE  LET got == OverlayRead(f, over, at, len) IN
         /\ \A k \in 0..(got.n - 1) :
              got.data[k] = ByteOf(IF (at + k) \div 2 \in DOMAIN over THEN over[(at + k) \div 2]
                                   ELSE f[(at + k) \div 2], at + k)
         /\ got.n < len <=> got.err = "EOF"
<1>1. PICK n : n = OverlayRead(f, over, at, len).n
  OBVIOUS
<1> DEFINE byte(b) == IF b \div 2 \in DOMAIN over THEN ByteOf(over[b \div 2], b) ELSE ByteOf(f[b \div 2], b)
<1>2. /\ OverlayRead(f, over, at, len).err = IF n < len THEN "EOF" ELSE "nil"
      /\ OverlayRead(f, over, at, len).data = [k \in 0..(n - 1) |-> byte(at + k)]
  BY <1>1 DEF OverlayRead
<1> QED
  BY <1>1, <1>2

LEMMA ReadsAsCommitted ==
  ASSUME Inv
  PROVE  ReadsThroughOverlay
<1>1. PICK over : over = Opened.over
  OBVIOUS
<1>2. \A s \in Sectors : committed[s] = IF s \in DOMAIN over THEN over[s] ELSE file[s]
  <2>1. Viewed(over) = committed
    BY <1>1 DEF Inv, Presents
  <2> QED
    BY <2>1 DEF Viewed
<1>3. \A s \in Sectors : file[s] = Absent => s = FileSize - 1
  BY DEF Inv, Typed
<1>4. FileEnd(file) = (IF file[FileSize - 1] = Absent THEN 2 * (FileSize - 1) ELSE 2 * FileSize)
      /\ FileEnd(file) \in Nat
  <2>1. FileEnd(file) = IF file[FileSize - 1] = Absent THEN 2 * (FileSize - 1) ELSE 2 * FileSize
    BY <1>3, FileEndIs
  <2>2. 2 * (FileSize - 1) \in Nat /\ 2 * FileSize \in Nat
    BY RingAssumption
  <2> QED
    BY <2>1, <2>2
<1> SUFFICES ASSUME NEW r \in Requests
             PROVE  LET got == OverlayRead(file, over, r[1], r[2])
                        byte(b) == ByteOf(committed[b \div 2], b)
                    IN  /\ \A k \in 0..(got.n - 1) : got.data[k] = byte(r[1] + k)
                        /\ got.n < r[2] <=> got.err = "EOF"
                        /\ got.n < r[2] => byte(r[1] + got.n) = -1
  BY <1>1 DEF ReadsThroughOverlay
<1>5. PICK at \in Nat : at = r[1]
  BY RequestsAssumption
<1>6. PICK len \in Nat : len = r[2]
  BY RequestsAssumption
<1>7. at + len <= 2 * FileSize
  BY <1>5, <1>6, RequestsAssumption
<1>8. PICK got : got = OverlayRead(file, over, at, len)
  OBVIOUS
<1>9. /\ got.n \in 0..len
      /\ got.n < len => FileEnd(file) <= at + got.n /\ (at + got.n) \div 2 \notin DOMAIN over
  BY <1>4, <1>8, ReadReaches DEF Reaches
<1>10. /\ \A k \in 0..(got.n - 1) :
            got.data[k] = ByteOf(IF (at + k) \div 2 \in DOMAIN over THEN over[(at + k) \div 2]
                                 ELSE file[(at + k) \div 2], at + k)
       /\ got.n < len <=> got.err = "EOF"
  BY <1>8, ReadDelivers
<1>11. ASSUME NEW k \in 0..(got.n - 1)
       PROVE  got.data[k] = ByteOf(committed[(at + k) \div 2], at + k)
  <2>1. at + k \in Nat /\ at + k < 2 * FileSize
    BY <1>7, <1>9, RingAssumption
  <2>2. (at + k) \div 2 \in Sectors
    BY <2>1, SectorOf
  <2> QED
    BY <1>2, <1>10, <2>2
<1>12. ASSUME got.n < len
       PROVE  ByteOf(committed[(at + got.n) \div 2], at + got.n) = -1
  <2>1. PICK b \in Nat : b = at + got.n
    BY <1>9
  <2>2. b < 2 * FileSize /\ FileEnd(file) <= b
    BY <1>7, <1>9, <1>12, <2>1, RingAssumption
  <2>3. file[FileSize - 1] = Absent /\ 2 * (FileSize - 1) <= b
    BY <1>4, <2>2, RingAssumption
  <2>4. b \div 2 = FileSize - 1 /\ b \div 2 \in Sectors /\ b % 2 \in {0, 1}
    BY <2>2, <2>3, SectorOf
  <2>5. committed[b \div 2] = Absent
    BY <1>2, <1>9, <1>12, <2>1, <2>3, <2>4
  <2>6. ByteOf(Absent, b) = -1
    BY <2>4 DEF ByteOf, Absent
  <2> QED
    BY <2>1, <2>5, <2>6
<1> QED
  BY <1>5, <1>6, <1>8, <1>10, <1>11, <1>12

-----------------------------------------------------------------------------
(* The theorems.  Of a log's sectors no more than MaxOverlay are replayed;  *)
(* a file that has no more is never refused for their number.              *)

\* The invariant holds throughout.
THEOREM InvariantHolds ==
  ASSUME FileSize <= MaxOverlay
  PROVE  Spec => []Inv
<1>1. Init => Inv
  BY InitInv
<1>2. Inv /\ [Next]_vars => Inv'
  BY NextInv
<1> QED
  BY <1>1, <1>2, PTL DEF Spec

\* Every variable keeps its type, and a log entry never takes more sectors than
\* the region has left beside the entries its tail protects.
THEOREM TypeCorrect ==
  ASSUME FileSize <= MaxOverlay
  PROVE  Spec => []TypeOK
<1>1. Inv => TypeOK
  <2> SUFFICES ASSUME Inv PROVE TypeOK
    OBVIOUS
  <2>1. \A k \in Ring : ring[k].sig \in {"none", "more", "data", "loge"}
    BY DEF Inv, Typed, OnlyOlder, Older
  <2> QED
    BY <2>1 DEF Inv, Typed, TypeOK
<1> QED
  BY <1>1, InvariantHolds, PTL

\* Whatever the writer was doing when the power went, an open accepts the image
\* and its view through the overlay is the file as of the last complete entry.
THEOREM OpenFindsCommitted ==
  ASSUME FileSize <= MaxOverlay
  PROVE  Spec => []OpenPresentsCommitted
<1>1. Inv => OpenPresentsCommitted
  BY DEF Inv, Presents, OpenPresentsCommitted
<1> QED
  BY <1>1, InvariantHolds, PTL

\* A read through the overlay delivers the committed bytes up to the end of the
\* request, or up to a byte that neither the file nor the log holds.
THEOREM OverlayReadsCommitted ==
  ASSUME FileSize <= MaxOverlay
  PROVE  Spec => []ReadsThroughOverlay
<1>1. Inv => ReadsThroughOverlay
  BY ReadsAsCommitted
<1> QED
  BY <1>1, InvariantHolds, PTL
=============================================================================
