---------------------------- MODULE IndexLemmas ----------------------------
(***************************************************************************)
(* Facts about whole numbers that the proofs of the other modules share:   *)
(* least and greatest elements, and where a byte falls among blocks and    *)
(* sectors.                                                                *)
(***************************************************************************)
EXTENDS Integers, WellFoundedInduction, TLAPS

\* A set of natural numbers has a least element.
LEMMA LeastExists ==
  ASSUME NEW S \in SUBSET Nat, S # {}
  PROVE  \E m \in S : \A n \in S : m <= n
<1> DEFINE R == OpToRel(<, Nat)
<1>1. IsWellFoundedOn(R, Nat)
  BY NatLessThanWellFounded
<1>2. \A x, y \in Nat : x < y => <<x, y>> \in R
  BY DEF OpToRel
<1> HIDE DEF R
<1>3. PICK x \in S : \A y \in S : ~ (<<y, x>> \in R)
  BY <1>1, WFMin
<1>4. \A y \in S : ~(y < x)
  BY <1>2, <1>3
<1> QED
  BY <1>4

\* A set of numbers with an upper bound in it or above it has a greatest one.
LEMMA GreatestExists ==
  ASSUME NEW b \in Nat, NEW S \in SUBSET (0..b), S # {}
  PROVE  \E m \in S : \A n \in S : n <= m
<1> DEFINE T == {b - n : n \in S}
<1>1. T \in SUBSET Nat
  <2> SUFFICES ASSUME NEW n \in S PROVE b - n \in Nat
    OBVIOUS
  <2> QED
    OBVIOUS
<1>a. T # {}
  OBVIOUS
<1>2. PICK t \in T : \A u \in T : t <= u
  BY <1>1, <1>a, LeastExists
<1>3. PICK m \in S : t = b - m
  OBVIOUS
<1>4. \A n \in S : b - m <= b - n
  BY <1>2, <1>3
<1> QED
  BY <1>4

\* Division by a block or sector size: quotient, remainder and their bounds.
LEMMA Division ==
  ASSUME NEW a \in Nat, NEW b \in Nat \ {0}
  PROVE  /\ a \div b \in Nat /\ a % b \in Nat
         /\ a = (a \div b) * b + (a % b)
         /\ a % b < b
         /\ (a \div b) * b <= a /\ a < ((a \div b) + 1) * b
  BY SMT

\* The quotient is the only one with these bounds.
LEMMA DivisionUnique ==
  ASSUME NEW a \in Nat, NEW b \in Nat \ {0}, NEW q \in Nat, q * b <= a, a < (q + 1) * b
  PROVE  a \div b = q /\ a % b = a - q * b
<1>1. a \div b = q
  BY SMT
<1> QED
  BY <1>1, Division, SMT

\* Division keeps the order.
LEMMA DivisionMonotone ==
  ASSUME NEW a \in Nat, NEW b \in Nat \ {0}, NEW c \in Nat, a <= c
  PROVE  a \div b <= c \div b
  BY SMT

\* Induction, for a set of natural numbers instead of a predicate.
LEMMA SetInduction ==
  ASSUME NEW S \in SUBSET Nat, 0 \in S, \A n \in S : n + 1 \in S
  PROVE  S = Nat
<1> DEFINE T == Nat \ S
<1> SUFFICES ASSUME T # {} PROVE FALSE
  OBVIOUS
<1>1. PICK m \in T : \A n \in T : m <= n
  BY LeastExists
<1> QED
  BY <1>1

\* Induction over any set, by a measure of its elements.
LEMMA MeasureInduction ==
  ASSUME NEW D, NEW m \in [D -> Nat], NEW S \in SUBSET D,
         \A d \in D : (\A x \in D : m[x] < m[d] => x \in S) => d \in S
  PROVE  S = D
<1> DEFINE T == {m[d] : d \in D \ S}
<1> SUFFICES ASSUME S # D PROVE FALSE
  OBVIOUS
<1>1. T \in SUBSET Nat /\ T # {}
  OBVIOUS
<1>2. PICK n \in T : \A k \in T : n <= k
  <2> HIDE DEF T
  <2> QED
    BY <1>1, LeastExists
<1>3. PICK d \in D \ S : n = m[d]
  OBVIOUS
<1>4. \A x \in D : m[x] < m[d] => x \in S
  <2> SUFFICES ASSUME NEW x \in D, m[x] < m[d], x \notin S PROVE FALSE
    OBVIOUS
  <2>1. m[x] \in T
    OBVIOUS
  <2>2. m[d] <= m[x]
    <3> HIDE DEF T
    <3> QED
      BY <1>2, <1>3, <2>1
  <2> QED
    BY <2>2
<1> QED
  BY <1>3, <1>4

\* G gives the value of a function from D to V at d from its values at arguments
\* that are smaller by the measure m, which B bounds; v0 is some value.
Recursion(D, V, v0, B, m, G) ==
  /\ v0 \in V /\ B \in Nat /\ m \in [D -> 0..B] /\ G \in [[D -> V] -> [D -> V]]
  /\ \A f, g \in [D -> V], d \in D :
       (\A x \in D : m[x] < m[d] => f[x] = g[x]) => G[f][d] = G[g][d]

\* A function that is defined from its own values at smaller arguments exists.
LEMMA RecursionExists ==
  ASSUME NEW D, NEW V, NEW v0, NEW B, NEW m, NEW G, Recursion(D, V, v0, B, m, G)
  PROVE  \E f \in [D -> V] : f = G[f]
<1> USE DEF Recursion
<1> DEFINE Upto(f, n) == \A d \in D : m[d] < n => f[d] = G[f][d]
           S == {n \in Nat : \E f \in [D -> V] : Upto(f, n)}
<1>1. 0 \in S
  <2> DEFINE f == [d \in D |-> v0]
  <2>1. f \in [D -> V] /\ Upto(f, 0)
    OBVIOUS
  <2> QED
    BY <2>1
<1>2. ASSUME NEW n \in S PROVE n + 1 \in S
  <2>1. n \in Nat
    OBVIOUS
  <2>2. PICK f \in [D -> V] : Upto(f, n)
    OBVIOUS
  <2> DEFINE g == G[f]
  <2>3. g \in [D -> V]
    OBVIOUS
  <2>4. ASSUME NEW d \in D, m[d] < n + 1 PROVE g[d] = G[g][d]
    <3>1. \A x \in D : m[x] < m[d] => f[x] = g[x]
      BY <2>1, <2>2, <2>4
    <3>2. G[f][d] = G[g][d]
      <4> HIDE DEF g
      <4> QED
        BY <2>3, <3>1
    <3> QED
      BY <3>2
  <2>5. Upto(g, n + 1)
    BY <2>4
  <2> QED
    BY <2>1, <2>3, <2>5
<1>3. S = Nat
  <2> HIDE DEF S
  <2>1. S \in SUBSET Nat
    BY DEF S
  <2> QED
    BY <1>1, <1>2, <2>1, SetInduction
<1>4. B + 1 \in S
  <2> HIDE DEF S
  <2> QED
    BY <1>3
<1>5. PICK f \in [D -> V] : Upto(f, B + 1)
  BY <1>4
<1>6. \A d \in D : m[d] < B + 1
  OBVIOUS
<1>7. f = G[f]
  BY <1>5, <1>6
<1> QED
  BY <1>7

\* An iteration over V starts from v0 and takes N steps F[1], .. F[N].
Iteration(N, V, v0, F) == N \in Nat /\ v0 \in V /\ F \in [1..N -> [V -> V]]

\* Its values exist.
LEMMA IterationExists ==
  ASSUME NEW N, NEW V, NEW v0, NEW F, Iteration(N, V, v0, F)
  PROVE  \E f \in [0..N -> V] : f = [k \in 0..N |-> IF k = 0 THEN v0 ELSE F[k][f[k - 1]]]
<1> USE DEF Iteration
<1> DEFINE D == 0..N
           m == [k \in D |-> k]
           Next1(f, k) == IF k = 0 THEN v0 ELSE F[k][f[k - 1]]
           G == [f \in [D -> V] |-> [k \in D |-> Next1(f, k)]]
<1>1. m \in [D -> 0..N]
  OBVIOUS
<1>2. ASSUME NEW f \in [D -> V], NEW k \in D PROVE Next1(f, k) \in V
  <2>1. CASE k = 0
    BY <2>1
  <2>2. CASE k # 0
    <3>1. k \in 1..N /\ k - 1 \in D
      BY <2>2
    <3>2. F[k] \in [V -> V] /\ f[k - 1] \in V
      BY <3>1
    <3> QED
      BY <2>2, <3>2
  <2> QED
    BY <2>1, <2>2
<1>3. G \in [[D -> V] -> [D -> V]]
  <2> HIDE DEF Next1
  <2> QED
    BY <1>2
<1>4. ASSUME NEW f \in [D -> V], NEW g \in [D -> V], NEW k \in D, \A x \in D : m[x] < m[k] => f[x] = g[x]
      PROVE  G[f][k] = G[g][k]
  <2>1. k # 0 => k - 1 \in D /\ m[k - 1] < m[k]
    OBVIOUS
  <2>2. Next1(f, k) = Next1(g, k)
    <3> HIDE DEF m, D
    <3> QED
      BY <1>4, <2>1
  <2> QED
    BY <2>2
<1>5. Recursion(D, V, v0, N, m, G)
  <2> HIDE DEF G, m, D
  <2> QED
    BY <1>1, <1>3, <1>4 DEF Recursion
<1>6. PICK f \in [D -> V] : f = G[f]
  <2> HIDE DEF G, m, D
  <2> QED
    BY <1>5, RecursionExists
<1> QED
  BY <1>6
=============================================================================
