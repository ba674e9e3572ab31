------------------------ MODULE TcpReassemblyProofs -------------------------
(***************************************************************************)
(* What TcpReassembly gives the decoder is the stream, with holes only     *)
(* where it is told, and no byte that came in time is forgotten, for every *)
(* capture, every size of the sequence space, and all limits.              *)
(*                                                                         *)
(* The argument: a sequence number is unwrapped to the true position       *)
(* relative to the anchor (UnwrapIs), because the stream is shorter than   *)
(* half the sequence space.  So a chunk is buffered at its place (Store).  *)
(* A call of drain or skip_gap gives out a run without a hole (Run) and    *)
(* takes out of the buffer only chunks that lie within it; after what was  *)
(* given out before, the run keeps order and marks (Joined).  Ready says   *)
(* both of a state of the direction, and every operation preserves it.     *)
(*                                                                         *)
(* The second part is about the connections whose directions these are,    *)
(* CaptureTcp: a stage keeps the media of one of them.                     *)
(***************************************************************************)
EXTENDS TcpReassembly, CaptureTcp, FiniteSetTheorems, SequenceTheorems,
        WellFoundedInduction, TLAPS

\* A set of numbers that is not empty has a least one.
LEMMA LeastNumber ==
    ASSUME NEW T \in SUBSET Nat, T # {}
    PROVE  \E n \in T : \A m \in T : n <= m
<1> DEFINE intervals == {0..n : n \in T}
           smaller == StrictSubsetOrdering(Nat)
<1>1. intervals # {}
  OBVIOUS
<1>2. intervals \subseteq FiniteSubsetsOf(Nat)
  <2> SUFFICES ASSUME NEW n \in T PROVE 0..n \in FiniteSubsetsOf(Nat)
    OBVIOUS
  <2>1. IsFiniteSet(0..n) /\ 0..n \in SUBSET Nat
    BY FS_Interval
  <2> QED
    BY <2>1 DEF FiniteSubsetsOf
<1>3. PICK x \in intervals : \A y \in intervals : <<y, x>> \notin smaller
  <2>1. IsWellFoundedOn(smaller, FiniteSubsetsOf(Nat))
    BY FS_StrictSubsetOrderingWellFounded
  <2> HIDE DEF intervals, smaller
  <2> QED
    BY <1>1, <1>2, <2>1, WFMin
<1>4. PICK n \in T : x = 0..n
  OBVIOUS
<1>5. ASSUME NEW m \in T, m < n PROVE FALSE
  <2>1. <<0..m, 0..n>> \notin smaller
    BY <1>3, <1>4
  <2>2. 0..m \subseteq 0..n /\ n \in 0..n /\ n \notin 0..m
    BY <1>5
  <2> QED
    BY <2>1, <2>2 DEF StrictSubsetOrdering
<1> QED
  BY <1>4, <1>5

\* Induction over the numbers up to n.
LEMMA Upwards ==
    ASSUME NEW n \in Nat, NEW G, 0 \in G, \A k \in 1..n : k - 1 \in G => k \in G
    PROVE  \A k \in 0..n : k \in G
<1> DEFINE Bad == {k \in Nat : k <= n /\ k \notin G}
<1>1. SUFFICES ASSUME Bad # {} PROVE FALSE
  OBVIOUS
<1>2. PICK k \in Bad : \A m \in Bad : k <= m
  <2>1. Bad \in SUBSET Nat
    OBVIOUS
  <2> HIDE DEF Bad
  <2> QED
    BY <1>1, <2>1, LeastNumber
<1>3. k \in 1..n /\ k - 1 \in Nat /\ k - 1 <= n /\ ~(k <= k - 1)
  BY <1>2
<1>4. k - 1 \in G
  BY <1>2, <1>3
<1> QED
  BY <1>2, <1>3, <1>4

\* The least of some numbers that are bounded from below.
LEMMA LeastIs ==
    ASSUME NEW S \in SUBSET Int, S # {}, NEW b \in Int, \A x \in S : b <= x
    PROVE  Least(S) \in S /\ \A x \in S : Least(S) <= x
<1> DEFINE T == {x - b : x \in S}
<1>1. T \in SUBSET Nat /\ T # {}
  <2>1. ASSUME NEW x \in S PROVE x - b \in Nat
    <3>1. x \in Int /\ b <= x
      OBVIOUS
    <3> QED
      BY <3>1
  <2>2. PICK x \in S : TRUE
    OBVIOUS
  <2>3. x - b \in T
    OBVIOUS
  <2> QED
    BY <2>1, <2>3
<1>2. PICK n \in T : \A m \in T : n <= m
  <2> HIDE DEF T
  <2> QED
    BY <1>1, LeastNumber
<1>3. n + b \in S /\ \A x \in S : n + b <= x
  <2>1. \A x \in S : x - b \in T /\ x \in Int
    OBVIOUS
  <2>2. PICK y \in S : n = y - b
    OBVIOUS
  <2>3. n + b = y
    BY <2>2
  <2>4. ASSUME NEW x \in S PROVE n + b <= x
    <3>1. n <= x - b
      BY <1>2, <2>1
    <3> QED
      BY <2>1, <2>2, <3>1
  <2> QED
    BY <2>3, <2>4
<1>4. \E y \in S : \A x \in S : y <= x
  BY <1>3
<1> QED
  BY <1>4 DEF Least

\* The turns of the loops of drain and finish.
LEMMA TurnsExist ==
    ASSUME NEW x, NEW n \in Nat
    PROVE  \E f : f = [k \in 0..n |-> IF k = 0 THEN x ELSE Turn(f[k - 1])]
<1> DEFINE G == {m \in Nat : \E f : f = [k \in 0..m |-> IF k = 0 THEN x ELSE Turn(f[k - 1])]}
<1>1. 0 \in G
  <2> DEFINE f == [k \in 0..0 |-> x]
  <2>1. f = [k \in 0..0 |-> IF k = 0 THEN x ELSE Turn(f[k - 1])]
    OBVIOUS
  <2> QED
    BY <2>1
<1>2. ASSUME NEW m \in 1..n, m - 1 \in G PROVE m \in G
  <2>1. PICK f : f = [k \in 0..(m - 1) |-> IF k = 0 THEN x ELSE Turn(f[k - 1])]
    BY <1>2
  <2> DEFINE g == [k \in 0..m |-> IF k = m THEN Turn(f[m - 1]) ELSE f[k]]
  <2>2. \A k \in 0..m : g[k] = IF k = 0 THEN x ELSE Turn(g[k - 1])
    <3> SUFFICES ASSUME NEW k \in 0..m PROVE g[k] = IF k = 0 THEN x ELSE Turn(g[k - 1])
      OBVIOUS
    <3>1. CASE k = m
      <4>1. k # 0 /\ k - 1 \in 0..m /\ k - 1 # m /\ k - 1 = m - 1
        BY <3>1
      <4> QED
        BY <3>1, <4>1
    <3>2. CASE k # m
      <4>1. k \in 0..(m - 1) /\ (k # 0 => k - 1 \in 0..m /\ k - 1 # m)
        BY <3>2
      <4>2. f[k] = IF k = 0 THEN x ELSE Turn(f[k - 1])
        BY <2>1, <4>1
      <4> QED
        BY <3>2, <4>1, <4>2
    <3> QED
      BY <3>1, <3>2
  <2>3. g = [k \in 0..m |-> IF k = 0 THEN x ELSE Turn(g[k - 1])]
    BY <2>2
  <2> HIDE DEF g
  <2>4. m \in Nat
    OBVIOUS
  <2> QED
    BY <2>3, <2>4
<1> HIDE DEF G
<1>3. n \in G
  BY <1>1, <1>2, Upwards
<1> QED
  BY <1>3 DEF G

\* The same for finish.
LEMMA SkipsExist ==
    ASSUME NEW x, NEW n \in Nat
    PROVE  \E f : f = [k \in 0..n |-> IF k = 0 THEN x ELSE SkipNext(f[k - 1])]
<1> DEFINE G == {m \in Nat : \E f : f = [k \in 0..m |-> IF k = 0 THEN x ELSE SkipNext(f[k - 1])]}
<1>1. 0 \in G
  <2> DEFINE f == [k \in 0..0 |-> x]
  <2>1. f = [k \in 0..0 |-> IF k = 0 THEN x ELSE SkipNext(f[k - 1])]
    OBVIOUS
  <2> QED
    BY <2>1
<1>2. ASSUME NEW m \in 1..n, m - 1 \in G PROVE m \in G
  <2>1. PICK f : f = [k \in 0..(m - 1) |-> IF k = 0 THEN x ELSE SkipNext(f[k - 1])]
    BY <1>2
  <2> DEFINE g == [k \in 0..m |-> IF k = m THEN SkipNext(f[m - 1]) ELSE f[k]]
  <2>2. \A k \in 0..m : g[k] = IF k = 0 THEN x ELSE SkipNext(g[k - 1])
    <3> SUFFICES ASSUME NEW k \in 0..m PROVE g[k] = IF k = 0 THEN x ELSE SkipNext(g[k - 1])
      OBVIOUS
    <3>1. CASE k = m
      <4>1. k # 0 /\ k - 1 \in 0..m /\ k - 1 # m /\ k - 1 = m - 1
        BY <3>1
      <4> QED
        BY <3>1, <4>1
    <3>2. CASE k # m
      <4>1. k \in 0..(m - 1) /\ (k # 0 => k - 1 \in 0..m /\ k - 1 # m)
        BY <3>2
      <4>2. f[k] = IF k = 0 THEN x ELSE SkipNext(f[k - 1])
        BY <2>1, <4>1
      <4> QED
        BY <3>2, <4>1, <4>2
    <3> QED
      BY <3>1, <3>2
  <2>3. g = [k \in 0..m |-> IF k = 0 THEN x ELSE SkipNext(g[k - 1])]
    BY <2>2
  <2> HIDE DEF g
  <2>4. m \in Nat
    OBVIOUS
  <2> QED
    BY <2>3, <2>4
<1> HIDE DEF G
<1>3. n \in G
  BY <1>1, <1>2, Upwards
<1> QED
  BY <1>3 DEF G

-----------------------------------------------------------------------------
\* Division with rest.
LEMMA Division ==
    ASSUME NEW n \in Int, NEW m \in Nat \ {0}
    PROVE  /\ n \div m \in Int /\ n % m \in 0..(m - 1)
           /\ n = m * (n \div m) + (n % m)
OBVIOUS

\* No multiple of m but 0 is between -m and m.
LEMMA NearMultiple ==
    ASSUME NEW m \in Nat \ {0}, NEW j \in Int, m * j < 2 * m, -(2 * m) < m * j
    PROVE  j \in {-1, 0, 1}
<1>1. CASE j >= 2
  <2>1. m * j >= m * 2
    BY <1>1
  <2> QED
    BY <2>1
<1>2. CASE j <= -2
  <2>1. m * j <= m * (-2)
    BY <1>2
  <2> QED
    BY <2>1
<1>3. CASE j < 2 /\ -2 < j
  BY <1>3
<1> QED
  BY <1>1, <1>2, <1>3

\* unwrap: whatever cycle the sequence number is in, the position is the true one.
LEMMA UnwrapIs ==
    ASSUME NEW at \in 0..StreamLen, NEW z \in 0..StreamLen, NEW ref \in Int,
           ref + z \in 0..StreamLen
    PROVE  Unwrap((Isn + at) % SeqSpace, (Isn + z) % SeqSpace, ref) = at - z
<1> DEFINE M == SeqSpace
           s == (Isn + at) % M
           a == (Isn + z) % M
           d == at - z
           x == (Isn + at) \div M
           y == (Isn + z) \div M
           w == (s - a) \div M
           e == ref \div M
           r == (s - a) % M
           v == ref % M
<1>1. /\ M \in Nat \ {0} /\ Half \in Nat /\ M = 2 * Half
      /\ StreamLen \in Nat /\ StreamLen < Half /\ Isn \in 0..(M - 1)
  BY ReassemblyAssumption DEF Half
<1>2. d \in Int /\ d - ref < Half /\ ref - d < Half
  BY <1>1
<1>3. x \in Int /\ s \in Int /\ Isn + at = M * x + s
  <2> DEFINE i == Isn + at
  <2>1. i \in Int
    BY <1>1
  <2> HIDE DEF i
  <2>2. i \div M \in Int /\ i % M \in 0..(M - 1) /\ i = M * (i \div M) + (i % M)
    BY <1>1, <2>1, Division
  <2> QED
    BY <1>1, <2>2 DEF i
<1>4. y \in Int /\ a \in Int /\ Isn + z = M * y + a
  <2> DEFINE i == Isn + z
  <2>1. i \in Int
    BY <1>1
  <2> HIDE DEF i
  <2>2. i \div M \in Int /\ i % M \in 0..(M - 1) /\ i = M * (i \div M) + (i % M)
    BY <1>1, <2>1, Division
  <2> QED
    BY <1>1, <2>2 DEF i
<1>5. w \in Int /\ r \in 0..(M - 1) /\ s - a = M * w + r
  <2>1. s - a \in Int
    BY <1>3, <1>4
  <2> HIDE DEF s, a
  <2> QED
    BY <1>1, <2>1, Division
<1>6. e \in Int /\ v \in 0..(M - 1) /\ ref = M * e + v
  BY <1>1, Division
<1> DEFINE p == (ref - v) + r
           q == IF p - ref > Half - 1 THEN p - M ELSE p
           u == IF ref - q > Half - 1 THEN q + M ELSE q
           j == (y - x) - w + e
<1>7. u = Unwrap(s, a, ref)
  BY DEF Unwrap
<1>8. p = d + M * j /\ j \in Int
  <2>1. r = (M * y - M * x) + d - M * w
    <3> HIDE DEF s, a, x, y, w, r, M
    <3> QED
      BY <1>1, <1>3, <1>4, <1>5
  <2>2. M * j = M * y - M * x - M * w + M * e
    <3> HIDE DEF x, y, w, e, M
    <3> QED
      BY <1>1, <1>3, <1>4, <1>5, <1>6
  <2> HIDE DEF s, a, x, y, w, e, r, v, M, d
  <2>3. j \in Int
    BY <1>3, <1>4, <1>5, <1>6
  <2>4. /\ ref - v = M * e
        /\ M * e \in Int /\ M * x \in Int /\ M * y \in Int /\ M * w \in Int
    BY <1>1, <1>3, <1>4, <1>5, <1>6
  <2> QED
    BY <1>2, <2>1, <2>2, <2>3, <2>4
<1>9. p - ref < M /\ ref - p < M /\ p \in Int
  <2> HIDE DEF s, a, x, y, w, e, r, v, M, d, j
  <2> QED
    BY <1>1, <1>5, <1>6
<1>10. j \in {-1, 0, 1}
  <2> HIDE DEF s, a, x, y, w, e, r, v, M, d, j, p
  <2>1. M * j \in Int
    BY <1>1, <1>8
  <2>2. M * j < 2 * M /\ -(2 * M) < M * j
    BY <1>1, <1>2, <1>8, <1>9, <2>1
  <2> QED
    BY <1>1, <1>8, <2>2, NearMultiple
<1>11. p \in {d - M, d, d + M}
  <2> HIDE DEF s, a, x, y, w, e, r, v, M, d, j, p
  <2> QED
    BY <1>1, <1>2, <1>8, <1>10
<1>12. u = d
  <2> HIDE DEF s, a, x, y, w, e, r, v, M, d, j, p
  <2> QED
    BY <1>1, <1>2, <1>11
<1> QED
  BY <1>7, <1>12

-----------------------------------------------------------------------------
\* The bytes of a chunk, as they are counted.
LEMMA RowCount ==
    ASSUME NEW p, NEW a \in Nat, NEW b \in Nat, a <= b
    PROVE  /\ IsFiniteSet({p} \X ((a + 1)..b))
           /\ Cardinality({p} \X ((a + 1)..b)) = b - a
<1>1. IsFiniteSet({p}) /\ Cardinality({p}) = 1
  BY FS_Singleton
<1>2. IsFiniteSet((a + 1)..b) /\ Cardinality((a + 1)..b) = b - a
  <2>1. a + 1 \in Int /\ b \in Int
    OBVIOUS
  <2>2. /\ IsFiniteSet((a + 1)..b)
        /\ Cardinality((a + 1)..b) = IF a + 1 > b THEN 0 ELSE b - (a + 1) + 1
    BY <2>1, FS_Interval
  <2> QED
    BY <2>2
<1> DEFINE row == (a + 1)..b
<1> HIDE DEF row
<1>3. IsFiniteSet({p} \X row) /\ Cardinality({p} \X row) = 1 * Cardinality(row)
  <2>1. IsFiniteSet(row)
    BY <1>2 DEF row
  <2> QED
    BY <1>1, <2>1, FS_Product
<1> QED
  BY <1>2, <1>3 DEF row

\* A chunk is buffered in an empty place, or in that of a shorter one.
LEMMA HeldPut ==
    ASSUME NEW f, NEW p, NEW c, NEW old \in Nat, c.len \in Nat, old < c.len,
           p \in DOMAIN f => f[p].len = old, p \notin DOMAIN f => old = 0,
           IsFiniteSet(Held(f))
    PROVE  /\ IsFiniteSet(Held(Stored(f, p, c)))
           /\ Cardinality(Held(Stored(f, p, c))) = Cardinality(Held(f)) - old + c.len
<1> DEFINE g == Stored(f, p, c)
           row == {p} \X ((old + 1)..c.len)
<1>1. DOMAIN g = DOMAIN f \cup {p} /\ g[p] = c /\ \A x \in DOMAIN f : x # p => g[x] = f[x]
  BY DEF Stored
<1> HIDE DEF g
<1>2. 1..c.len = (1..old) \cup ((old + 1)..c.len)
  OBVIOUS
<1>3. \A x, n : <<x, n>> \in Held(f) <=> x \in DOMAIN f /\ n \in 1..f[x].len
  BY DEF Held
<1>4. \A x, n : <<x, n>> \in Held(g) <=> x \in DOMAIN g /\ n \in 1..g[x].len
  BY DEF Held
<1>5. Held(g) = Held(f) \cup row
  <2>1. ASSUME NEW v \in Held(g) PROVE v \in Held(f) \cup row
    <3>1. PICK x, n : v = <<x, n>> /\ x \in DOMAIN g /\ n \in 1..g[x].len
      BY DEF Held
    <3>2. CASE x = p
      <4>1. n \in 1..old \/ n \in (old + 1)..c.len
        BY <1>1, <1>2, <3>1, <3>2
      <4>2. CASE n \in 1..old
        <5>1. p \in DOMAIN f /\ f[p].len = old
          BY <4>2
        <5> QED
          BY <1>3, <3>1, <3>2, <4>2, <5>1
      <4> QED
        BY <3>1, <3>2, <4>1, <4>2
    <3>3. CASE x # p
      BY <1>1, <1>3, <3>1, <3>3
    <3> QED
      BY <3>2, <3>3
  <2>2. ASSUME NEW v \in Held(f) PROVE v \in Held(g)
    <3>1. PICK x, n : v = <<x, n>> /\ x \in DOMAIN f /\ n \in 1..f[x].len
      BY DEF Held
    <3>2. CASE x = p
      <4>1. n \in 1..c.len
        BY <1>2, <3>1, <3>2
      <4> QED
        BY <1>1, <1>4, <3>1, <3>2, <4>1
    <3> QED
      BY <1>1, <1>4, <3>1, <3>2
  <2>3. ASSUME NEW v \in row PROVE v \in Held(g)
    <3>1. PICK n \in (old + 1)..c.len : v = <<p, n>>
      OBVIOUS
    <3>2. n \in 1..c.len
      BY <1>2
    <3> QED
      BY <1>1, <1>4, <3>1, <3>2
  <2> QED
    BY <2>1, <2>2, <2>3
<1>6. Held(f) \cap row = {}
  <2> SUFFICES ASSUME NEW v \in Held(f), v \in row PROVE FALSE
    OBVIOUS
  <2>1. PICK n \in (old + 1)..c.len : v = <<p, n>>
    OBVIOUS
  <2>2. p \in DOMAIN f /\ n \in 1..f[p].len
    BY <1>3, <2>1
  <2> QED
    BY <2>1, <2>2
<1>7. IsFiniteSet(row) /\ Cardinality(row) = c.len - old
  <2>1. old <= c.len
    OBVIOUS
  <2> QED
    BY <2>1, RowCount
<1>8. Cardinality({}) = 0 /\ Cardinality(Held(f)) \in Nat
  BY FS_EmptySet, FS_CardinalityType
<1>9. /\ IsFiniteSet(Held(f) \cup row)
      /\ Cardinality(Held(f) \cup row) =
           Cardinality(Held(f)) + Cardinality(row) - Cardinality(Held(f) \cap row)
  BY <1>7, FS_Union
<1> HIDE DEF row
<1>10. Cardinality(Held(g)) = Cardinality(Held(f)) - old + c.len
  BY <1>5, <1>6, <1>7, <1>8, <1>9
<1> QED
  BY <1>5, <1>9, <1>10 DEF g

\* And one is taken out.
LEMMA HeldDrop ==
    ASSUME NEW f, NEW p \in DOMAIN f, f[p].len \in Nat, IsFiniteSet(Held(f))
    PROVE  /\ IsFiniteSet(Held(Drop(f, p)))
           /\ Cardinality(Held(Drop(f, p))) = Cardinality(Held(f)) - f[p].len
<1> DEFINE g == Drop(f, p)
           row == {p} \X ((0 + 1)..f[p].len)
<1>1. DOMAIN g = DOMAIN f \ {p} /\ \A x \in DOMAIN g : g[x] = f[x]
  BY DEF Drop
<1> HIDE DEF g
<1>2. \A x, n : <<x, n>> \in Held(f) <=> x \in DOMAIN f /\ n \in 1..f[x].len
  BY DEF Held
<1>3. \A x, n : <<x, n>> \in Held(g) <=> x \in DOMAIN g /\ n \in 1..g[x].len
  BY DEF Held
<1>4. Held(g) = Held(f) \ row
  <2>1. ASSUME NEW v \in Held(g) PROVE v \in Held(f) \ row
    <3>1. PICK x, n : v = <<x, n>> /\ x \in DOMAIN g /\ n \in 1..g[x].len
      BY DEF Held
    <3> QED
      BY <1>1, <1>2, <3>1
  <2>2. ASSUME NEW v \in Held(f), v \notin row PROVE v \in Held(g)
    <3>1. PICK x, n : v = <<x, n>> /\ x \in DOMAIN f /\ n \in 1..f[x].len
      BY DEF Held
    <3>2. x # p
      BY <2>2, <3>1
    <3> QED
      BY <1>1, <1>3, <3>1, <3>2
  <2> QED
    BY <2>1, <2>2
<1>5. Held(f) \cap row = row
  <2> SUFFICES ASSUME NEW v \in row PROVE v \in Held(f)
    OBVIOUS
  <2>1. PICK n \in (0 + 1)..f[p].len : v = <<p, n>>
    OBVIOUS
  <2> QED
    BY <1>2, <2>1
<1>6. Cardinality(row) = f[p].len
  <2>1. 0 \in Nat /\ 0 <= f[p].len /\ f[p].len - 0 = f[p].len
    OBVIOUS
  <2> QED
    BY <2>1, RowCount
<1>7. /\ IsFiniteSet(Held(f) \ row)
      /\ Cardinality(Held(f) \ row) = Cardinality(Held(f)) - Cardinality(Held(f) \cap row)
  BY FS_Difference
<1> HIDE DEF row
<1> QED
  BY <1>4, <1>5, <1>6, <1>7 DEF g

-----------------------------------------------------------------------------
\* The end of a chunk.
End(c) == c.src + c.len

Chunks == [src : Nat, len : 1..MaxLen, disc : BOOLEAN]

\* o gives out the stream from a to b without a hole.
Run(o, a, b) ==
    /\ o \in Seq(Chunks) /\ a \in Nat /\ b \in Nat /\ a <= b
    /\ o = <<>> => a = b
    /\ o # <<>> => o[1].src = a /\ End(o[Len(o)]) = b
    /\ \A i \in 2..Len(o) : o[i].src = End(o[i - 1]) /\ ~o[i].disc
    /\ \A i \in 1..Len(o) : a <= o[i].src /\ End(o[i]) <= b
    /\ \A i, j \in 1..Len(o) : i < j => End(o[i]) <= o[j].src
    /\ \A x \in a..(b - 1) : \E i \in 1..Len(o) : x \in Bytes(o[i])

\* The chunks that are marked.
Breaks(o) == {i \in DOMAIN o : o[i].disc}

\* o is in order up to e, with g holes where it is told.
Told(o, e, g) ==
    /\ o \in Seq(Chunks) /\ e \in Nat /\ g \in Nat
    /\ o # <<>> => End(o[Len(o)]) = e
    /\ \A i \in 1..Len(o) : End(o[i]) <= e
    /\ \A i, j \in 1..Len(o) : i < j => End(o[i]) <= o[j].src
    /\ \A i \in 2..Len(o) : o[i].disc <=> o[i].src # End(o[i - 1])
    /\ IsFiniteSet(Breaks(o)) /\ g = Cardinality(Breaks(o))

\* Another chunk without a hole.
LEMMA RunAppend ==
    ASSUME NEW o, NEW a, NEW b, Run(o, a, b), NEW n \in 1..MaxLen, MaxLen \in Nat
    PROVE  Run(Append(o, [src |-> b, len |-> n, disc |-> FALSE]), a, b + n)
<1> DEFINE c == [src |-> b, len |-> n, disc |-> FALSE]
           q == Append(o, c)
<1>1. /\ o \in Seq(Chunks) /\ a \in Nat /\ b \in Nat /\ a <= b
      /\ o = <<>> => a = b
      /\ o # <<>> => o[1].src = a /\ End(o[Len(o)]) = b
      /\ \A i \in 2..Len(o) : o[i].src = End(o[i - 1]) /\ ~o[i].disc
      /\ \A i \in 1..Len(o) : a <= o[i].src /\ End(o[i]) <= b
      /\ \A i, j \in 1..Len(o) : i < j => End(o[i]) <= o[j].src
      /\ \A x \in a..(b - 1) : \E i \in 1..Len(o) : x \in Bytes(o[i])
  BY DEF Run
<1>2. c \in Chunks /\ c.src = b /\ c.len = n /\ c.disc = FALSE /\ End(c) = b + n
  BY <1>1 DEF Chunks, End
<1> HIDE DEF c
<1>3. /\ q \in Seq(Chunks) /\ Len(q) = Len(o) + 1 /\ q[Len(q)] = c
      /\ Len(o) \in Nat /\ q # <<>>
  BY <1>1, <1>2
<1>4. \A i \in 1..Len(o) : q[i] = o[i]
  BY <1>1, <1>2
<1>5. \A i \in 1..Len(q) : i \in 1..Len(o) \/ i = Len(q)
  BY <1>3
<1>6. \A i \in 1..Len(o) : o[i] \in Chunks /\ o[i].src \in Nat /\ End(o[i]) \in Nat
  <2>1. \A i \in 1..Len(o) : o[i] \in Chunks
    BY <1>1
  <2>2. \A d \in Chunks : d.src \in Nat /\ End(d) \in Nat
    BY DEF Chunks, End
  <2> QED
    BY <2>1, <2>2
<1>7. Len(o) = 0 => o = <<>>
  BY <1>1
<1> HIDE DEF q
<1>8. q[1].src = a
  <2>1. CASE o = <<>>
    <3>1. Len(q) = 1 /\ a = b
      BY <1>1, <1>3, <2>1
    <3> QED
      BY <1>2, <1>3, <3>1
  <2>2. CASE o # <<>>
    <3>1. 1 \in 1..Len(o)
      BY <1>3, <1>7, <2>2
    <3> QED
      BY <1>1, <1>4, <2>2, <3>1
  <2> QED
    BY <2>1, <2>2
<1>9. ASSUME NEW i \in 2..Len(q) PROVE q[i].src = End(q[i - 1]) /\ ~q[i].disc
  <2>1. i - 1 \in 1..Len(o) /\ i \in 1..Len(q)
    BY <1>3
  <2>2. CASE i \in 1..Len(o)
    <3>1. i \in 2..Len(o)
      BY <2>2
    <3> QED
      BY <1>1, <1>4, <2>1, <2>2, <3>1
  <2>3. CASE i = Len(q)
    <3>1. i - 1 = Len(o) /\ o # <<>>
      BY <1>3, <2>1, <2>3
    <3> QED
      BY <1>1, <1>2, <1>3, <1>4, <2>1, <2>3, <3>1
  <2> QED
    BY <1>5, <2>1, <2>2, <2>3
<1>10. ASSUME NEW i \in 1..Len(q) PROVE a <= q[i].src /\ End(q[i]) <= b + n
  <2>1. CASE i \in 1..Len(o)
    <3>1. q[i] = o[i] /\ a <= o[i].src /\ End(o[i]) <= b /\ End(o[i]) \in Nat
      BY <1>1, <1>4, <1>6, <2>1
    <3> DEFINE f == End(o[i])
    <3> HIDE DEF f
    <3>2. f <= b + n
      BY <1>1, <3>1 DEF f
    <3> QED
      BY <3>1, <3>2 DEF f
  <2>2. CASE i = Len(q)
    BY <1>1, <1>2, <1>3, <2>2
  <2> QED
    BY <1>5, <2>1, <2>2
<1>11. ASSUME NEW i \in 1..Len(q), NEW j \in 1..Len(q), i < j PROVE End(q[i]) <= q[j].src
  <2>1. i \in 1..Len(o) /\ q[i] = o[i]
    BY <1>3, <1>4, <1>11
  <2>2. CASE j \in 1..Len(o)
    BY <1>1, <1>4, <1>11, <2>1, <2>2
  <2>3. CASE j = Len(q)
    BY <1>1, <1>2, <1>3, <2>1, <2>3
  <2> QED
    BY <1>5, <2>2, <2>3
<1>12. ASSUME NEW x \in a..((b + n) - 1) PROVE \E i \in 1..Len(q) : x \in Bytes(q[i])
  <2>1. CASE x < b
    <3>1. x \in a..(b - 1)
      BY <1>1, <2>1
    <3>2. PICK i \in 1..Len(o) : x \in Bytes(o[i])
      BY <1>1, <3>1
    <3>3. i \in 1..Len(q) /\ q[i] = o[i]
      BY <1>3, <1>4
    <3> QED
      BY <3>2, <3>3
  <2>2. CASE x >= b
    <3>1. x \in Bytes(c)
      BY <1>1, <1>2, <2>2 DEF Bytes
    <3>2. Len(q) \in 1..Len(q)
      BY <1>3
    <3> QED
      BY <1>3, <3>1, <3>2
  <2> QED
    BY <1>1, <2>1, <2>2
<1>13. b + n \in Nat /\ a <= b + n
  BY <1>1
<1>14. End(q[Len(q)]) = b + n
  BY <1>2, <1>3
<1>15. Run(q, a, b + n)
  BY <1>1, <1>3, <1>8, <1>9, <1>10, <1>11, <1>12, <1>13, <1>14 DEF Run
<1> QED
  BY <1>15 DEF q, c

\* A run is given out after o: behind a hole its first chunk is marked.
LEMMA Joined ==
    ASSUME NEW o, NEW e, NEW g, NEW r, NEW a, NEW b,
           Told(o, e, g), Run(r, a, b),
           o # <<>> => e <= a,
           o # <<>> => (r = <<>> => a = e),
           o # <<>> => (r # <<>> => (r[1].disc <=> a # e))
    PROVE  /\ Told(o \o r, b, IF r # <<>> /\ r[1].disc THEN g + 1 ELSE g)
           /\ \A i \in DOMAIN o : \E k \in DOMAIN (o \o r) : (o \o r)[k] = o[i]
           /\ \A i \in DOMAIN r : \E k \in DOMAIN (o \o r) : (o \o r)[k] = r[i]
<1> DEFINE q == o \o r
           m == Len(o)
<1>1. /\ o \in Seq(Chunks) /\ e \in Nat /\ g \in Nat
      /\ o # <<>> => End(o[m]) = e
      /\ \A i \in 1..m : End(o[i]) <= e
      /\ \A i, j \in 1..m : i < j => End(o[i]) <= o[j].src
      /\ \A i \in 2..m : o[i].disc <=> o[i].src # End(o[i - 1])
      /\ IsFiniteSet(Breaks(o)) /\ g = Cardinality(Breaks(o))
  BY DEF Told
<1>2. /\ r \in Seq(Chunks) /\ a \in Nat /\ b \in Nat /\ a <= b
      /\ r = <<>> => a = b
      /\ r # <<>> => r[1].src = a /\ End(r[Len(r)]) = b
      /\ \A i \in 2..Len(r) : r[i].src = End(r[i - 1]) /\ ~r[i].disc
      /\ \A i \in 1..Len(r) : a <= r[i].src /\ End(r[i]) <= b
      /\ \A i, j \in 1..Len(r) : i < j => End(r[i]) <= r[j].src
  BY DEF Run
<1>3. \A c \in Chunks : c.src \in Nat /\ End(c) \in Nat /\ c.disc \in BOOLEAN
  BY DEF Chunks, End
<1>4. /\ m \in Nat /\ Len(r) \in Nat
      /\ \A i \in 1..m : o[i] \in Chunks
      /\ \A i \in 1..Len(r) : r[i] \in Chunks
      /\ DOMAIN o = 1..m /\ DOMAIN r = 1..Len(r)
  BY <1>1, <1>2
<1>5. /\ q \in Seq(Chunks) /\ Len(q) = m + Len(r) /\ DOMAIN q = 1..Len(q)
      /\ \A i \in 1..m : q[i] = o[i]
      /\ \A i \in 1..Len(r) : q[m + i] = r[i]
  BY <1>1, <1>2
<1>6. (m = 0 <=> o = <<>>) /\ (Len(r) = 0 <=> r = <<>>) 
  BY <1>1, <1>2
<1>7. \A i \in 1..Len(q) : i \in 1..m \/ (i - m \in 1..Len(r) /\ i = m + (i - m) /\ q[i] = r[i - m])
  <2> SUFFICES ASSUME NEW i \in 1..Len(q), i \notin 1..m
               PROVE  i - m \in 1..Len(r) /\ i = m + (i - m) /\ q[i] = r[i - m]
    OBVIOUS
  <2> DEFINE d == i - m
  <2>1. d \in 1..Len(r) /\ i = m + d
    BY <1>4, <1>5
  <2> HIDE DEF d, q, m
  <2>2. q[i] = r[d]
    BY <1>5, <2>1
  <2> QED
    BY <2>1, <2>2 DEF d
<1> HIDE DEF q, m
<1>8. q # <<>> => End(q[Len(q)]) = b
  <2>1. CASE r = <<>>
    <3>1. Len(q) = m /\ (q # <<>> => o # <<>> /\ m \in 1..m)
      BY <1>4, <1>5, <1>6, <2>1
    <3> QED
      BY <1>1, <1>2, <1>5, <2>1, <3>1
  <2>2. CASE r # <<>>
    <3>1. Len(r) \in 1..Len(r)
      BY <1>4, <1>6, <2>2
    <3> QED
      BY <1>2, <1>5, <2>2, <3>1
  <2> QED
    BY <2>1, <2>2
<1>9. ASSUME NEW i \in 1..Len(q) PROVE End(q[i]) <= b
  <2>1. CASE i \in 1..m
    <3>1. o # <<>> /\ q[i] = o[i] /\ o[i] \in Chunks
      BY <1>4, <1>5, <1>6, <2>1
    <3> QED
      BY <1>1, <1>2, <1>3, <2>1, <3>1
  <2>2. CASE i \notin 1..m
    BY <1>2, <1>7, <2>2
  <2> QED
    BY <2>1, <2>2
<1>10. ASSUME NEW i \in 1..Len(q), NEW j \in 1..Len(q), i < j PROVE End(q[i]) <= q[j].src
  <2>1. CASE j \in 1..m
    <3>1. i \in 1..m
      BY <1>4, <1>10, <2>1
    <3> QED
      BY <1>1, <1>5, <1>10, <2>1, <3>1
  <2>2. CASE i \in 1..m /\ j \notin 1..m
    <3>1. o # <<>> /\ q[i] = o[i] /\ o[i] \in Chunks
      BY <1>4, <1>5, <1>6, <2>2
    <3>2. j - m \in 1..Len(r) /\ q[j] = r[j - m] /\ r[j - m] \in Chunks
      BY <1>4, <1>7, <2>2
    <3>3. End(o[i]) <= e /\ e <= a /\ a <= r[j - m].src
      BY <1>1, <1>2, <2>2, <3>1, <3>2
    <3>4. End(o[i]) \in Int /\ r[j - m].src \in Int
      BY <1>3, <3>1, <3>2
    <3> DEFINE x == End(o[i])
               y == r[j - m].src
    <3> HIDE DEF x, y
    <3>5. x <= y
      BY <1>1, <1>2, <3>3, <3>4 DEF x, y
    <3> QED
      BY <3>1, <3>2, <3>5 DEF x, y
  <2>3. CASE i \notin 1..m /\ j \notin 1..m
    <3>1. /\ j - m \in 1..Len(r) /\ q[j] = r[j - m]
          /\ i - m \in 1..Len(r) /\ q[i] = r[i - m]
      BY <1>7, <2>3
    <3>2. i - m < j - m
      BY <1>4, <1>10
    <3> QED
      BY <1>2, <3>1, <3>2
  <2> QED
    BY <1>4, <1>10, <2>1, <2>2, <2>3
<1>11. ASSUME NEW i \in 2..Len(q) PROVE q[i].disc <=> q[i].src # End(q[i - 1])
  <2>1. CASE i \in 1..m
    <3>1. i \in 2..m /\ i - 1 \in 1..m
      BY <1>4, <2>1
    <3> QED
      BY <1>1, <1>5, <2>1, <3>1
  <2>2. CASE i = m + 1
    <3>1. m \in 1..m /\ i - 1 = m /\ o # <<>>
      BY <1>4, <1>6, <2>2
    <3>2. 1 \in 1..Len(r) /\ q[i] = r[1] /\ r # <<>>
      BY <1>4, <1>5, <1>6, <2>2
    <3>3. q[i - 1] = o[m] /\ End(o[m]) = e
      BY <1>1, <1>5, <3>1
    <3>4. r[1].src = a /\ (r[1].disc <=> a # e)
      BY <1>2, <3>1, <3>2
    <3> QED
      BY <3>2, <3>3, <3>4
  <2>3. CASE i \notin 1..m /\ i # m + 1
    <3> DEFINE d == i - m
    <3>1. d \in 2..Len(r) /\ i = m + d /\ i - 1 = m + (d - 1) /\ d - 1 \in 1..Len(r)
      BY <1>4, <1>5, <2>3
    <3> HIDE DEF d
    <3>2. q[i] = r[d] /\ q[i - 1] = r[d - 1]
      <4>1. d \in 1..Len(r)
        BY <3>1
      <4> DEFINE l == d - 1
      <4>2. l \in 1..Len(r) /\ i - 1 = m + l
        BY <3>1
      <4> HIDE DEF l
      <4>3. q[m + d] = r[d] /\ q[m + l] = r[l]
        BY <1>5, <4>1, <4>2
      <4> QED
        BY <3>1, <4>2, <4>3 DEF l
    <3> QED
      BY <1>2, <3>1, <3>2
  <2> QED
    BY <2>1, <2>2, <2>3
<1> DEFINE h == IF r # <<>> /\ r[1].disc THEN {m + 1} ELSE {}
<1>12. Breaks(q) = Breaks(o) \cup h
  <2>1. ASSUME NEW i \in Breaks(q) PROVE i \in Breaks(o) \cup h
    <3>1. i \in 1..Len(q) /\ q[i].disc
      BY <1>5 DEF Breaks
    <3>2. CASE i \in 1..m
      BY <1>4, <1>5, <3>1, <3>2 DEF Breaks
    <3>3. CASE i \notin 1..m
      <4>1. i - m \in 1..Len(r) /\ i = m + (i - m) /\ r[i - m].disc
        BY <1>7, <3>1, <3>3
      <4>2. i - m \notin 2..Len(r)
        BY <1>2, <4>1
      <4>3. i - m = 1 /\ i = m + 1 /\ r # <<>>
        BY <1>4, <1>6, <4>1, <4>2
      <4> QED
        BY <4>1, <4>3
    <3> QED
      BY <3>2, <3>3
  <2>2. ASSUME NEW i \in Breaks(o) PROVE i \in Breaks(q)
    <3>1. i \in 1..m /\ o[i].disc
      BY <1>4 DEF Breaks
    <3>2. i \in 1..Len(q)
      BY <1>4, <1>5, <3>1
    <3> QED
      BY <1>5, <3>1, <3>2 DEF Breaks
  <2>3. ASSUME NEW i \in h PROVE i \in Breaks(q)
    <3>1. i = m + 1 /\ r # <<>> /\ r[1].disc
      OBVIOUS
    <3>2. 1 \in 1..Len(r) /\ i \in 1..Len(q)
      BY <1>4, <1>5, <1>6, <3>1
    <3>3. q[i] = r[1]
      BY <1>5, <3>1, <3>2
    <3> QED
      BY <1>5, <3>1, <3>2, <3>3 DEF Breaks
  <2> QED
    BY <2>1, <2>2, <2>3
<1>13. m + 1 \notin Breaks(o)
  BY <1>4 DEF Breaks
<1> DEFINE n == IF r # <<>> /\ r[1].disc THEN g + 1 ELSE g
<1>14. IsFiniteSet(Breaks(q)) /\ Cardinality(Breaks(q)) = n /\ n \in Nat
  <2>1. CASE r # <<>> /\ r[1].disc
    <3>1. Breaks(q) = Breaks(o) \cup {m + 1} /\ n = g + 1
      BY <1>12, <2>1
    <3> QED
      BY <1>1, <1>13, <3>1, FS_AddElement
  <2>2. CASE ~(r # <<>> /\ r[1].disc)
    <3>1. Breaks(q) = Breaks(o) /\ n = g
      BY <1>12, <2>2
    <3> QED
      BY <1>1, <3>1
  <2> QED
    BY <2>1, <2>2
<1> HIDE DEF n, h
<1>15. Told(q, b, n)
  BY <1>2, <1>5, <1>8, <1>9, <1>10, <1>11, <1>14 DEF Told
<1>16. \A i \in DOMAIN o : \E k \in DOMAIN q : q[k] = o[i]
  <2> SUFFICES ASSUME NEW i \in 1..m PROVE \E k \in DOMAIN q : q[k] = o[i]
    BY <1>4
  <2>1. i \in 1..Len(q)
    BY <1>4, <1>5
  <2> QED
    BY <1>5, <2>1
<1>17. \A i \in DOMAIN r : \E k \in DOMAIN q : q[k] = r[i]
  <2> SUFFICES ASSUME NEW i \in 1..Len(r) PROVE \E k \in DOMAIN q : q[k] = r[i]
    BY <1>4
  <2>1. m + i \in 1..Len(q)
    BY <1>4, <1>5
  <2> QED
    BY <1>5, <2>1
<1> QED
  BY <1>15, <1>16, <1>17 DEF q, n

-----------------------------------------------------------------------------
\* c is the chunk buffered at position p of a direction anchored at z.
Piece(c, p, z) ==
    /\ c.src = p + z /\ c.src \in Nat
    /\ c.len \in 1..MaxLen /\ End(c) <= StreamLen
    /\ c.time \in Nat

\* The fields of a direction that buffers f.
Tcps(f) == [synced : BOOLEAN, expected : Int, pending : {f}, pending_bytes : Nat,
            first_micros : Nat \cup {Unset}, gaps : Nat, retransmitted : Nat, late : Nat]

\* What is buffered is part of the stream, at its place, and counted.
Store(t, z) ==
    /\ t \in Tcps(t.pending)
    /\ t.expected + z \in 0..StreamLen
    /\ IsFiniteSet(DOMAIN t.pending)
    /\ \A p \in DOMAIN t.pending : p \in Int /\ Piece(t.pending[p], p, z)
    /\ IsFiniteSet(Held(t.pending)) /\ t.pending_bytes = Cardinality(Held(t.pending))

\* The first chunk buffered.
LEMMA FirstIs ==
    ASSUME NEW t, NEW z \in Nat, Store(t, z), DOMAIN t.pending # {}
    PROVE  /\ Least(DOMAIN t.pending) \in DOMAIN t.pending
           /\ \A p \in DOMAIN t.pending : Least(DOMAIN t.pending) <= p
<1>1. DOMAIN t.pending \in SUBSET Int
  BY DEF Store
<1>2. -z \in Int /\ \A p \in DOMAIN t.pending : -z <= p
  BY DEF Store, Piece
<1> QED
  BY <1>1, <1>2, LeastIs

\* What is left of t and given out by d, t being anchored at z.
Rest(d, t, z) ==
    /\ d = [t |-> d.t, o |-> d.o]
    /\ Store(d.t, z)
    /\ d.t.synced = t.synced /\ d.t.gaps = t.gaps
    /\ Run(d.o, t.expected + z, d.t.expected + z)
    /\ \A i \in 1..Len(d.o) : ~d.o[i].disc
    /\ DOMAIN d.t.pending \subseteq DOMAIN t.pending
    /\ \A p \in DOMAIN d.t.pending : d.t.pending[p] = t.pending[p]
    /\ \A p \in DOMAIN t.pending \ DOMAIN d.t.pending : p + t.pending[p].len <= d.t.expected
    /\ ~t.synced => d.o = <<>> /\ d.t.pending = t.pending

\* Nothing is given out.
LEMMA RestStart ==
    ASSUME NEW t, NEW z \in Nat, Store(t, z), StreamLen \in Nat
    PROVE  Rest([t |-> t, o |-> <<>>], t, z)
<1>1. t.expected + z \in Nat
  BY DEF Store
<1> DEFINE o == <<>>
<1>2. o \in Seq(Chunks) /\ Len(o) = 0
  OBVIOUS
<1> DEFINE a == t.expected + z
<1>3. Run(o, a, a)
  <2> HIDE DEF a
  <2>1. a..(a - 1) = {} /\ 1..Len(o) = {} /\ 2..Len(o) = {} /\ a <= a
    BY <1>1 DEF a
  <2> QED
    BY <1>1, <1>2, <2>1 DEF Run, a
<1> QED
  BY <1>2, <1>3 DEF Rest

\* One turn of drain's loop.
LEMMA DeliverKeeps ==
    ASSUME NEW t, NEW z \in Nat, NEW s, Store(t, z), Rest(s, t, z), t.synced, NEW p \in DOMAIN s.t.pending,
           p <= s.t.expected, StreamLen \in Nat, MaxLen \in Nat
    PROVE  /\ Rest(Deliver(s, p), t, z)
           /\ DOMAIN Deliver(s, p).t.pending = DOMAIN s.t.pending \ {p}
<1> DEFINE c == s.t.pending[p]
           overlap == Min2(s.t.expected - p, c.len)
           rest == c.len - overlap
           f == Drop(s.t.pending, p)
           x == [s.t EXCEPT !.pending = f, !.pending_bytes = @ - c.len,
                            !.retransmitted = @ + overlap, !.expected = @ + rest]
           o == IF rest = 0 THEN s.o
                ELSE Append(s.o, [src |-> c.src + overlap, len |-> rest, disc |-> FALSE])
<1>1. /\ s.t \in Tcps(s.t.pending)
      /\ s.t.expected + z \in 0..StreamLen
      /\ IsFiniteSet(DOMAIN s.t.pending)
      /\ \A y \in DOMAIN s.t.pending : y \in Int /\ Piece(s.t.pending[y], y, z)
      /\ IsFiniteSet(Held(s.t.pending)) /\ s.t.pending_bytes = Cardinality(Held(s.t.pending))
  BY DEF Rest, Store
<1>2. /\ p \in Int /\ c.src = p + z /\ c.src \in Nat /\ c.len \in 1..MaxLen
      /\ c.src + c.len <= StreamLen
  BY <1>1 DEF Piece, End
<1>3. s.t.expected \in Int /\ s.t.retransmitted \in Nat
  BY <1>1 DEF Tcps
<1> HIDE DEF c
<1>4. /\ overlap \in Nat /\ rest \in 0..MaxLen
      /\ rest # 0 => c.src + overlap = s.t.expected + z
      /\ p + c.len <= s.t.expected + rest
      /\ (s.t.expected + rest) + z \in 0..StreamLen
  <2> DEFINE h == s.t.expected - p
  <2>1. h \in Nat /\ h + c.src = s.t.expected + z /\ p + h = s.t.expected
    BY <1>1, <1>2, <1>3
  <2>2. overlap = IF h <= c.len THEN h ELSE c.len
    BY DEF Min2
  <2> HIDE DEF h
  <2>3. CASE h <= c.len
    <3>1. overlap = h /\ rest = c.len - h
      BY <2>2, <2>3
    <3> QED
      BY <1>1, <1>2, <1>3, <2>1, <2>3, <3>1
  <2>4. CASE c.len < h
    <3>1. overlap = c.len /\ rest = 0
      BY <1>2, <2>1, <2>2, <2>4
    <3> QED
      BY <1>1, <1>2, <1>3, <2>1, <2>4, <3>1
  <2> QED
    BY <1>2, <2>1, <2>3, <2>4
<1>5. Deliver(s, p) = [t |-> x, o |-> o]
  BY DEF Deliver, c
<1> HIDE DEF overlap, rest
<1>6. DOMAIN f = DOMAIN s.t.pending \ {p} /\ \A y \in DOMAIN f : f[y] = s.t.pending[y]
  BY DEF Drop
<1>7. /\ IsFiniteSet(Held(f)) /\ Cardinality(Held(f)) = s.t.pending_bytes - c.len
      /\ Cardinality(Held(f)) \in Nat
  <2>1. c.len \in Nat
    BY <1>2
  <2>2. IsFiniteSet(Held(f)) /\ Cardinality(Held(f)) = s.t.pending_bytes - c.len
    BY <1>1, <2>1, HeldDrop DEF c
  <2> QED
    BY <2>2, FS_CardinalityType
<1> HIDE DEF f
<1>8. /\ x \in Tcps(f) /\ x.pending = f /\ x.expected = s.t.expected + rest
      /\ x.synced = s.t.synced /\ x.gaps = s.t.gaps /\ x.pending_bytes = s.t.pending_bytes - c.len
  <2>1. s.t.expected + rest \in Int /\ s.t.retransmitted + overlap \in Nat
    BY <1>3, <1>4
  <2> QED
    BY <1>1, <1>7, <2>1 DEF Tcps
<1> HIDE DEF x
<1>9. Store(x, z)
  <2>1. IsFiniteSet(DOMAIN f)
    BY <1>1, <1>6, FS_Subset
  <2> QED
    BY <1>1, <1>4, <1>6, <1>7, <1>8, <2>1 DEF Store
<1>10. Run(o, t.expected + z, x.expected + z) /\ \A i \in 1..Len(o) : ~o[i].disc
  <2>1. Run(s.o, t.expected + z, s.t.expected + z) /\ \A i \in 1..Len(s.o) : ~s.o[i].disc
    BY DEF Rest
  <2>2. CASE rest = 0
    BY <1>3, <1>8, <2>1, <2>2
  <2>3. CASE rest # 0
    <3> DEFINE b == s.t.expected + z
               l == [src |-> b, len |-> rest, disc |-> FALSE]
               q == Append(s.o, l)
    <3>1. rest \in 1..MaxLen
      BY <1>4, <2>3
    <3>2. Run(q, t.expected + z, b + rest)
      <4> HIDE DEF b
      <4> QED
        BY <2>1, <3>1, RunAppend DEF b
    <3>3. q = o
      BY <1>4, <2>3
    <3>4. b + rest = x.expected + z
      BY <1>3, <1>4, <1>8
    <3>5. \A i \in 1..Len(q) : ~q[i].disc
      <4>1. s.o \in Seq(Chunks) /\ l.disc = FALSE
        BY <2>1 DEF Run
      <4> HIDE DEF l
      <4> QED
        BY <2>1, <4>1
    <3> HIDE DEF b, l, q
    <3> QED
      BY <3>2, <3>3, <3>4, <3>5
  <2> QED
    BY <2>2, <2>3
<1> HIDE DEF o
<1>11. \A y \in DOMAIN t.pending \ DOMAIN f : y + t.pending[y].len <= x.expected
  <2> SUFFICES ASSUME NEW y \in DOMAIN t.pending \ DOMAIN f
               PROVE  y + t.pending[y].len <= x.expected
    OBVIOUS
  <2>1. CASE y = p
    <3>1. t.pending[p] = c
      BY DEF Rest, c
    <3> QED
      BY <1>4, <1>8, <2>1, <3>1
  <2>2. CASE y # p
    <3>1. y \in DOMAIN t.pending \ DOMAIN s.t.pending
      BY <1>6, <2>2
    <3>2. y + t.pending[y].len <= s.t.expected
      BY <3>1 DEF Rest
    <3>3. y + t.pending[y].len \in Int
      BY DEF Store, Piece
    <3> DEFINE e == y + t.pending[y].len
    <3> HIDE DEF e
    <3>4. e <= x.expected
      BY <1>3, <1>4, <1>8, <3>2, <3>3 DEF e
    <3> QED
      BY <3>4 DEF e
  <2> QED
    BY <2>1, <2>2
<1>12. /\ x.synced = t.synced /\ x.gaps = t.gaps
       /\ DOMAIN f \subseteq DOMAIN t.pending
       /\ \A y \in DOMAIN f : f[y] = t.pending[y]
  BY <1>6, <1>8 DEF Rest
<1> DEFINE d == [t |-> x, o |-> o]
<1>13. d.t = x /\ d.o = o
  OBVIOUS
<1> HIDE DEF d
<1>14. Rest(d, t, z)
  <2>1. d = [t |-> d.t, o |-> d.o]
    BY DEF d
  <2> QED
    BY <1>8, <1>9, <1>10, <1>11, <1>12, <1>13, <2>1 DEF Rest
<1> QED
  BY <1>5, <1>6, <1>8, <1>13, <1>14 DEF d

\* A turn keeps what the earlier ones did; a turn that does nothing has no
\* chunk to give out left.
LEMMA Turned ==
    ASSUME NEW t, NEW z \in Nat, NEW s, Store(t, z), Rest(s, t, z),
           StreamLen \in Nat, MaxLen \in Nat
    PROVE  /\ Rest(Turn(s), t, z)
           /\ \/ /\ Turn(s) = s
                 /\ t.synced => \A p \in DOMAIN s.t.pending : p > s.t.expected
              \/ \E p \in DOMAIN s.t.pending :
                     DOMAIN Turn(s).t.pending = DOMAIN s.t.pending \ {p}
<1> DEFINE first == Least(DOMAIN s.t.pending)
           more == s.t.synced /\ DOMAIN s.t.pending # {} /\ first <= s.t.expected
<1>1. Store(s.t, z) /\ s.t.synced = t.synced
  BY DEF Rest
<1>2. s.t.expected \in Int /\ \A p \in DOMAIN s.t.pending : p \in Int
  BY <1>1 DEF Store, Tcps
<1>3. DOMAIN s.t.pending # {} =>
        first \in DOMAIN s.t.pending /\ \A p \in DOMAIN s.t.pending : first <= p
  BY <1>1, FirstIs
<1>4. Turn(s) = IF more THEN Deliver(s, first) ELSE s
  BY DEF Turn
<1> HIDE DEF first
<1>5. CASE more
  <2>1. t.synced /\ first \in DOMAIN s.t.pending /\ first <= s.t.expected
    BY <1>1, <1>3, <1>5
  <2>2. Rest(Deliver(s, first), t, z) /\ DOMAIN Deliver(s, first).t.pending = DOMAIN s.t.pending \ {first}
    BY <2>1, DeliverKeeps
  <2> QED
    BY <1>4, <1>5, <2>1, <2>2
<1>6. CASE ~more
  <2>1. Turn(s) = s
    BY <1>4, <1>6
  <2>2. ASSUME t.synced, NEW p \in DOMAIN s.t.pending PROVE p > s.t.expected
    <3>1. first \in Int /\ first <= p /\ ~(first <= s.t.expected)
      BY <1>1, <1>2, <1>3, <1>6, <2>2
    <3> QED
      BY <1>2, <3>1
  <2> QED
    BY <2>1, <2>2
<1> QED
  BY <1>5, <1>6

\* drain: everything that follows what was given out without a hole.
LEMMA Emptied ==
    ASSUME NEW t, NEW z \in Nat, Store(t, z), StreamLen \in Nat, MaxLen \in Nat
    PROVE  /\ Rest(drain(t), t, z)
           /\ t.synced => \A p \in DOMAIN drain(t).t.pending : p > drain(t).t.expected
<1> DEFINE size == Cardinality(DOMAIN t.pending)
           start == [t |-> t, o |-> <<>>]
<1>1. size \in Nat
  BY FS_CardinalityType DEF Store
<1>0. \E g : g = [k \in 0..size |-> IF k = 0 THEN start ELSE Turn(g[k - 1])]
  <2>1. \A u : \A b \in Nat : \E g : g = [k \in 0..b |-> IF k = 0 THEN u ELSE Turn(g[k - 1])]
    BY TurnsExist
  <2> HIDE DEF size, start
  <2>2. \A b \in Nat : \E g : g = [k \in 0..b |-> IF k = 0 THEN start ELSE Turn(g[k - 1])]
    BY <2>1
  <2> QED
    BY <1>1, <2>2
<1> DEFINE f == CHOOSE g : g = [k \in 0..size |-> IF k = 0 THEN start ELSE Turn(g[k - 1])]
<1>2. f = [k \in 0..size |-> IF k = 0 THEN start ELSE Turn(f[k - 1])]
  <2> HIDE DEF size, start
  <2> QED
    BY <1>0
<1> DEFINE times == {f[size].t.pending[p].time : p \in DOMAIN f[size].t.pending}
           m == IF times = {} THEN Unset ELSE Least(times)
<1>3. drain(t) = [f[size] EXCEPT !.t.first_micros = m]
  BY DEF drain
<1> HIDE DEF f
<1> DEFINE stop(s) == t.synced => \A p \in DOMAIN s.t.pending : p > s.t.expected
           left(s) == Cardinality(DOMAIN s.t.pending)
           G == {k \in 0..size : Rest(f[k], t, z) /\ (stop(f[k]) \/ left(f[k]) + k <= size)}
<1>4. 0 \in G
  <2>1. f[0] = start
    BY <1>1, <1>2
  <2>2. Rest(start, t, z)
    BY RestStart
  <2>3. left(start) + 0 <= size
    BY <1>1
  <2> QED
    BY <1>1, <2>1, <2>2, <2>3
<1>5. ASSUME NEW k \in 1..size, k - 1 \in G PROVE k \in G
  <2>1. k - 1 \in 0..size /\ k \in 0..size /\ k # 0
    BY <1>1
  <2> DEFINE s == f[k - 1]
  <2>2. f[k] = Turn(s)
    <3> HIDE DEF start, size
    <3> QED
      BY <1>2, <2>1
  <2>3. Rest(s, t, z) /\ (stop(s) \/ left(s) + (k - 1) <= size)
    BY <1>5
  <2> HIDE DEF s
  <2>4. /\ Rest(Turn(s), t, z)
        /\ \/ Turn(s) = s /\ stop(s)
           \/ \E p \in DOMAIN s.t.pending :
                  DOMAIN Turn(s).t.pending = DOMAIN s.t.pending \ {p}
    BY <2>3, Turned
  <2>5. CASE Turn(s) = s /\ stop(s)
    BY <2>1, <2>2, <2>3, <2>5
  <2>6. ASSUME NEW p \in DOMAIN s.t.pending,
               DOMAIN Turn(s).t.pending = DOMAIN s.t.pending \ {p}
        PROVE  k \in G
    <3>1. IsFiniteSet(DOMAIN s.t.pending)
      BY <2>3 DEF Rest, Store
    <3>2. /\ left(Turn(s)) = left(s) - 1
          /\ left(s) \in Nat
      BY <2>6, <3>1, FS_RemoveElement, FS_CardinalityType
    <3>3. CASE stop(s)
      <4>1. s.t.synced = t.synced
        BY <2>3 DEF Rest
      <4>2. ~(t.synced /\ p <= s.t.expected)
        <5>1. p \in Int /\ s.t.expected \in Int
          BY <2>3 DEF Rest, Store, Tcps
        <5> QED
          BY <3>3, <5>1
      <4>3. Turn(s) = s
        <5>1. Least(DOMAIN s.t.pending) \in DOMAIN s.t.pending
          BY <2>3, FirstIs DEF Rest
        <5>2. Least(DOMAIN s.t.pending) \in Int /\ s.t.expected \in Int
          BY <2>3, <5>1 DEF Rest, Store, Tcps
        <5>3. ~(t.synced /\ Least(DOMAIN s.t.pending) <= s.t.expected)
          BY <3>3, <5>1, <5>2
        <5> QED
          BY <4>1, <5>3 DEF Turn
      <4> QED
        BY <2>1, <2>2, <2>3, <3>3, <4>3
    <3>4. CASE left(s) + (k - 1) <= size
      <4>1. left(Turn(s)) + k <= size
        BY <1>1, <2>1, <3>2, <3>4
      <4> QED
        BY <2>1, <2>2, <2>4, <4>1
    <3> QED
      BY <2>3, <3>3, <3>4
  <2> QED
    BY <2>4, <2>5, <2>6
<1>6. Rest(f[size], t, z) /\ (stop(f[size]) \/ left(f[size]) + size <= size)
  <2>1. \A k \in 0..size : k \in G
    <3> HIDE DEF G, size
    <3> QED
      BY <1>1, <1>4, <1>5, Upwards
  <2>2. size \in 0..size
    BY <1>1
  <2> HIDE DEF size
  <2> QED
    BY <2>1, <2>2
<1> DEFINE s == f[size]
<1> HIDE DEF size, G
<1>7. stop(s)
  <2>1. IsFiniteSet(DOMAIN s.t.pending)
    BY <1>6 DEF Rest, Store
  <2>2. CASE left(s) + size <= size
    <3>1. left(s) = 0
      BY <1>1, <2>1, <2>2, FS_CardinalityType
    <3>2. DOMAIN s.t.pending = {}
      BY <2>1, <3>1, FS_EmptySet
    <3> QED
      BY <3>2
  <2> QED
    BY <1>6, <2>2
<1>8. m \in Nat \cup {Unset}
  <2>1. times \in SUBSET Nat
    BY <1>6 DEF Rest, Store, Piece
  <2>2. times \in SUBSET Int /\ 0 \in Int /\ \A y \in times : 0 <= y
    BY <2>1
  <2> HIDE DEF times
  <2>3. times # {} => Least(times) \in times
    BY <2>2, LeastIs
  <2> QED
    BY <2>1, <2>3
<1>9. drain(t) = [s EXCEPT !.t.first_micros = m]
  BY <1>3
<1> HIDE DEF s, m
<1> DEFINE u == [s.t EXCEPT !.first_micros = m]
           d == [t |-> u, o |-> s.o]
<1>10. s = [t |-> s.t, o |-> s.o] /\ s.t \in Tcps(s.t.pending)
  BY <1>6 DEF Rest, Store, s
<1>11. drain(t) = d
  BY <1>9, <1>10
<1>12. /\ u \in Tcps(s.t.pending) /\ u.pending = s.t.pending /\ u.expected = s.t.expected
       /\ u.synced = s.t.synced /\ u.gaps = s.t.gaps /\ u.pending_bytes = s.t.pending_bytes
  BY <1>8, <1>10 DEF Tcps
<1> HIDE DEF u
<1>13. Store(u, z)
  <2>1. Store(s.t, z)
    BY <1>6 DEF Rest, s
  <2> QED
    BY <1>12, <2>1 DEF Store
<1>14. d.t = u /\ d.o = s.o /\ d = [t |-> d.t, o |-> d.o]
  OBVIOUS
<1> HIDE DEF d
<1>15. Rest(d, t, z)
  <2>1. Rest(s, t, z)
    BY <1>6 DEF s
  <2> QED
    BY <1>12, <1>13, <1>14, <2>1 DEF Rest
<1> QED
  BY <1>7, <1>11, <1>12, <1>14, <1>15

-----------------------------------------------------------------------------
\* The first chunk of a run may be marked: what it gives out is the same.
LEMMA RunMarked ==
    ASSUME NEW o, NEW a, NEW b, Run(o, a, b), o # <<>>
    PROVE  /\ Run([o EXCEPT ![1].disc = TRUE], a, b)
           /\ [o EXCEPT ![1].disc = TRUE] # <<>>
           /\ [o EXCEPT ![1].disc = TRUE][1].disc = TRUE
<1> DEFINE q == [o EXCEPT ![1].disc = TRUE]
           c == [o[1] EXCEPT !.disc = TRUE]
<1>1. /\ o \in Seq(Chunks) /\ a \in Nat /\ b \in Nat /\ a <= b
      /\ o[1].src = a /\ End(o[Len(o)]) = b
      /\ \A i \in 2..Len(o) : o[i].src = End(o[i - 1]) /\ ~o[i].disc
      /\ \A i \in 1..Len(o) : a <= o[i].src /\ End(o[i]) <= b
      /\ \A i, j \in 1..Len(o) : i < j => End(o[i]) <= o[j].src
      /\ \A x \in a..(b - 1) : \E i \in 1..Len(o) : x \in Bytes(o[i])
  BY DEF Run
<1>2. Len(o) \in Nat /\ 1 \in 1..Len(o) /\ o[1] \in Chunks
  BY <1>1
<1>3. c \in Chunks /\ c.src = o[1].src /\ c.len = o[1].len /\ c.disc = TRUE
  BY <1>2 DEF Chunks
<1>4. End(c) = End(o[1]) /\ Bytes(c) = Bytes(o[1])
  BY <1>3 DEF End, Bytes
<1>5. q = [o EXCEPT ![1] = c]
  OBVIOUS
<1> HIDE DEF c
<1>6. q \in Seq(Chunks) /\ Len(q) = Len(o) /\ q[1] = c /\ \A i \in 1..Len(o) : i # 1 => q[i] = o[i]
  <2>1. o = [i \in 1..Len(o) |-> o[i]] /\ \A i \in 1..Len(o) : o[i] \in Chunks
    BY <1>1
  <2>2. q = [i \in 1..Len(o) |-> IF i = 1 THEN c ELSE o[i]]
    BY <1>2, <1>5, <2>1
  <2> HIDE DEF q
  <2>3. q \in [1..Len(o) -> Chunks]
    BY <1>3, <2>1, <2>2
  <2>4. q \in Seq(Chunks) /\ Len(q) = Len(o)
    BY <1>2, <2>3
  <2> QED
    BY <1>2, <2>2, <2>4
<1> HIDE DEF q
<1>7. \A i \in 1..Len(q) : q[i].src = o[i].src /\ End(q[i]) = End(o[i]) /\ Bytes(q[i]) = Bytes(o[i])
  BY <1>3, <1>4, <1>6
<1>8. \A i \in 2..Len(q) : q[i].disc = o[i].disc /\ i \in 1..Len(q) /\ i - 1 \in 1..Len(q)
  BY <1>2, <1>6
<1>9. q # <<>> /\ Len(q) \in 1..Len(q)
  BY <1>2, <1>6
<1>10. Run(q, a, b)
  <2>1. q[1].src = a /\ End(q[Len(q)]) = b
    BY <1>1, <1>2, <1>6, <1>7, <1>9
  <2>2. \A i \in 2..Len(q) : q[i].src = End(q[i - 1]) /\ ~q[i].disc
    BY <1>1, <1>6, <1>7, <1>8
  <2>3. \A i \in 1..Len(q) : a <= q[i].src /\ End(q[i]) <= b
    BY <1>1, <1>6, <1>7
  <2>4. \A i, j \in 1..Len(q) : i < j => End(q[i]) <= q[j].src
    BY <1>1, <1>6, <1>7
  <2>5. \A x \in a..(b - 1) : \E i \in 1..Len(q) : x \in Bytes(q[i])
    BY <1>1, <1>6, <1>7
  <2> QED
    BY <1>1, <1>6, <1>9, <2>1, <2>2, <2>3, <2>4, <2>5 DEF Run
<1> QED
  BY <1>3, <1>6, <1>9, <1>10 DEF q

\* Nothing buffered lies before what was given out.
Ahead(t) == t.synced => \A p \in DOMAIN t.pending : t.expected <= p

\* skip_gap: k is what it leaves and gives out, from true position a on.
Skips(k, t, a, z) ==
    /\ Store(k.t, z) /\ k.t.synced /\ Ahead(k.t)
    /\ a \in Nat /\ Run(k.o, a, k.t.expected + z) /\ k.o # <<>>
    /\ t.synced => t.expected + z <= a
    /\ k.o[1].disc <=> t.synced /\ a # t.expected + z
    /\ k.t.gaps = IF k.o[1].disc THEN t.gaps + 1 ELSE t.gaps
    /\ DOMAIN k.t.pending \subseteq DOMAIN t.pending
    /\ Cardinality(DOMAIN k.t.pending) + 1 <= Cardinality(DOMAIN t.pending)
    /\ \A p \in DOMAIN k.t.pending : k.t.pending[p] = t.pending[p]
    /\ \A p \in DOMAIN t.pending \ DOMAIN k.t.pending :
           a <= p + z /\ p + t.pending[p].len <= k.t.expected

\* skip_gap gives out a run that starts at the first chunk buffered, marked
\* exactly if there was a hole before it.
LEMMA Skipped ==
    ASSUME NEW t, NEW z \in Nat, Store(t, z), Ahead(t), DOMAIN t.pending # {},
           StreamLen \in Nat, MaxLen \in Nat
    PROVE  \E a \in Nat : Skips(skip_gap(t), t, a, z)
<1> DEFINE p == Least(DOMAIN t.pending)
           gap == t.synced /\ p > t.expected
           u == [t EXCEPT !.synced = TRUE, !.expected = p, !.gaps = IF gap THEN @ + 1 ELSE @]
           d == drain(u)
           k == skip_gap(t)
           a == p + z
<1>1. p \in DOMAIN t.pending /\ \A y \in DOMAIN t.pending : p <= y
  BY FirstIs
<1>2. /\ t \in Tcps(t.pending) /\ t.expected + z \in 0..StreamLen
      /\ IsFiniteSet(DOMAIN t.pending)
      /\ \A y \in DOMAIN t.pending : y \in Int /\ Piece(t.pending[y], y, z)
      /\ IsFiniteSet(Held(t.pending)) /\ t.pending_bytes = Cardinality(Held(t.pending))
  BY DEF Store
<1>3. k = IF gap /\ d.o # <<>> THEN [d EXCEPT !.o[1].disc = TRUE] ELSE d
  BY DEF skip_gap
<1> HIDE DEF p, k
<1>4. /\ p \in Int /\ a \in Nat /\ a <= StreamLen
      /\ t.pending[p].len \in 1..MaxLen
  BY <1>1, <1>2 DEF Piece, End
<1>5. t.expected \in Int /\ t.gaps \in Nat
  BY <1>2 DEF Tcps
<1>6. /\ u \in Tcps(t.pending) /\ u.pending = t.pending /\ u.expected = p /\ u.synced = TRUE
      /\ u.pending_bytes = t.pending_bytes
      /\ u.gaps = IF gap THEN t.gaps + 1 ELSE t.gaps
  <2> DEFINE g == IF gap THEN t.gaps + 1 ELSE t.gaps
  <2>1. g \in Nat
    BY <1>5
  <2>2. u = [t EXCEPT !.synced = TRUE, !.expected = p, !.gaps = g]
    OBVIOUS
  <2> HIDE DEF g, u, gap
  <2>3. /\ u \in Tcps(t.pending) /\ u.pending = t.pending /\ u.expected = p /\ u.synced = TRUE
        /\ u.pending_bytes = t.pending_bytes /\ u.gaps = g
    BY <1>2, <1>4, <2>1, <2>2 DEF Tcps
  <2> QED
    BY <2>3 DEF g
<1> HIDE DEF u
<1>7. Store(u, z)
  BY <1>2, <1>4, <1>6 DEF Store
<1>8. Rest(d, u, z) /\ \A y \in DOMAIN d.t.pending : y > d.t.expected
  BY <1>6, <1>7, Emptied
<1> HIDE DEF d
<1>9. /\ d = [t |-> d.t, o |-> d.o]
      /\ Store(d.t, z) /\ d.t.synced /\ d.t.gaps = u.gaps
      /\ Run(d.o, a, d.t.expected + z)
      /\ \A i \in 1..Len(d.o) : ~d.o[i].disc
      /\ DOMAIN d.t.pending \subseteq DOMAIN t.pending
      /\ \A y \in DOMAIN d.t.pending : d.t.pending[y] = t.pending[y]
      /\ \A y \in DOMAIN t.pending \ DOMAIN d.t.pending : y + t.pending[y].len <= d.t.expected
  BY <1>6, <1>8 DEF Rest
<1>10. d.t.expected \in Int /\ a <= d.t.expected + z
  BY <1>9 DEF Store, Tcps, Run
<1>11. p \notin DOMAIN d.t.pending
  <2>1. p <= d.t.expected
    BY <1>4, <1>10
  <2>2. ~(p > d.t.expected)
    BY <1>4, <1>10, <2>1
  <2> QED
    BY <1>8, <2>2
<1>12. d.o # <<>>
  <2>1. p + t.pending[p].len <= d.t.expected
    BY <1>1, <1>9, <1>11
  <2>2. a # d.t.expected + z
    BY <1>4, <1>10, <2>1
  <2> QED
    BY <1>9, <2>2 DEF Run
<1>13. Ahead(d.t)
  <2>1. \A y \in DOMAIN d.t.pending : y \in Int /\ d.t.expected \in Int
    BY <1>9, <1>10 DEF Store
  <2> QED
    BY <1>8, <2>1 DEF Ahead
<1>14. Cardinality(DOMAIN d.t.pending) + 1 <= Cardinality(DOMAIN t.pending)
  <2>1. /\ IsFiniteSet(DOMAIN t.pending \ {p})
        /\ Cardinality(DOMAIN t.pending \ {p}) = Cardinality(DOMAIN t.pending) - 1
    BY <1>1, <1>2, FS_RemoveElement
  <2>2. DOMAIN d.t.pending \subseteq DOMAIN t.pending \ {p}
    BY <1>9, <1>11
  <2>3. Cardinality(DOMAIN d.t.pending) <= Cardinality(DOMAIN t.pending \ {p})
    BY <2>1, <2>2, FS_Subset
  <2>4. /\ Cardinality(DOMAIN d.t.pending) \in Nat /\ Cardinality(DOMAIN t.pending) \in Nat
    BY <1>2, <1>9, FS_CardinalityType DEF Store
  <2> QED
    BY <2>1, <2>3, <2>4
<1>15. gap <=> t.synced /\ a # t.expected + z
  <2>1. t.synced => t.expected <= p
    BY <1>1 DEF Ahead
  <2> QED
    BY <1>4, <1>5, <2>1
<1>16. t.synced => t.expected + z <= a
  <2>1. t.synced => t.expected <= p
    BY <1>1 DEF Ahead
  <2> QED
    BY <1>4, <1>5, <2>1
<1>17. /\ k.t = d.t /\ k.o # <<>> /\ (k.o[1].disc <=> gap)
       /\ Run(k.o, a, d.t.expected + z)
  <2>1. CASE gap
    <3> DEFINE q == [d.o EXCEPT ![1].disc = TRUE]
    <3>1. k = [d EXCEPT !.o = q]
      BY <1>3, <1>12, <2>1
    <3>2. Run(q, a, d.t.expected + z) /\ q # <<>> /\ q[1].disc = TRUE
      BY <1>9, <1>12, RunMarked
    <3> HIDE DEF q
    <3>3. k.t = d.t /\ k.o = q
      BY <1>9, <3>1
    <3> QED
      BY <2>1, <3>2, <3>3
  <2>2. CASE ~gap
    <3>1. k = d
      BY <1>3, <2>2
    <3>2. 1 \in 1..Len(d.o)
      BY <1>9, <1>12 DEF Run
    <3> QED
      BY <1>9, <1>12, <2>2, <3>1, <3>2
  <2> QED
    BY <2>1, <2>2
<1>18. k.t.gaps = IF k.o[1].disc THEN t.gaps + 1 ELSE t.gaps
  BY <1>6, <1>9, <1>17
<1>19. \A y \in DOMAIN t.pending : a <= y + z
  BY <1>1, <1>2, <1>4
<1> HIDE DEF a, gap
<1>20. Skips(k, t, a, z)
  BY <1>4, <1>9, <1>13, <1>14, <1>15, <1>16, <1>17, <1>18, <1>19 DEF Skips, a
<1> QED
  BY <1>4, <1>20 DEF k, a

-----------------------------------------------------------------------------
\* The byte at x was given out, or is buffered.
Known(x, o, f) ==
    \/ \E i \in DOMAIN o : x \in Bytes(o[i])
    \/ \E p \in DOMAIN f : x \in Bytes(f[p])

\* o was given out and t is left, without a byte of H being lost.
Ready(o, t, z, H) ==
    /\ Store(t, z) /\ Ahead(t)
    /\ Told(o, t.expected + z, t.gaps)
    /\ ~t.synced => o = <<>>
    /\ \A x \in H : Known(x, o, t.pending)

\* What a run gives out follows what was given out before.
LEMMA Carried ==
    ASSUME NEW z \in Nat, NEW o, NEW t, NEW H, Ready(o, t, z, H),
           NEW r, NEW a \in Nat, Store(r.t, z), Ahead(r.t),
           Run(r.o, a, r.t.expected + z),
           o # <<>> => t.expected + z <= a,
           o # <<>> => (r.o = <<>> => a = t.expected + z),
           o # <<>> => (r.o # <<>> => (r.o[1].disc <=> a # t.expected + z)),
           r.t.gaps = IF r.o # <<>> /\ r.o[1].disc THEN t.gaps + 1 ELSE t.gaps,
           ~r.t.synced => o = <<>> /\ r.o = <<>>,
           DOMAIN r.t.pending \subseteq DOMAIN t.pending,
           \A p \in DOMAIN r.t.pending : r.t.pending[p] = t.pending[p],
           \A p \in DOMAIN t.pending \ DOMAIN r.t.pending :
               a <= p + z /\ p + t.pending[p].len <= r.t.expected
    PROVE  Ready(o \o r.o, r.t, z, H)
<1> DEFINE e == t.expected + z
           b == r.t.expected + z
           q == o \o r.o
           g == t.gaps
           h == IF r.o # <<>> /\ r.o[1].disc THEN g + 1 ELSE g
<1>1. Told(o, e, g) /\ Run(r.o, a, b)
  BY DEF Ready
<1>2. /\ o # <<>> => e <= a
      /\ o # <<>> => (r.o = <<>> => a = e)
      /\ o # <<>> => (r.o # <<>> => (r.o[1].disc <=> a # e))
  OBVIOUS
<1>3. r.t.gaps = h
  OBVIOUS
<1> DEFINE s == r.o
<1>4. /\ Told(q, b, h)
      /\ \A i \in DOMAIN o : \E k \in DOMAIN q : q[k] = o[i]
      /\ \A i \in DOMAIN r.o : \E k \in DOMAIN q : q[k] = r.o[i]
  <2> DEFINE c == IF s # <<>> /\ s[1].disc THEN g + 1 ELSE g
  <2> HIDE DEF e, b, g
  <2>1. Told(o, e, g) /\ Run(s, a, b)
    BY <1>1
  <2>2. /\ o # <<>> => e <= a
        /\ o # <<>> => (s = <<>> => a = e)
        /\ o # <<>> => (s # <<>> => (s[1].disc <=> a # e))
    BY <1>2
  <2>3. h = c /\ q = o \o s /\ r.o = s
    OBVIOUS
  <2> HIDE DEF s
  <2>4. /\ Told(o \o s, b, c)
        /\ \A i \in DOMAIN o : \E k \in DOMAIN (o \o s) : (o \o s)[k] = o[i]
        /\ \A i \in DOMAIN s : \E k \in DOMAIN (o \o s) : (o \o s)[k] = s[i]
    BY <2>1, <2>2, Joined
  <2> HIDE DEF c, h, q
  <2> QED
    BY <2>3, <2>4
<1> HIDE DEF q, h, e
<1>5. ASSUME NEW x \in H PROVE Known(x, q, r.t.pending)
  <2>1. Known(x, o, t.pending)
    BY DEF Ready
  <2>2. CASE \E i \in DOMAIN o : x \in Bytes(o[i])
    BY <1>4, <2>2 DEF Known
  <2>3. ASSUME NEW p \in DOMAIN t.pending, x \in Bytes(t.pending[p])
        PROVE  Known(x, q, r.t.pending)
    <3>1. CASE p \in DOMAIN r.t.pending
      BY <2>3, <3>1 DEF Known
    <3>2. CASE p \notin DOMAIN r.t.pending
      <4>1. a <= p + z /\ p + t.pending[p].len <= r.t.expected
        BY <3>2
      <4>2. /\ p \in Int /\ t.pending[p].src = p + z /\ t.pending[p].len \in Nat
            /\ r.t.expected \in Int
        <5>1. p \in Int /\ Piece(t.pending[p], p, z)
          BY DEF Ready, Store
        <5>2. t.pending[p].src = p + z /\ t.pending[p].len \in 1..MaxLen
          BY <5>1 DEF Piece
        <5>3. r.t \in Tcps(r.t.pending)
          BY DEF Store
        <5>4. r.t.expected \in Int
          BY <5>3 DEF Tcps
        <5> QED
          BY <5>1, <5>2, <5>4
      <4>3. x \in a..(b - 1)
        <5>1. x \in (p + z)..((p + z) + t.pending[p].len - 1)
          BY <2>3, <4>2 DEF Bytes
        <5> DEFINE l == t.pending[p].len
                   m == r.t.expected
        <5>2. a <= p + z /\ p + l <= m /\ p \in Int /\ l \in Nat /\ m \in Int
          BY <4>1, <4>2
        <5>3. x \in (p + z)..((p + z) + l - 1)
          BY <5>1
        <5> HIDE DEF l, m
        <5>4. x \in a..((m + z) - 1)
          BY <5>2, <5>3
        <5> QED
          BY <5>4 DEF m
      <4>4. PICK i \in 1..Len(r.o) : x \in Bytes(r.o[i])
        BY <1>1, <4>3 DEF Run
      <4>5. i \in DOMAIN r.o
        BY <1>1 DEF Run
      <4> QED
        BY <1>4, <4>4, <4>5 DEF Known
    <3> QED
      BY <3>1, <3>2
  <2> QED
    BY <2>1, <2>2, <2>3 DEF Known
<1>6. ~r.t.synced => q = <<>>
  BY DEF q
<1> QED
  BY <1>3, <1>4, <1>5, <1>6 DEF Ready, q

\* drain loses nothing.
LEMMA DrainReady ==
    ASSUME NEW z \in Nat, NEW o, NEW t, NEW H, Ready(o, t, z, H),
           StreamLen \in Nat, MaxLen \in Nat
    PROVE  /\ Ready(o \o drain(t).o, drain(t).t, z, H)
           /\ DOMAIN drain(t).t.pending \subseteq DOMAIN t.pending
<1> DEFINE d == drain(t)
           a == t.expected + z
<1>1. Store(t, z) /\ Ahead(t)
  BY DEF Ready
<1>2. Rest(d, t, z) /\ (t.synced => \A p \in DOMAIN d.t.pending : p > d.t.expected)
  BY <1>1, Emptied
<1> HIDE DEF d
<1>3. a \in Nat /\ t.expected \in Int /\ \A p \in DOMAIN t.pending : p \in Int
  BY <1>1 DEF Store, Tcps
<1>4. /\ Store(d.t, z) /\ d.t.synced = t.synced /\ d.t.gaps = t.gaps
      /\ Run(d.o, a, d.t.expected + z)
      /\ \A i \in 1..Len(d.o) : ~d.o[i].disc
      /\ DOMAIN d.t.pending \subseteq DOMAIN t.pending
      /\ \A p \in DOMAIN d.t.pending : d.t.pending[p] = t.pending[p]
      /\ \A p \in DOMAIN t.pending \ DOMAIN d.t.pending : p + t.pending[p].len <= d.t.expected
      /\ ~t.synced => d.o = <<>> /\ d.t.pending = t.pending
  BY <1>2 DEF Rest
<1>5. Ahead(d.t)
  <2>1. d.t.expected \in Int
    BY <1>4 DEF Store, Tcps
  <2> QED
    BY <1>2, <1>3, <1>4, <2>1 DEF Ahead
<1>6. d.o # <<>> => ~d.o[1].disc
  <2>1. d.o # <<>> => 1 \in 1..Len(d.o)
    BY <1>4 DEF Run
  <2> QED
    BY <1>4, <2>1
<1>7. /\ a <= a /\ (d.o = <<>> => a = t.expected + z)
      /\ d.o # <<>> => (d.o[1].disc <=> a # t.expected + z)
  BY <1>3, <1>6
<1>8. d.t.gaps = IF d.o # <<>> /\ d.o[1].disc THEN t.gaps + 1 ELSE t.gaps
  BY <1>4, <1>6
<1>9. ~d.t.synced => o = <<>> /\ d.o = <<>>
  BY <1>4 DEF Ready
<1>10. \A p \in DOMAIN t.pending \ DOMAIN d.t.pending :
           a <= p + z /\ p + t.pending[p].len <= d.t.expected
  <2> SUFFICES ASSUME NEW p \in DOMAIN t.pending \ DOMAIN d.t.pending
               PROVE  a <= p + z
    BY <1>4
  <2>1. t.synced
    BY <1>4
  <2>2. t.expected <= p
    BY <1>1, <2>1 DEF Ahead
  <2> QED
    BY <1>3, <2>2
<1>11. t.expected + z <= a
  BY <1>7
<1> HIDE DEF a
<1>12. Ready(o \o d.o, d.t, z, H)
  <2>1. /\ o # <<>> => t.expected + z <= a
        /\ o # <<>> => (d.o = <<>> => a = t.expected + z)
        /\ o # <<>> => (d.o # <<>> => (d.o[1].disc <=> a # t.expected + z))
    BY <1>7, <1>11
  <2> QED
    BY <1>3, <1>4, <1>5, <1>8, <1>9, <1>10, <2>1, Carried
<1> QED
  BY <1>4, <1>12 DEF d

\* Giving up a hole loses no byte that was buffered.
LEMMA SkipReady ==
    ASSUME NEW z \in Nat, NEW o, NEW t, NEW H, Ready(o, t, z, H),
           StreamLen \in Nat, MaxLen \in Nat
    PROVE  /\ Ready(o \o skip_gap(t).o, skip_gap(t).t, z, H)
           /\ \/ DOMAIN t.pending = {} /\ DOMAIN skip_gap(t).t.pending = {}
              \/ Cardinality(DOMAIN skip_gap(t).t.pending) + 1 <= Cardinality(DOMAIN t.pending)
<1> DEFINE k == skip_gap(t)
<1>1. CASE DOMAIN t.pending = {}
  <2>1. k = [t |-> t, o |-> <<>>]
    BY <1>1 DEF skip_gap
  <2> HIDE DEF k
  <2>2. k.t = t /\ k.o = <<>>
    BY <2>1
  <2>3. o \in Seq(Chunks)
    BY DEF Ready, Told
  <2>4. o \o k.o = o
    BY <2>2, <2>3
  <2>5. Ready(o \o k.o, k.t, z, H) /\ DOMAIN k.t.pending = {}
    BY <1>1, <2>2, <2>4
  <2> QED
    BY <1>1, <2>5 DEF k
<1>2. CASE DOMAIN t.pending # {}
  <2>1. Store(t, z) /\ Ahead(t) /\ (~t.synced => o = <<>>)
    BY DEF Ready
  <2>2. PICK a \in Nat : Skips(k, t, a, z)
    BY <1>2, <2>1, Skipped
  <2> HIDE DEF k
  <2>3. /\ Store(k.t, z) /\ k.t.synced /\ Ahead(k.t)
        /\ Run(k.o, a, k.t.expected + z) /\ k.o # <<>>
        /\ t.synced => t.expected + z <= a
        /\ k.o[1].disc <=> t.synced /\ a # t.expected + z
        /\ k.t.gaps = IF k.o[1].disc THEN t.gaps + 1 ELSE t.gaps
        /\ DOMAIN k.t.pending \subseteq DOMAIN t.pending
        /\ Cardinality(DOMAIN k.t.pending) + 1 <= Cardinality(DOMAIN t.pending)
        /\ \A p \in DOMAIN k.t.pending : k.t.pending[p] = t.pending[p]
        /\ \A p \in DOMAIN t.pending \ DOMAIN k.t.pending :
               a <= p + z /\ p + t.pending[p].len <= k.t.expected
    BY <2>2 DEF Skips
  <2>4. /\ o # <<>> => t.expected + z <= a
        /\ o # <<>> => (k.o = <<>> => a = t.expected + z)
        /\ o # <<>> => (k.o # <<>> => (k.o[1].disc <=> a # t.expected + z))
        /\ k.t.gaps = IF k.o # <<>> /\ k.o[1].disc THEN t.gaps + 1 ELSE t.gaps
        /\ ~k.t.synced => o = <<>> /\ k.o = <<>>
    BY <2>1, <2>3
  <2>5. Ready(o \o k.o, k.t, z, H)
    BY <2>3, <2>4, Carried
  <2> QED
    BY <2>3, <2>5 DEF k
<1> QED
  BY <1>1, <1>2

-----------------------------------------------------------------------------
\* Concatenation is associative.
LEMMA Joining == \A first, second, third \in Seq(Chunks) :
                     first \o (second \o third) = (first \o second) \o third
OBVIOUS

\* A chunk may be buffered at p: not before what was given out, and longer
\* than the one that is there.
Behind(t, p) == t.synced => t.expected <= p
Longer(t, p, c) == p \in DOMAIN t.pending => t.pending[p].len < c.len

\* A chunk is buffered behind what was given out, in an empty place or in that
\* of a shorter one.
LEMMA BufferReady ==
    ASSUME NEW z \in Nat, NEW o, NEW t, NEW H, Ready(o, t, z, H),
           NEW p \in Int, NEW c, Piece(c, p, z), Behind(t, p), Longer(t, p, c),
           StreamLen \in Nat, MaxLen \in Nat
    PROVE  /\ Ready(o, Buffer(t, p, c), z, H \cup Bytes(c))
           /\ DOMAIN Buffer(t, p, c).pending = DOMAIN t.pending \cup {p}
<1> DEFINE old == IF p \in DOMAIN t.pending THEN t.pending[p].len ELSE 0
           f == Stored(t.pending, p, c)
           n == t.pending_bytes - old + c.len
           b == [t EXCEPT !.pending = f, !.pending_bytes = n]
<1>1. /\ t \in Tcps(t.pending) /\ t.expected + z \in 0..StreamLen
      /\ IsFiniteSet(DOMAIN t.pending)
      /\ \A y \in DOMAIN t.pending : y \in Int /\ Piece(t.pending[y], y, z)
      /\ IsFiniteSet(Held(t.pending)) /\ t.pending_bytes = Cardinality(Held(t.pending))
  BY DEF Ready, Store
<1>2. Buffer(t, p, c) = b
  BY DEF Buffer
<1>3. /\ DOMAIN f = DOMAIN t.pending \cup {p} /\ f[p] = c
      /\ \A y \in DOMAIN t.pending : y # p => f[y] = t.pending[y]
  BY DEF Stored
<1>4. /\ old \in Nat /\ c.len \in Nat /\ old < c.len
      /\ p \in DOMAIN t.pending => t.pending[p].len = old
      /\ p \notin DOMAIN t.pending => old = 0
  <2>1. c.len \in Nat /\ 0 < c.len
    BY DEF Piece
  <2>2. CASE p \in DOMAIN t.pending
    <3>1. t.pending[p].len \in Nat
      BY <1>1, <2>2 DEF Piece
    <3> QED
      BY <2>1, <2>2, <3>1 DEF Longer
  <2>3. CASE p \notin DOMAIN t.pending
    BY <2>1, <2>3
  <2> QED
    BY <2>2, <2>3
<1> HIDE DEF old
<1>5. /\ IsFiniteSet(Held(f)) /\ Cardinality(Held(f)) = n /\ n \in Nat
  <2>1. IsFiniteSet(Held(f)) /\ Cardinality(Held(f)) = Cardinality(Held(t.pending)) - old + c.len
    BY <1>1, <1>4, HeldPut
  <2> QED
    BY <1>1, <2>1, FS_CardinalityType
<1> HIDE DEF f, n
<1>6. /\ b \in Tcps(f) /\ b.pending = f /\ b.pending_bytes = n /\ b.expected = t.expected
      /\ b.synced = t.synced /\ b.gaps = t.gaps
  BY <1>1, <1>5 DEF Tcps
<1> HIDE DEF b
<1>7. Store(b, z)
  <2>1. IsFiniteSet(DOMAIN f)
    BY <1>1, <1>3, FS_AddElement
  <2>2. ASSUME NEW y \in DOMAIN f PROVE y \in Int /\ Piece(f[y], y, z)
    BY <1>1, <1>3
  <2> QED
    BY <1>1, <1>5, <1>6, <2>1, <2>2 DEF Store
<1>8. Ahead(b)
  BY <1>3, <1>6 DEF Ahead, Ready, Behind
<1>9. ASSUME NEW x \in H \cup Bytes(c) PROVE Known(x, o, f)
  <2>1. CASE x \in Bytes(c)
    BY <1>3, <2>1 DEF Known
  <2>2. CASE x \in H
    <3>1. Known(x, o, t.pending)
      BY <2>2 DEF Ready
    <3>2. CASE \E i \in DOMAIN o : x \in Bytes(o[i])
      BY <3>2 DEF Known
    <3>3. ASSUME NEW y \in DOMAIN t.pending, x \in Bytes(t.pending[y])
          PROVE  Known(x, o, f)
      <4>1. CASE y # p
        BY <1>3, <3>3, <4>1 DEF Known
      <4>2. CASE y = p
        <5>1. /\ t.pending[p].src = p + z /\ c.src = p + z /\ p + z \in Int
              /\ t.pending[p].len < c.len /\ t.pending[p].len \in Int /\ c.len \in Int
          BY <1>1, <1>4, <4>2 DEF Piece
        <5> DEFINE l == t.pending[p].len
                   m == c.len
        <5>2. x \in (p + z)..((p + z) + l - 1)
          BY <3>3, <4>2, <5>1 DEF Bytes
        <5>3. l < m /\ l \in Int /\ m \in Int
          BY <5>1
        <5> HIDE DEF l, m
        <5>4. x \in (p + z)..((p + z) + m - 1)
          BY <5>1, <5>2, <5>3
        <5>5. x \in Bytes(c)
          BY <5>1, <5>4 DEF Bytes, m
        <5> QED
          BY <1>3, <5>5 DEF Known
      <4> QED
        BY <4>1, <4>2
    <3> QED
      BY <3>1, <3>2, <3>3 DEF Known
  <2> QED
    BY <2>1, <2>2
<1>10. Ready(o, b, z, H \cup Bytes(c))
  BY <1>6, <1>7, <1>8, <1>9 DEF Ready
<1> QED
  BY <1>2, <1>3, <1>6, <1>10

\* The start of the stream is set before anything was given out, not behind
\* anything buffered.
LEMMA SyncReady ==
    ASSUME NEW z \in Nat, NEW o, NEW t, NEW H, Ready(o, t, z, H), ~t.synced,
           NEW p \in Int, p + z \in 0..StreamLen, \A y \in DOMAIN t.pending : p <= y
    PROVE  Ready(o, [t EXCEPT !.synced = TRUE, !.expected = p], z, H)
<1> DEFINE s == [t EXCEPT !.synced = TRUE, !.expected = p]
<1>1. /\ t \in Tcps(t.pending)
      /\ IsFiniteSet(DOMAIN t.pending)
      /\ \A y \in DOMAIN t.pending : y \in Int /\ Piece(t.pending[y], y, z)
      /\ IsFiniteSet(Held(t.pending)) /\ t.pending_bytes = Cardinality(Held(t.pending))
  BY DEF Ready, Store
<1>2. /\ s \in Tcps(t.pending) /\ s.pending = t.pending /\ s.pending_bytes = t.pending_bytes
      /\ s.expected = p /\ s.synced = TRUE /\ s.gaps = t.gaps
  BY <1>1 DEF Tcps
<1> HIDE DEF s
<1>3. Store(s, z)
  BY <1>1, <1>2 DEF Store
<1>4. Ahead(s)
  BY <1>2 DEF Ahead
<1>5. Told(o, s.expected + z, s.gaps)
  <2>1. o = <<>> /\ Told(o, t.expected + z, t.gaps)
    BY DEF Ready
  <2>2. s.expected + z \in Nat
    BY <1>2
  <2>3. \A i \in 1..Len(o) : FALSE
    BY <2>1
  <2> QED
    BY <1>2, <2>1, <2>2, <2>3 DEF Told
<1>6. Ready(o, s, z, H)
  BY <1>2, <1>3, <1>4, <1>5 DEF Ready
<1> QED
  BY <1>6 DEF s

\* Guessing the start of a stream loses nothing.
LEMMA GuessReady ==
    ASSUME NEW z \in Nat, NEW o, NEW t, NEW H, Ready(o, t, z, H), NEW age,
           DOMAIN t.pending # {}, StreamLen \in Nat
    PROVE  Ready(o, Guess(t, age), z, H) /\ Guess(t, age).pending = t.pending
<1> DEFINE p == Least(DOMAIN t.pending)
           s == [t EXCEPT !.synced = TRUE, !.expected = p]
<1>1. Store(t, z)
  BY DEF Ready
<1>2. p \in DOMAIN t.pending /\ \A y \in DOMAIN t.pending : p <= y
  BY <1>1, FirstIs
<1>3. p \in Int /\ p + z \in 0..StreamLen
  BY <1>1, <1>2 DEF Store, Piece, End
<1>4. Guess(t, age) = t \/ (~t.synced /\ Guess(t, age) = s)
  BY DEF Guess
<1>5. s.pending = t.pending
  <2>1. t \in Tcps(t.pending)
    BY <1>1 DEF Store
  <2> HIDE DEF p
  <2> QED
    BY <2>1 DEF Tcps
<1>6. ASSUME ~t.synced PROVE Ready(o, s, z, H)
  <2> HIDE DEF p
  <2> QED
    BY <1>2, <1>3, <1>6, SyncReady
<1> HIDE DEF s
<1> QED
  BY <1>4, <1>5, <1>6

\* push of a segment with bytes that are not yet given out.
LEMMA AcceptReady ==
    ASSUME NEW z \in Nat, NEW o, NEW t, NEW H, Ready(o, t, z, H),
           NEW p \in Int, NEW c, Piece(c, p, z), t.synced => t.expected <= p,
           Cardinality(DOMAIN t.pending) <= MAX_PENDING_SEGMENTS,
           StreamLen \in Nat, MaxLen \in Nat, MAX_PENDING_SEGMENTS \in Nat
    PROVE  /\ Ready(o \o Accept(t, p, c).o, Accept(t, p, c).t, z, H \cup Bytes(c))
           /\ Cardinality(DOMAIN Accept(t, p, c).t.pending) <= MAX_PENDING_SEGMENTS
<1>0. ASSUME Longer(t, p, c)
      PROVE  /\ Ready(o, Buffer(t, p, c), z, H \cup Bytes(c))
             /\ DOMAIN Buffer(t, p, c).pending = DOMAIN t.pending \cup {p}
  <2>1. Behind(t, p)
    BY DEF Behind
  <2> QED
    BY <1>0, <2>1, BufferReady
<1> DEFINE r == Accept(t, p, c)
           known == p \in DOMAIN t.pending /\ t.pending[p].len >= c.len
           J == H \cup Bytes(c)
<1>1. CASE known
  <2> DEFINE m == IF t.first_micros = Unset THEN c.time ELSE t.first_micros
             n == t.retransmitted + c.len
             u == [t EXCEPT !.retransmitted = n, !.first_micros = m]
  <2>1. r = [t |-> u, o |-> <<>>]
    BY <1>1 DEF Accept
  <2>2. t \in Tcps(t.pending) /\ Store(t, z) /\ o \in Seq(Chunks)
    BY DEF Ready, Store, Told
  <2>3. m \in Nat \cup {Unset} /\ n \in Nat
    <3>1. c.time \in Nat /\ c.len \in Nat
      BY DEF Piece
    <3>2. t.retransmitted \in Nat /\ t.first_micros \in Nat \cup {Unset}
      BY <2>2 DEF Tcps
    <3> QED
      BY <3>1, <3>2
  <2> HIDE DEF m, n
  <2>4. /\ u \in Tcps(t.pending) /\ u.pending = t.pending /\ u.expected = t.expected
        /\ u.synced = t.synced /\ u.gaps = t.gaps /\ u.pending_bytes = t.pending_bytes
    BY <2>2, <2>3 DEF Tcps
  <2> HIDE DEF u, r
  <2>5. r.t = u /\ r.o = <<>>
    BY <2>1
  <2>6. o \o r.o = o
    BY <2>2, <2>5
  <2>7. ASSUME NEW x \in J PROVE Known(x, o, t.pending)
    <3>1. CASE x \in H
      BY <3>1 DEF Ready
    <3>2. CASE x \in Bytes(c)
      <4>1. /\ t.pending[p].src = p + z /\ c.src = p + z /\ p + z \in Int
            /\ t.pending[p].len >= c.len /\ t.pending[p].len \in Int /\ c.len \in Int
        BY <1>1, <2>2 DEF Piece, Store
      <4> DEFINE l == t.pending[p].len
                 k == c.len
      <4>2. x \in (p + z)..((p + z) + k - 1)
        BY <3>2, <4>1 DEF Bytes
      <4>3. k <= l /\ l \in Int /\ k \in Int
        BY <4>1
      <4> HIDE DEF l, k
      <4>4. x \in (p + z)..((p + z) + l - 1)
        BY <4>1, <4>2, <4>3
      <4>5. x \in Bytes(t.pending[p])
        BY <4>1, <4>4 DEF Bytes, l
      <4> QED
        BY <1>1, <4>5 DEF Known
    <3> QED
      BY <3>1, <3>2
  <2>8. Store(u, z) /\ Ahead(u)
    BY <2>2, <2>4 DEF Store, Ahead, Ready
  <2>9. Ready(o, u, z, J)
    BY <2>4, <2>7, <2>8 DEF Ready
  <2> QED
    BY <2>4, <2>5, <2>6, <2>9 DEF r
<1>2. CASE ~known
  <2> DEFINE start == IF t.first_micros = Unset THEN c.time ELSE t.first_micros
             age == IF c.time >= start THEN c.time - start ELSE 0
             b == Buffer(t, p, c)
             g == Guess(b, age)
             d == drain(g)
             k == skip_gap(d.t)
  <2>1. r = IF Overflowing(d.t, age) THEN [t |-> k.t, o |-> d.o \o k.o] ELSE d
    BY <1>2 DEF Accept
  <2>2. p \in DOMAIN t.pending => t.pending[p].len < c.len
    <3>1. p \in DOMAIN t.pending => t.pending[p].len \in Int /\ c.len \in Int
      BY DEF Ready, Store, Piece
    <3> QED
      BY <1>2, <3>1
  <2>3. Ready(o, b, z, J) /\ DOMAIN b.pending = DOMAIN t.pending \cup {p}
    <3>1. /\ Ready(o, Buffer(t, p, c), z, H \cup Bytes(c))
          /\ DOMAIN Buffer(t, p, c).pending = DOMAIN t.pending \cup {p}
      <4>1. Longer(t, p, c)
        BY <2>2 DEF Longer
      <4> QED
        BY <1>0, <4>1
    <3> QED
      BY <3>1
  <2> HIDE DEF J, b, age
  <2>4. Ready(o, g, z, J) /\ g.pending = b.pending
    BY <2>3, GuessReady
  <2> HIDE DEF g
  <2>5. Ready(o \o d.o, d.t, z, J) /\ DOMAIN d.t.pending \subseteq DOMAIN g.pending
    BY <2>4, DrainReady
  <2>6. Rest(d, g, z)
    BY <2>4, Emptied DEF Ready
  <2>7. /\ o \in Seq(Chunks) /\ d.o \in Seq(Chunks) /\ o \o d.o \in Seq(Chunks)
    BY <2>4, <2>5, <2>6 DEF Ready, Told, Rest, Run
  <2> HIDE DEF d
  <2>8. /\ Ready((o \o d.o) \o k.o, k.t, z, J)
        /\ \/ DOMAIN d.t.pending = {} /\ DOMAIN k.t.pending = {}
           \/ Cardinality(DOMAIN k.t.pending) + 1 <= Cardinality(DOMAIN d.t.pending)
    <3> DEFINE q == o \o d.o
    <3>1. Ready(q, d.t, z, J)
      BY <2>5
    <3> HIDE DEF q
    <3>2. /\ Ready(q \o k.o, k.t, z, J)
          /\ \/ DOMAIN d.t.pending = {} /\ DOMAIN k.t.pending = {}
             \/ Cardinality(DOMAIN k.t.pending) + 1 <= Cardinality(DOMAIN d.t.pending)
      BY <3>1, SkipReady
    <3> QED
      BY <3>2 DEF q
  <2>9. /\ Cardinality(DOMAIN d.t.pending) \in Nat /\ IsFiniteSet(DOMAIN d.t.pending)
        /\ Cardinality(DOMAIN d.t.pending) <= MAX_PENDING_SEGMENTS + 1
    <3>1. IsFiniteSet(DOMAIN t.pending) /\ IsFiniteSet(DOMAIN d.t.pending)
      BY <2>5 DEF Ready, Store
    <3>2. /\ IsFiniteSet(DOMAIN t.pending \cup {p})
          /\ Cardinality(DOMAIN t.pending \cup {p}) <= Cardinality(DOMAIN t.pending) + 1
      <4>1. /\ IsFiniteSet(DOMAIN t.pending \cup {p})
            /\ Cardinality(DOMAIN t.pending \cup {p}) =
                 IF p \in DOMAIN t.pending THEN Cardinality(DOMAIN t.pending)
                 ELSE Cardinality(DOMAIN t.pending) + 1
        BY <3>1, FS_AddElement
      <4> QED
        BY <3>1, <4>1, FS_CardinalityType
    <3>3. Cardinality(DOMAIN d.t.pending) <= Cardinality(DOMAIN t.pending \cup {p})
      BY <2>3, <2>4, <2>5, <3>2, FS_Subset
    <3>4. /\ Cardinality(DOMAIN t.pending) \in Nat /\ Cardinality(DOMAIN d.t.pending) \in Nat
          /\ Cardinality(DOMAIN t.pending \cup {p}) \in Nat
      BY <3>1, <3>2, FS_CardinalityType
    <3> QED
      BY <3>1, <3>2, <3>3, <3>4
  <2>10. CASE Overflowing(d.t, age)
    <3> HIDE DEF k, r
    <3>1. r.t = k.t /\ r.o = d.o \o k.o
      BY <2>1, <2>10
    <3>2. k.o \in Seq(Chunks)
      <4>1. Skips(k, d.t, 0, z) => k.o \in Seq(Chunks)
        BY DEF Skips, Run
      <4>2. CASE DOMAIN d.t.pending = {}
        BY <4>2 DEF skip_gap, k
      <4>3. CASE DOMAIN d.t.pending # {}
        <5>1. Store(d.t, z) /\ Ahead(d.t)
          BY <2>5 DEF Ready
        <5>2. PICK a \in Nat : Skips(skip_gap(d.t), d.t, a, z)
          BY <4>3, <5>1, Skipped
        <5> QED
          BY <5>2 DEF Skips, Run, k
      <4> QED
        BY <4>2, <4>3
    <3>3. o \o r.o = (o \o d.o) \o k.o
      <4> DEFINE u == d.o
                 v == k.o
      <4>1. r.o = u \o v /\ u \in Seq(Chunks) /\ v \in Seq(Chunks)
        BY <2>7, <3>1, <3>2
      <4> HIDE DEF u, v
      <4>2. o \o (u \o v) = (o \o u) \o v
        <5>1. o \in Seq(Chunks) /\ u \in Seq(Chunks) /\ v \in Seq(Chunks)
          BY <2>7, <4>1
        <5> QED
          BY <5>1, Joining
      <4> QED
        BY <4>1, <4>2 DEF u, v
    <3>4. Cardinality(DOMAIN k.t.pending) <= MAX_PENDING_SEGMENTS
      <4>1. IsFiniteSet(DOMAIN k.t.pending)
        BY <2>8 DEF Ready, Store
      <4>2. Cardinality(DOMAIN k.t.pending) \in Nat
        BY <4>1, FS_CardinalityType
      <4>3. CASE DOMAIN k.t.pending = {}
        BY <4>3, FS_EmptySet
      <4> QED
        BY <2>8, <2>9, <4>2, <4>3
    <3>5. Ready(o \o r.o, r.t, z, J)
      BY <2>8, <3>1, <3>3
    <3> QED
      BY <3>1, <3>4, <3>5 DEF r, J
  <2>11. CASE ~Overflowing(d.t, age)
    <3> HIDE DEF r
    <3>1. r = d
      BY <2>1, <2>11
    <3>2. Cardinality(DOMAIN d.t.pending) <= MAX_PENDING_SEGMENTS
      BY <2>9, <2>11 DEF Overflowing
    <3> QED
      BY <2>5, <3>1, <3>2 DEF r, J
  <2> QED
    BY <2>10, <2>11
<1> QED
  BY <1>1, <1>2

-----------------------------------------------------------------------------
\* What the proofs use of the assumption.
Sizes == /\ StreamLen \in Nat /\ MaxLen \in Nat /\ MAX_PENDING_SEGMENTS \in Nat
         /\ SeqSpace \in Nat \ {0} /\ Isn \in Nat

\* The sizes are what the assumption says.
LEMMA SizesHold == Sizes
<1>1. SeqSpace \in Nat /\ SeqSpace = 2 * Half /\ StreamLen < Half /\ StreamLen \in Nat
  BY ReassemblyAssumption
<1>2. Half \in Int
  BY <1>1 DEF Half
<1>3. SeqSpace # 0
  BY <1>1, <1>2
<1> QED
  BY <1>1, <1>3, ReassemblyAssumption DEF Sizes

\* The anchor is the sequence number of the stream's position `zero`; every byte
\* that came before its place was given up was given out, or is buffered there.
IInv ==
    /\ zero \in 0..StreamLen
    /\ anchor \in {Unset} \cup 0..(SeqSpace - 1)
    /\ anchor # Unset => anchor = (Isn + zero) % SeqSpace
    /\ anchor = Unset => /\ tcp.expected = 0 /\ DOMAIN tcp.pending = {} /\ ~tcp.synced
                        /\ out = <<>> /\ onTime = {}
    /\ Ready(out, tcp, zero, onTime)
    /\ Cardinality(DOMAIN tcp.pending) <= MAX_PENDING_SEGMENTS
    /\ finished => DOMAIN tcp.pending = {}
    /\ now \in Nat

\* A direction of which nothing was seen may be anchored anywhere.
LEMMA Unanchored ==
    ASSUME NEW z \in 0..StreamLen, NEW y \in 0..StreamLen, NEW t, NEW H,
           Ready(<<>>, t, y, H), t.expected = 0, DOMAIN t.pending = {}, H = {}, ~t.synced,
           StreamLen \in Nat
    PROVE  Ready(<<>>, t, z, H)
<1> DEFINE o == <<>>
<1>1. Store(t, z)
  BY DEF Ready, Store
<1>2. Told(o, t.expected + y, t.gaps)
  BY DEF Ready
<1>3. o = <<>> /\ \A i \in 1..Len(o) : FALSE
  OBVIOUS
<1>4. t.expected + z \in Nat
  OBVIOUS
<1>5. Told(o, t.expected + z, t.gaps)
  <2> HIDE DEF o
  <2> QED
    BY <1>2, <1>3, <1>4 DEF Told
<1> QED
  BY <1>1, <1>5 DEF Ready, Ahead

\* A direction of which nothing was seen.
LEMMA InitOk == Init => IInv
<1> SUFFICES ASSUME Init PROVE IInv
  OBVIOUS
<1>1. Sizes
  BY SizesHold
<1> DEFINE f == <<>>
           t == [synced |-> FALSE, expected |-> 0, pending |-> f,
                 pending_bytes |-> 0, first_micros |-> Unset, gaps |-> 0,
                 retransmitted |-> 0, late |-> 0]
<1>2. tcp = t
  BY DEF Init
<1>3. DOMAIN f = {}
  OBVIOUS
<1>4. Held(f) = {} /\ IsFiniteSet({}) /\ Cardinality({}) = 0
  BY <1>3, FS_EmptySet DEF Held
<1> HIDE DEF f
<1>5. /\ t \in Tcps(f) /\ t.pending = f /\ t.expected = 0 /\ t.pending_bytes = 0 /\ t.synced = FALSE
      /\ t.gaps = 0
  BY DEF Tcps
<1> HIDE DEF t
<1>6. Store(t, 0) /\ Ahead(t)
  <2>1. t.expected + 0 \in 0..StreamLen
    BY <1>1, <1>5 DEF Sizes
  <2>2. \A p \in DOMAIN t.pending : FALSE
    BY <1>3, <1>5
  <2>3. IsFiniteSet(DOMAIN t.pending)
    BY <1>3, <1>4, <1>5
  <2>4. IsFiniteSet(Held(t.pending)) /\ t.pending_bytes = Cardinality(Held(t.pending))
    BY <1>4, <1>5
  <2> QED
    BY <1>5, <2>1, <2>2, <2>3, <2>4 DEF Store, Ahead
<1> DEFINE o == <<>>
<1>7. o \in Seq(Chunks) /\ DOMAIN o = {} /\ Len(o) = 0
  OBVIOUS
<1>8. out = o /\ onTime = {} /\ zero = 0 /\ anchor = Unset /\ now = 0 /\ finished = FALSE
  BY DEF Init
<1>9. Breaks(o) = {}
  BY <1>7 DEF Breaks
<1>10. Told(o, t.expected + 0, t.gaps)
  <2>1. o = <<>> /\ (\A i \in 1..Len(o) : FALSE) /\ \A i \in 2..Len(o) : FALSE
    BY <1>7
  <2> HIDE DEF o
  <2> QED
    BY <1>4, <1>5, <1>7, <1>9, <2>1 DEF Told
<1>11. Ready(o, t, 0, {})
  BY <1>5, <1>6, <1>10 DEF Ready
<1> QED
  BY <1>1, <1>2, <1>3, <1>4, <1>5, <1>8, <1>11 DEF IInv, Sizes

\* push preserves the invariant, whatever it is called with.
LEMMA PushOk == IInv /\ Push => IInv'
<1> SUFFICES ASSUME IInv, NEW at \in 0..StreamLen, NEW len \in 0..MaxLen, NEW syn \in BOOLEAN,
                    NEW dt \in 0..MaxStep, ~finished, at + len <= StreamLen, syn => at = 0,
                    now' = now + dt, push(at, len, syn, now + dt), UNCHANGED finished
             PROVE  IInv'
  BY DEF Push
<1>0. Sizes /\ MaxStep \in Nat
  BY SizesHold, ReassemblyAssumption
<1> DEFINE time == now + dt
           sequence == (Isn + at) % SeqSpace
           a == IF anchor = Unset THEN sequence ELSE anchor
           z == IF anchor = Unset THEN at ELSE zero
           position == Unwrap(sequence, a, tcp.expected)
           t0 == IF syn /\ ~tcp.synced
                 THEN [tcp EXCEPT !.synced = TRUE, !.expected = position] ELSE tcp
           start == IF len > 0 /\ t0.synced /\ position < t0.expected
                    THEN Min2(t0.expected - position, len) ELSE 0
           t1 == [t0 EXCEPT !.retransmitted = @ + start,
                            !.late = IF t0.gaps > 0 THEN @ + start ELSE @]
           c == [src |-> at + start, len |-> len - start, time |-> time]
           r == IF start = len THEN [t |-> t1, o |-> <<>>] ELSE Accept(t1, position + start, c)
           H == onTime \cup (at + start)..(at + len - 1)
<1>1. /\ anchor' = a /\ zero' = z /\ tcp' = r.t /\ out' = out \o r.o /\ onTime' = H
  BY DEF push
<1>2. time \in Nat /\ now' = time
  BY <1>0 DEF IInv
<1> HIDE DEF time
<1>3. Ready(out, tcp, zero, onTime) /\ zero \in 0..StreamLen
  BY DEF IInv
<1>4. z \in 0..StreamLen /\ z \in Nat /\ at \in Nat
  BY <1>0, <1>3 DEF Sizes
<1>5. Ready(out, tcp, z, onTime)
  <2>1. CASE anchor = Unset
    <3>1. /\ tcp.expected = 0 /\ DOMAIN tcp.pending = {} /\ ~tcp.synced
          /\ out = <<>> /\ onTime = {} /\ z = at
      BY <2>1 DEF IInv
    <3>2. StreamLen \in Nat
      BY <1>0 DEF Sizes
    <3>3. Ready(<<>>, tcp, zero, onTime)
      BY <1>3, <3>1
    <3>4. Ready(<<>>, tcp, z, onTime)
      BY <1>3, <1>4, <3>1, <3>2, <3>3, Unanchored
    <3> QED
      BY <3>1, <3>4
  <2>2. CASE anchor # Unset
    BY <1>3, <2>2
  <2> QED
    BY <2>1, <2>2
<1>6. a = (Isn + z) % SeqSpace
  BY DEF IInv
<1>7. Store(tcp, z) /\ Ahead(tcp)
  BY <1>5 DEF Ready
<1>8. tcp \in Tcps(tcp.pending) /\ tcp.expected + z \in 0..StreamLen /\ tcp.expected \in Int
  BY <1>7 DEF Store, Tcps
<1>9. position = at - z
  <2> HIDE DEF z
  <2>1. Unwrap((Isn + at) % SeqSpace, (Isn + z) % SeqSpace, tcp.expected) = at - z
    BY <1>4, <1>8, UnwrapIs
  <2> HIDE DEF a
  <2> QED
    BY <1>6, <2>1
<1> HIDE DEF z, position, a, sequence
<1>10. position \in Int /\ position + z = at
  BY <1>4, <1>9
<1>11. /\ Ready(out, t0, z, onTime) /\ t0.pending = tcp.pending
  <2>1. CASE syn /\ ~tcp.synced
    <3> DEFINE s == [tcp EXCEPT !.synced = TRUE, !.expected = position]
    <3>1. at = 0 /\ t0 = s
      BY <2>1
    <3>2. \A y \in DOMAIN tcp.pending : position <= y
      <4>1. ASSUME NEW y \in DOMAIN tcp.pending PROVE position <= y
        <5>1. y \in Int /\ y + z \in Nat
          BY <1>7 DEF Store, Piece
        <5> QED
          BY <1>4, <1>9, <3>1, <5>1
      <4> QED
        BY <4>1
    <3>3. Ready(out, s, z, onTime)
      <4>1. position + z \in 0..StreamLen
        BY <1>0, <1>10
      <4> QED
        BY <1>4, <1>5, <1>10, <2>1, <3>2, <4>1, SyncReady
    <3>4. s.pending = tcp.pending
      BY <1>8 DEF Tcps
    <3> HIDE DEF s, t0
    <3> QED
      BY <3>1, <3>3, <3>4
  <2>2. CASE ~(syn /\ ~tcp.synced)
    BY <1>5, <2>2
  <2> QED
    BY <2>1, <2>2
<1> HIDE DEF t0
<1>12. /\ t0 \in Tcps(tcp.pending) /\ t0.expected \in Int /\ Store(t0, z) /\ Ahead(t0)
  BY <1>11 DEF Ready, Store, Tcps
<1>13. /\ start \in 0..len /\ len \in Nat
       /\ start # len => (t0.synced => t0.expected <= position + start)
  <2>1. len \in Nat
    BY <1>0 DEF Sizes
  <2>2. CASE len > 0 /\ t0.synced /\ position < t0.expected
    BY <1>10, <1>12, <2>1, <2>2 DEF Min2
  <2>3. CASE ~(len > 0 /\ t0.synced /\ position < t0.expected)
    BY <1>10, <1>12, <2>1, <2>3
  <2> QED
    BY <2>1, <2>2, <2>3
<1> HIDE DEF start
<1>14. /\ t1 \in Tcps(tcp.pending) /\ t1.pending = tcp.pending /\ t1.expected = t0.expected
       /\ t1.synced = t0.synced /\ t1.gaps = t0.gaps /\ t1.pending_bytes = t0.pending_bytes
  <2> DEFINE n == t0.retransmitted + start
             m == IF t0.gaps > 0 THEN t0.late + start ELSE t0.late
  <2>1. n \in Nat /\ m \in Nat
    BY <1>12, <1>13 DEF Tcps
  <2>2. t1 = [t0 EXCEPT !.retransmitted = n, !.late = m]
    OBVIOUS
  <2> HIDE DEF n, m, t1
  <2> QED
    BY <1>12, <2>1, <2>2 DEF Tcps
<1> HIDE DEF t1
<1>15. Ready(out, t1, z, onTime)
  <2>1. Store(t1, z) /\ Ahead(t1)
    BY <1>11, <1>12, <1>14 DEF Store, Ahead
  <2> QED
    BY <1>11, <1>14, <2>1 DEF Ready
<1>16. /\ Ready(out \o r.o, r.t, z, H)
       /\ Cardinality(DOMAIN r.t.pending) <= MAX_PENDING_SEGMENTS
  <2>1. CASE start = len
    <3>1. r.t = t1 /\ r.o = <<>>
      BY <2>1
    <3>2. out \in Seq(Chunks)
      BY <1>5 DEF Ready, Told
    <3> HIDE DEF r
    <3>3. out \o r.o = out
      BY <3>1, <3>2
    <3>4. H = onTime
      BY <1>4, <1>13, <2>1
    <3>5. Cardinality(DOMAIN tcp.pending) <= MAX_PENDING_SEGMENTS
      BY DEF IInv
    <3> HIDE DEF H
    <3> QED
      BY <1>14, <1>15, <3>1, <3>3, <3>4, <3>5
  <2>2. CASE start # len
    <3> DEFINE p == position + start
    <3>1. r = Accept(t1, p, c)
      BY <2>2
    <3>2. p \in Int /\ c.src = p + z /\ c.src \in Nat /\ c.src = at + start
          /\ c.len = len - start /\ c.len \in 1..MaxLen /\ c.time \in Nat
          /\ c.src + c.len = at + len
      BY <1>0, <1>2, <1>4, <1>10, <1>13, <2>2 DEF Sizes
    <3> HIDE DEF c, p
    <3>3. Piece(c, p, z)
      BY <3>2 DEF Piece, End
    <3>4. H = onTime \cup Bytes(c)
      BY <3>2 DEF Bytes
    <3>5. t1.synced => t1.expected <= p
      BY <1>13, <1>14, <2>2 DEF p
    <3>6. Cardinality(DOMAIN t1.pending) <= MAX_PENDING_SEGMENTS
      BY <1>14 DEF IInv
    <3>7. StreamLen \in Nat /\ MaxLen \in Nat /\ MAX_PENDING_SEGMENTS \in Nat
      BY <1>0 DEF Sizes
    <3> HIDE DEF H, r
    <3>8. /\ Ready(out \o Accept(t1, p, c).o, Accept(t1, p, c).t, z, onTime \cup Bytes(c))
          /\ Cardinality(DOMAIN Accept(t1, p, c).t.pending) <= MAX_PENDING_SEGMENTS
      BY <1>4, <1>15, <3>2, <3>3, <3>5, <3>6, <3>7, AcceptReady
    <3> QED
      BY <3>1, <3>4, <3>8
  <2> QED
    BY <2>1, <2>2
<1> HIDE DEF r, H
<1>17. a \in 0..(SeqSpace - 1) /\ a # Unset
  <2>1. Isn + z \in Int /\ SeqSpace \in Nat \ {0}
    BY <1>0, <1>4 DEF Sizes
  <2>2. a \in 0..(SeqSpace - 1)
    BY <1>6, <2>1, Division
  <2> QED
    BY <2>2 DEF Unset
<1> QED
  BY <1>1, <1>2, <1>4, <1>6, <1>16, <1>17 DEF IInv

\* finish preserves it, and leaves nothing buffered.
LEMMA FinishOk == IInv /\ Finish => IInv'
<1> DEFINE size == Cardinality(DOMAIN tcp.pending)
           begin == [t |-> tcp, o |-> <<>>]
           f == CHOOSE g : g = [k \in 0..size |-> IF k = 0 THEN begin ELSE SkipNext(g[k - 1])]
<1>1. SUFFICES ASSUME IInv, finished', tcp' = f[size].t, out' = out \o f[size].o,
                      UNCHANGED <<anchor, now, pushes, onTime, zero>>
               PROVE  IInv'
  BY DEF Finish
<1>2. Sizes
  BY SizesHold
<1>3. Ready(out, tcp, zero, onTime) /\ zero \in Nat /\ IsFiniteSet(DOMAIN tcp.pending)
  <2>1. Ready(out, tcp, zero, onTime) /\ zero \in 0..StreamLen
    BY <1>1 DEF IInv
  <2>2. zero \in Nat
    BY <1>2, <2>1 DEF Sizes
  <2>3. IsFiniteSet(DOMAIN tcp.pending)
    BY <2>1 DEF Ready, Store
  <2> QED
    BY <2>1, <2>2, <2>3
<1>4. size \in Nat
  BY <1>3, FS_CardinalityType
<1>5. f = [k \in 0..size |-> IF k = 0 THEN begin ELSE SkipNext(f[k - 1])]
  <2>1. \A u : \A b \in Nat : \E g : g = [k \in 0..b |-> IF k = 0 THEN u ELSE SkipNext(g[k - 1])]
    BY SkipsExist
  <2> HIDE DEF size, begin
  <2>2. \A b \in Nat : \E g : g = [k \in 0..b |-> IF k = 0 THEN begin ELSE SkipNext(g[k - 1])]
    BY <2>1
  <2>3. \E g : g = [k \in 0..size |-> IF k = 0 THEN begin ELSE SkipNext(g[k - 1])]
    BY <1>4, <2>2
  <2> QED
    BY <2>3
<1> HIDE DEF f
<1> DEFINE left(s) == Cardinality(DOMAIN s.t.pending)
           good(s) == /\ s.o \in Seq(Chunks) /\ Ready(out \o s.o, s.t, zero, onTime)
           G == {k \in 0..size : good(f[k]) /\ (DOMAIN f[k].t.pending = {} \/ left(f[k]) + k <= size)}
<1>6. 0 \in G
  <2>1. f[0] = begin
    <3> HIDE DEF begin, size
    <3> QED
      BY <1>4, <1>5
  <2> DEFINE o == <<>>
  <2>2. out \in Seq(Chunks) /\ o \in Seq(Chunks)
    BY <1>3 DEF Ready, Told
  <2>3. out \o o = out
    BY <2>2
  <2>4. begin.t = tcp /\ begin.o = o
    OBVIOUS
  <2>5. good(begin) /\ left(begin) + 0 <= size
    <3> HIDE DEF o
    <3> QED
      BY <1>3, <1>4, <2>2, <2>3, <2>4
  <2> HIDE DEF begin
  <2> QED
    BY <1>4, <2>1, <2>5
<1>7. ASSUME NEW k \in 1..size, k - 1 \in G PROVE k \in G
  <2>1. k - 1 \in 0..size /\ k \in 0..size /\ k # 0
    BY <1>4
  <2> DEFINE s == f[k - 1]
             j == skip_gap(s.t)
             n == SkipNext(s)
  <2>2. f[k] = n
    <3> HIDE DEF begin, size
    <3> QED
      BY <1>5, <2>1
  <2>3. good(s) /\ (DOMAIN s.t.pending = {} \/ left(s) + (k - 1) <= size)
    BY <1>7
  <2> HIDE DEF s
  <2>4. n = [t |-> j.t, o |-> s.o \o j.o]
    BY DEF SkipNext
  <2>5. /\ Ready((out \o s.o) \o j.o, j.t, zero, onTime)
        /\ \/ DOMAIN s.t.pending = {} /\ DOMAIN j.t.pending = {}
           \/ Cardinality(DOMAIN j.t.pending) + 1 <= Cardinality(DOMAIN s.t.pending)
    <3> DEFINE q == out \o s.o
    <3>1. Ready(q, s.t, zero, onTime)
      BY <2>3
    <3>2. StreamLen \in Nat /\ MaxLen \in Nat
      BY <1>2 DEF Sizes
    <3> HIDE DEF q, j
    <3>3. /\ Ready(q \o skip_gap(s.t).o, skip_gap(s.t).t, zero, onTime)
          /\ \/ DOMAIN s.t.pending = {} /\ DOMAIN skip_gap(s.t).t.pending = {}
             \/ Cardinality(DOMAIN skip_gap(s.t).t.pending) + 1 <= Cardinality(DOMAIN s.t.pending)
      BY <1>3, <3>1, <3>2, SkipReady
    <3> QED
      BY <3>3 DEF q, j
  <2>6. j.o \in Seq(Chunks)
    <3>1. CASE DOMAIN s.t.pending = {}
      BY <3>1 DEF skip_gap
    <3>2. CASE DOMAIN s.t.pending # {}
      <4>1. Store(s.t, zero) /\ Ahead(s.t)
        BY <2>3 DEF Ready
      <4>2. PICK a \in Nat : Skips(j, s.t, a, zero)
        BY <1>2, <1>3, <3>2, <4>1, Skipped DEF Sizes
      <4> QED
        BY <4>2 DEF Skips, Run
    <3> QED
      BY <3>1, <3>2
  <2> HIDE DEF j, n
  <2>7. n.t = j.t /\ n.o = s.o \o j.o
    BY <2>4
  <2>8. good(n)
    <3> DEFINE u == s.o
               v == j.o
    <3>1. n.o = u \o v /\ u \in Seq(Chunks) /\ v \in Seq(Chunks) /\ out \in Seq(Chunks)
      BY <1>3, <2>3, <2>6, <2>7 DEF Ready, Told
    <3>2. Ready((out \o u) \o v, n.t, zero, onTime)
      BY <2>5, <2>7
    <3> HIDE DEF u, v
    <3>3. out \o (u \o v) = (out \o u) \o v
      BY <3>1, Joining
    <3>4. u \o v \in Seq(Chunks)
      BY <3>1
    <3> QED
      BY <3>1, <3>2, <3>3, <3>4
  <2>9. DOMAIN n.t.pending = {} \/ left(n) + k <= size
    <3>1. CASE DOMAIN s.t.pending = {}
      <4>1. IsFiniteSet(DOMAIN j.t.pending)
        BY <2>5 DEF Ready, Store
      <4>2. Cardinality(DOMAIN s.t.pending) = 0 /\ Cardinality(DOMAIN j.t.pending) \in Nat
        BY <3>1, <4>1, FS_EmptySet, FS_CardinalityType
      <4> QED
        BY <2>5, <2>7, <4>2
    <3>2. CASE left(s) + (k - 1) <= size
      <4>1. IsFiniteSet(DOMAIN j.t.pending) /\ IsFiniteSet(DOMAIN s.t.pending)
        BY <2>3, <2>5 DEF Ready, Store
      <4>2. left(s) \in Nat /\ left(n) \in Nat
        BY <2>7, <4>1, FS_CardinalityType
      <4> HIDE DEF size
      <4> QED
        BY <1>4, <2>5, <2>7, <3>2, <4>2
    <3> QED
      BY <2>3, <3>1, <3>2
  <2> QED
    BY <2>1, <2>2, <2>8, <2>9
<1>8. good(f[size]) /\ DOMAIN f[size].t.pending = {}
  <2>1. \A k \in 0..size : k \in G
    <3> HIDE DEF G, size
    <3> QED
      BY <1>4, <1>6, <1>7, Upwards
  <2>2. size \in 0..size
    BY <1>4
  <2> DEFINE s == f[size]
  <2>3. good(s) /\ (DOMAIN s.t.pending = {} \/ left(s) + size <= size)
    BY <2>1, <2>2
  <2> HIDE DEF s
  <2>4. DOMAIN s.t.pending = {}
    <3>1. CASE left(s) + size <= size
      <4>1. IsFiniteSet(DOMAIN s.t.pending)
        BY <2>3 DEF Ready, Store
      <4>2. left(s) \in Nat
        BY <4>1, FS_CardinalityType
      <4>3. left(s) = 0
        BY <1>4, <3>1, <4>2
      <4> QED
        BY <4>1, <4>3, FS_EmptySet
    <3> QED
      BY <2>3, <3>1
  <2> QED
    BY <2>3, <2>4 DEF s
<1>9. Ready(out', tcp', zero', onTime') /\ DOMAIN tcp'.pending = {}
  BY <1>1, <1>8
<1>10. out = <<>> /\ DOMAIN tcp.pending = {} => tcp' = tcp /\ out' = out
  <2>1. ASSUME out = <<>>, DOMAIN tcp.pending = {} PROVE tcp' = tcp /\ out' = out
    <3>1. size = 0
      BY <2>1, FS_EmptySet
    <3>2. f[0] = begin
      <4> HIDE DEF begin, size
      <4> QED
        BY <1>4, <1>5
    <3>3. f[size] = begin
      BY <3>1, <3>2
    <3>4. tcp' = tcp /\ out' = out \o <<>>
      BY <1>1, <3>3
    <3> QED
      BY <2>1, <3>4
  <2> QED
    BY <2>1
<1>11. Cardinality(DOMAIN tcp'.pending) <= MAX_PENDING_SEGMENTS
  <2>1. Cardinality(DOMAIN tcp'.pending) = 0
    BY <1>9, FS_EmptySet
  <2> QED
    BY <1>2, <2>1 DEF Sizes
<1>12. UNCHANGED <<anchor, now, zero, onTime>>
  BY <1>1
<1> HIDE DEF f, size, begin
<1> QED
  BY <1>1, <1>9, <1>10, <1>11, <1>12 DEF IInv

\* Every step preserves the invariant.
LEMMA Preserved == IInv /\ [Next]_vars => IInv'
<1>1. IInv /\ UNCHANGED vars => IInv'
  BY DEF IInv, vars, Ready, Store, Ahead, Told, Known, Tcps, Held, Piece, Breaks
<1> QED
  BY <1>1, PushOk, FinishOk DEF Next

\* The inductive invariant holds in every reachable state of a direction: its
\* buffer, its account, its anchor and what the decoder was given.
THEOREM ReassemblyInvariant == Spec => []IInv
<1>1. Init => IInv
  BY InitOk
<1>2. IInv /\ [Next]_vars => IInv'
  BY Preserved
<1> QED
  BY <1>1, <1>2, PTL DEF Spec

\* What was told is faithful.
LEMMA Faithful == IInv => DeliveryIsFaithful
<1> SUFFICES ASSUME IInv PROVE DeliveryIsFaithful
  OBVIOUS
<1>1. Told(out, tcp.expected + zero, tcp.gaps)
  BY DEF IInv, Ready
<1>2. /\ DOMAIN out = 1..Len(out)
      /\ \A i, j \in 1..Len(out) : i < j => End(out[i]) <= out[j].src
      /\ \A i \in 2..Len(out) : out[i].disc <=> out[i].src # End(out[i - 1])
      /\ tcp.gaps = Cardinality(Breaks(out))
  BY <1>1 DEF Told
<1>3. DeliveredInOrder
  BY <1>2 DEF DeliveredInOrder, End
<1>4. HolesAreMarked
  BY <1>2 DEF HolesAreMarked, End, Breaks
<1> QED
  BY <1>3, <1>4 DEF DeliveryIsFaithful

\* Whatever is lost, repeated, cut or reordered in the capture, the decoder is
\* given the bytes in order, none twice, and is told of every hole and of
\* holes only, and `gaps` counts them: push, drain, skip_gap and finish.
THEOREM ReassemblyDeliversTheStream == Spec => []DeliveryIsFaithful
<1>1. IInv => DeliveryIsFaithful
  BY Faithful
<1> QED
  BY <1>1, ReassemblyInvariant, PTL

\* And nothing known is forgotten.
LEMMA Kept == IInv => NothingForgotten
<1> SUFFICES ASSUME IInv PROVE NothingForgotten
  OBVIOUS
<1>1. Ready(out, tcp, zero, onTime)
  BY DEF IInv
<1>2. /\ tcp \in Tcps(tcp.pending)
      /\ \A p \in DOMAIN tcp.pending : p \in Int /\ Piece(tcp.pending[p], p, zero)
      /\ tcp.pending_bytes = Cardinality(Held(tcp.pending))
  BY <1>1 DEF Ready, Store
<1>3. out \in Seq(Chunks)
  BY <1>1 DEF Ready, Told
<1>4. TypeOK
  <2>1. /\ tcp.synced \in BOOLEAN /\ tcp.expected \in Int
        /\ {tcp.pending_bytes, tcp.gaps, tcp.retransmitted, tcp.late} \subseteq Nat
        /\ tcp.first_micros \in Nat \cup {Unset}
    BY <1>2 DEF Tcps
  <2>2. \A p \in DOMAIN tcp.pending : p \in Int /\ tcp.pending[p].len \in 1..MaxLen
    BY <1>2 DEF Piece
  <2>3. \A i \in DOMAIN out : out[i].len \in 1..MaxLen /\ out[i].disc \in BOOLEAN
    <3>1. \A i \in DOMAIN out : out[i] \in Chunks
      BY <1>3
    <3> QED
      BY <3>1 DEF Chunks
  <2>4. anchor \in {Unset} \cup 0..(SeqSpace - 1)
    BY DEF IInv
  <2> QED
    BY <2>1, <2>2, <2>3, <2>4 DEF TypeOK
<1>5. ASSUME NEW x \in onTime PROVE x \in Delivered \cup Buffered
  <2>1. Known(x, out, tcp.pending)
    BY <1>1 DEF Ready
  <2> QED
    BY <2>1 DEF Known, Delivered, Buffered
<1>6. finished => Buffered = {}
  BY DEF IInv, Buffered
<1>7. \A p \in DOMAIN tcp.pending : tcp.pending[p].src = p + zero
  BY <1>2 DEF Piece
<1>8. Cardinality(DOMAIN tcp.pending) <= MAX_PENDING_SEGMENTS
  BY DEF IInv
<1> QED
  BY <1>2, <1>4, <1>5, <1>6, <1>7, <1>8 DEF NothingForgotten

\* A byte that arrives before its place was given up is delivered or buffered at
\* its true position across the wrap, nothing stays behind after finish, the
\* byte account is exact, and the segment limit holds after every call.
THEOREM ReassemblyForgetsNothing == Spec => []NothingForgotten
<1>1. IInv => NothingForgotten
  BY Kept
<1> QED
  BY <1>1, ReassemblyInvariant, PTL

-----------------------------------------------------------------------------
(* ConnectionsDoNotMix, of the TCP half of Capture::frame.  A connection in *)
(* the table has a number of its own, and the stages of that number have    *)
(* kept what was sent on it (Apart).  Each function of Capture is a lemma:  *)
(* what it reads leaves the table's connections what they are (Reads), and  *)
(* a frame leaves the one of its endpoints that it belongs to (Handles).    *)

IsSeq(q) == \E S : q \in Seq(S)

CaptureFields == {"states", "routes", "bindings", "sample", "warnings", "connections",
                  "completed", "next_connection"}

StageFields == {"key", "numbers", "extended", "pending", "codec", "mixed", "session",
                "duplicates", "events", "spool", "limited", "truncated", "rtcp", "warnings"}

\* A packet of the n-th connection of its endpoints.
Stamped(m, n) == "instance" \in DOMAIN m /\ m.instance = n

StageShape(s) == DOMAIN s = StageFields /\ IsSeq(s.spool)

\* All that a stage has kept is of the n-th connection.
From(s, n) ==
    /\ \A a \in DOMAIN s.spool : s.spool[a].instance = n
    /\ s.pending # None => Stamped(s.pending, n)

\* What of a stage matters here stays.
Untouched(s, t) ==
    StageShape(t) /\ t.key = s.key /\ t.spool = s.spool /\ t.pending = s.pending

Shape(c) ==
    /\ DOMAIN c = CaptureFields /\ IsSeq(c.states)
    /\ \A i \in DOMAIN c.states : StageShape(c.states[i])

\* A route leads to a stage of its flow.
Routed(c) ==
    \A f \in DOMAIN c.routes :
        c.routes[f] \in DOMAIN c.states /\ c.states[c.routes[f]].key = f

LEMMA AppendIs ==
    ASSUME NEW q, IsSeq(q), NEW x
    PROVE  /\ IsSeq(Append(q, x)) /\ Len(q) \in Nat /\ DOMAIN q = 1..Len(q)
           /\ Len(Append(q, x)) = Len(q) + 1
           /\ DOMAIN Append(q, x) = DOMAIN q \cup {Len(q) + 1}
           /\ Len(q) + 1 \notin DOMAIN q
           /\ Append(q, x)[Len(q) + 1] = x
           /\ \A a \in DOMAIN q : Append(q, x)[a] = q[a]
<1>1. PICK S : q \in Seq(S)
  BY DEF IsSeq
<1>2. PICK T : T = S \cup {x}
  OBVIOUS
<1>3. q \in Seq(T) /\ x \in T
  <2>1. Len(q) \in Nat /\ q \in [1..Len(q) -> S]
    BY <1>1, LenProperties
  <2>2. q \in [1..Len(q) -> T]
    BY <1>2, <2>1
  <2> QED
    BY <1>2, <2>1, <2>2, SeqDef
<1>4. PICK p : p = Append(q, x)
  OBVIOUS
<1>5. /\ p \in Seq(T) /\ Len(p) = Len(q) + 1 /\ p[Len(q) + 1] = x
      /\ \A a \in 1..Len(q) : p[a] = q[a]
  BY <1>3, <1>4, AppendProperties
<1>6. /\ Len(q) \in Nat /\ DOMAIN q = 1..Len(q)
      /\ DOMAIN p = 1..Len(p)
  BY <1>3, <1>5, LenProperties
<1>7. DOMAIN p = DOMAIN q \cup {Len(q) + 1} /\ Len(q) + 1 \notin DOMAIN q
  BY <1>5, <1>6
<1> QED
  BY <1>4, <1>5, <1>6, <1>7 DEF IsSeq

LEMMA ReplaceIs ==
    ASSUME NEW q, IsSeq(q), NEW i \in DOMAIN q, NEW x
    PROVE  LET p == [q EXCEPT ![i] = x]
           IN  /\ IsSeq(p) /\ DOMAIN p = DOMAIN q /\ p[i] = x /\ Len(p) = Len(q)
               /\ \A a \in DOMAIN q : a # i => p[a] = q[a]
<1>1. PICK S : q \in Seq(S)
  BY DEF IsSeq
<1>2. PICK T, p : T = S \cup {x} /\ p = [q EXCEPT ![i] = x]
  OBVIOUS
<1>3. Len(q) \in Nat /\ DOMAIN q = 1..Len(q) /\ q \in [1..Len(q) -> S]
  BY <1>1, LenProperties
<1>4. DOMAIN p = 1..Len(q) /\ p[i] = x /\ (\A a \in DOMAIN q : a # i => p[a] = q[a])
      /\ p \in [1..Len(q) -> T]
  BY <1>2, <1>3
<1>5. p \in Seq(T) /\ Len(p) = Len(q)
  <2>1. p \in Seq(T)
    BY <1>3, <1>4, SeqDef
  <2>2. Len(p) \in Nat /\ DOMAIN p = 1..Len(p)
    BY <2>1, LenProperties
  <2>3. Len(p) = Len(q)
    BY <1>3, <1>4, <2>2
  <2> QED
    BY <2>1, <2>3
<1> QED
  BY <1>2, <1>3, <1>4, <1>5 DEF IsSeq

-----------------------------------------------------------------------------
LEMMA UntouchedFrom ==
    ASSUME NEW s, NEW t, Untouched(s, t), NEW n, From(s, n)
    PROVE  From(t, n)
BY DEF Untouched, From

\* Codec, events, session and warnings touch nothing that matters here.
LEMMA RecodedIs ==
    ASSUME NEW s, StageShape(s), NEW codec
    PROVE  Untouched(s, Recoded(s, codec))
<1>1. CASE codec = None
  BY <1>1 DEF Recoded, Untouched
<1>2. CASE codec # None /\ s.codec # None /\ s.codec # codec
  <2>1. Recoded(s, codec) = [s EXCEPT !.codec = codec, !.mixed = TRUE,
                                      !.warnings = @ \cup {"mixed_codec"}]
    BY <1>2 DEF Recoded
  <2> QED
    BY <2>1 DEF Untouched, StageShape, StageFields
<1>3. CASE codec # None /\ s.codec = None
  <2>1. Recoded(s, codec) = [s EXCEPT !.codec = codec, !.warnings = @ \cup {"late_codec"}]
    BY <1>3 DEF Recoded
  <2> QED
    BY <2>1 DEF Untouched, StageShape, StageFields
<1>4. CASE codec # None /\ s.codec = codec
  BY <1>4 DEF Recoded, Untouched
<1> QED
  BY <1>1, <1>2, <1>3, <1>4

LEMMA TimelineIs ==
    ASSUME NEW s, StageShape(s), NEW r
    PROVE  Untouched(s, Timeline(s, r))
<1>1. /\ Untouched(s, s)
      /\ Untouched(s, [s EXCEPT !.events = @ + 1])
      /\ Untouched(s, [s EXCEPT !.warnings = @ \cup {"timeline_cut"}])
  BY DEF Untouched, StageShape, StageFields
<1> QED
  BY <1>1 DEF Timeline

\* What changed is in stage i, and that has kept nothing of another connection
\* than the n-th.
Alters(c, d, i, n) ==
    /\ Shape(d) /\ DOMAIN d.states = DOMAIN c.states /\ Len(d.states) = Len(c.states)
    /\ d.connections = c.connections /\ d.routes = c.routes
    /\ d.next_connection = c.next_connection
    /\ \A j \in DOMAIN c.states : j # i => d.states[j] = c.states[j]
    /\ d.states[i].key = c.states[i].key /\ From(d.states[i], n)

LEMMA AltersOn ==
    ASSUME NEW c, NEW d, NEW e, NEW i, NEW n, Alters(c, d, i, n), Alters(d, e, i, n)
    PROVE  Alters(c, e, i, n)
BY DEF Alters

\* A stage put in the place of another.
LEMMA PutAlters ==
    ASSUME NEW c, Shape(c), NEW i \in DOMAIN c.states, NEW n, NEW t, StageShape(t),
           t.key = c.states[i].key, From(t, n)
    PROVE  /\ Alters(c, [c EXCEPT !.states[i] = t], i, n)
           /\ [c EXCEPT !.states[i] = t].states[i] = t
<1>1. PICK d, q : q = [c.states EXCEPT ![i] = t] /\ d = [c EXCEPT !.states[i] = t]
  OBVIOUS
<1>2. /\ DOMAIN d = CaptureFields /\ d.states = q /\ d.connections = c.connections
      /\ d.routes = c.routes /\ d.next_connection = c.next_connection
  BY <1>1 DEF Shape, CaptureFields
<1>3. /\ IsSeq(q) /\ DOMAIN q = DOMAIN c.states /\ q[i] = t /\ Len(q) = Len(c.states)
      /\ \A a \in DOMAIN c.states : a # i => q[a] = c.states[a]
  BY <1>1, ReplaceIs DEF Shape
<1>4. Shape(d)
  <2>1. \A j \in DOMAIN q : StageShape(q[j])
    BY <1>3 DEF Shape
  <2> QED
    BY <1>2, <1>3, <2>1 DEF Shape
<1> QED
  BY <1>1, <1>2, <1>3, <1>4 DEF Alters

\* The same with another number of what is in the sample.
LEMMA SampleAlters ==
    ASSUME NEW c, Shape(c), NEW i \in DOMAIN c.states, NEW n, NEW t, StageShape(t),
           t.key = c.states[i].key, From(t, n), NEW x
    PROVE  Alters(c, [c EXCEPT !.states[i] = t, !.sample = x], i, n)
<1>1. PICK d : d = [c EXCEPT !.states[i] = t]
  OBVIOUS
<1>2. Alters(c, d, i, n)
  BY <1>1, PutAlters
<1>3. PICK e : e = [c EXCEPT !.states[i] = t, !.sample = x]
  OBVIOUS
<1>4. e = [d EXCEPT !.sample = x]
  BY <1>1, <1>3
<1>5. /\ DOMAIN e = CaptureFields /\ e.states = d.states /\ e.connections = d.connections
      /\ e.routes = d.routes /\ e.next_connection = d.next_connection
  BY <1>2, <1>4 DEF Alters, Shape, CaptureFields
<1>6. Shape(e)
  BY <1>2, <1>5 DEF Alters, Shape
<1> QED
  BY <1>2, <1>3, <1>5, <1>6 DEF Alters

LEMMA SpooledAlters ==
    ASSUME NEW c, Shape(c), NEW i \in DOMAIN c.states, NEW n, From(c.states[i], n),
           NEW r, r.instance = n
    PROVE  Alters(c, Spooled(c, i, r), i, n)
<1> DEFINE s == c.states[i]
<1>1. StageShape(s)
  BY DEF Shape
<1>2. CASE s.limited
  <2>1. Spooled(c, i, r) = c
    BY <1>2 DEF Spooled
  <2> QED
    BY <2>1 DEF Alters
<1>3. CASE ~s.limited /\ c.sample + r.size > MaxSample
  <2>1. PICK t : t = [s EXCEPT !.limited = TRUE, !.truncated = TRUE,
                               !.warnings = @ \cup {"sample_limit"}]
    OBVIOUS
  <2>2. Untouched(s, t)
    BY <1>1, <2>1 DEF Untouched, StageShape, StageFields
  <2>3. Spooled(c, i, r) = [c EXCEPT !.states[i] = t]
    BY <1>1, <1>3, <2>1 DEF Spooled, Shape, CaptureFields, StageShape, StageFields
  <2>4. From(t, n) /\ StageShape(t) /\ t.key = s.key
    BY <2>2, UntouchedFrom DEF Untouched
  <2> QED
    BY <2>3, <2>4, PutAlters
<1>4. CASE ~s.limited /\ ~(c.sample + r.size > MaxSample)
  <2>1. PICK q : q = Append(s.spool, r)
    OBVIOUS
  <2>2. PICK t : t = [s EXCEPT !.spool = q]
    OBVIOUS
  <2>3. /\ DOMAIN t = StageFields /\ t.spool = q /\ t.key = s.key /\ t.pending = s.pending
    BY <1>1, <2>2 DEF StageShape, StageFields
  <2>4. /\ IsSeq(q) /\ DOMAIN q = DOMAIN s.spool \cup {Len(s.spool) + 1}
        /\ q[Len(s.spool) + 1] = r /\ \A a \in DOMAIN s.spool : q[a] = s.spool[a]
    BY <1>1, <2>1, AppendIs DEF StageShape
  <2>5. StageShape(t) /\ From(t, n)
    BY <2>3, <2>4 DEF StageShape, From
  <2>6. Spooled(c, i, r) = [c EXCEPT !.states[i] = t, !.sample = c.sample + r.size]
    <3>1. Spooled(c, i, r) = [c EXCEPT !.states[i].spool = Append(@, r), !.sample = @ + r.size]
      BY <1>4 DEF Spooled
    <3> QED
      BY <2>1, <2>2, <3>1
  <2>7. PICK x : x = c.sample + r.size
    OBVIOUS
  <2>8. Alters(c, [c EXCEPT !.states[i] = t, !.sample = x], i, n)
    BY <2>3, <2>5, SampleAlters
  <2> QED
    BY <2>6, <2>7, <2>8
<1> QED
  BY <1>2, <1>3, <1>4

LEMMA ObserveAlters ==
    ASSUME NEW c, Shape(c), NEW i \in DOMAIN c.states, NEW n, From(c.states[i], n),
           NEW m, Stamped(m, n), NEW codec
    PROVE  Alters(c, Observe(c, i, m, codec), i, n)
<1>1. PICK s0, r : /\ s0 = Recoded(c.states[i], codec)
                   /\ r = [m EXCEPT !.extended = Extend(c.states[i].extended, m.seq)]
  OBVIOUS
<1>2. PICK s : s = [s0 EXCEPT !.extended = IF r.extended > @ THEN r.extended ELSE @]
  OBVIOUS
<1>3. PICK t : t = [Timeline(s, r) EXCEPT !.numbers = @ \cup {r.extended}]
  OBVIOUS
<1>4. Observe(c, i, m, codec) =
        IF r.extended \in s.numbers
        THEN [c EXCEPT !.states[i] = [s EXCEPT !.duplicates = @ + 1]]
        ELSE Spooled([c EXCEPT !.states[i] = t], i, r)
  BY <1>1, <1>2, <1>3 DEF Observe
<1>5. r.instance = n
  BY <1>1 DEF Stamped
<1>6. StageShape(s) /\ s.key = c.states[i].key /\ From(s, n)
  <2>1. Untouched(c.states[i], s0)
    BY <1>1, RecodedIs DEF Shape
  <2>2. PICK x : s = [s0 EXCEPT !.extended = x]
    BY <1>2
  <2>3. Untouched(s0, s)
    BY <2>1, <2>2 DEF Untouched, StageShape, StageFields
  <2> QED
    BY <2>1, <2>3, UntouchedFrom DEF Untouched
<1>7. StageShape(t) /\ t.key = s.key /\ From(t, n)
  <2>1. Untouched(s, Timeline(s, r))
    BY <1>6, TimelineIs
  <2>2. Untouched(Timeline(s, r), t)
    BY <1>3, <2>1 DEF Untouched, StageShape, StageFields
  <2> QED
    BY <1>6, <2>1, <2>2, UntouchedFrom DEF Untouched
<1>8. CASE r.extended \in s.numbers
  <2>1. PICK u : u = [s EXCEPT !.duplicates = @ + 1]
    OBVIOUS
  <2>2. Untouched(s, u)
    BY <1>6, <2>1 DEF Untouched, StageShape, StageFields
  <2>3. StageShape(u) /\ u.key = c.states[i].key /\ From(u, n)
    BY <1>6, <2>2, UntouchedFrom DEF Untouched
  <2>4. Alters(c, [c EXCEPT !.states[i] = u], i, n)
    BY <2>3, PutAlters
  <2> QED
    BY <1>4, <1>8, <2>1, <2>4
<1>9. CASE r.extended \notin s.numbers
  <2>1. PICK d : d = [c EXCEPT !.states[i] = t]
    OBVIOUS
  <2>2. Alters(c, d, i, n)
    BY <1>6, <1>7, <2>1, PutAlters
  <2>3. Shape(d) /\ i \in DOMAIN d.states /\ From(d.states[i], n)
    BY <2>2 DEF Alters
  <2>4. Alters(d, Spooled(d, i, r), i, n)
    BY <1>5, <2>3, SpooledAlters
  <2> QED
    BY <1>4, <1>9, <2>1, <2>2, <2>4, AltersOn
<1> QED
  BY <1>8, <1>9

-----------------------------------------------------------------------------
\* What changed is in stages of the flow key, and those have kept nothing of
\* another connection than the n-th.
Feeds(c, d, key, n) ==
    /\ Shape(d) /\ Routed(d)
    /\ d.connections = c.connections /\ d.next_connection = c.next_connection
    /\ \A j \in DOMAIN d.states :
          \/ j \in DOMAIN c.states /\ d.states[j] = c.states[j]
          \/ d.states[j].key = key /\ From(d.states[j], n)

LEMMA FeedsOn ==
    ASSUME NEW c, NEW d, NEW e, NEW key, NEW n, Feeds(c, d, key, n), Feeds(d, e, key, n)
    PROVE  Feeds(c, e, key, n)
BY DEF Feeds

LEMMA AltersFeeds ==
    ASSUME NEW c, Shape(c), Routed(c), NEW i \in DOMAIN c.states, NEW n, NEW d,
           Alters(c, d, i, n)
    PROVE  Feeds(c, d, c.states[i].key, n)
<1>1. \A j \in DOMAIN c.states : d.states[j].key = c.states[j].key
  BY DEF Alters
<1>2. Routed(d)
  BY <1>1 DEF Alters, Routed
<1> QED
  BY <1>2 DEF Alters, Feeds

LEMMA WarnFeeds ==
    ASSUME NEW c, Shape(c), Routed(c), NEW w, NEW key, NEW n
    PROVE  Feeds(c, Warn(c, w), key, n)
<1>1. PICK d : d = Warn(c, w)
  OBVIOUS
<1>2. /\ DOMAIN d = CaptureFields /\ d.states = c.states /\ d.connections = c.connections
      /\ d.routes = c.routes /\ d.next_connection = c.next_connection
  BY <1>1 DEF Warn, Shape, CaptureFields
<1>3. Shape(d) /\ Routed(d)
  BY <1>2 DEF Shape, Routed
<1> QED
  BY <1>1, <1>2, <1>3 DEF Feeds

LEMMA WarnStageAlters ==
    ASSUME NEW c, Shape(c), NEW i \in DOMAIN c.states, NEW n, From(c.states[i], n), NEW w
    PROVE  /\ Alters(c, WarnStage(c, i, w), i, n)
           /\ WarnStage(c, i, w).states[i].pending = c.states[i].pending
<1>1. PICK t : t = [c.states[i] EXCEPT !.warnings = @ \cup {w}]
  OBVIOUS
<1>2. Untouched(c.states[i], t)
  BY <1>1 DEF Untouched, Shape, StageShape, StageFields
<1>3. StageShape(t) /\ t.key = c.states[i].key /\ From(t, n) /\ t.pending = c.states[i].pending
  BY <1>2, UntouchedFrom DEF Untouched
<1>4. WarnStage(c, i, w) = [c EXCEPT !.states[i] = t]
  BY <1>1 DEF WarnStage
<1>5. /\ Alters(c, [c EXCEPT !.states[i] = t], i, n)
      /\ [c EXCEPT !.states[i] = t].states[i] = t
  BY <1>3, PutAlters
<1> QED
  BY <1>3, <1>4, <1>5

LEMMA PendingAlters ==
    ASSUME NEW c, Shape(c), NEW i \in DOMAIN c.states, NEW n, From(c.states[i], n),
           NEW r, r # None => Stamped(r, n)
    PROVE  Alters(c, [c EXCEPT !.states[i].pending = r], i, n)
<1>1. PICK t : t = [c.states[i] EXCEPT !.pending = r]
  OBVIOUS
<1>2. StageShape(t) /\ t.key = c.states[i].key /\ From(t, n)
  <2>1. StageShape(c.states[i])
    BY DEF Shape
  <2>2. /\ DOMAIN t = StageFields /\ t.key = c.states[i].key
        /\ t.spool = c.states[i].spool /\ t.pending = r
    BY <1>1, <2>1 DEF StageShape, StageFields
  <2> QED
    BY <2>1, <2>2 DEF StageShape, From
<1>3. Alters(c, [c EXCEPT !.states[i] = t], i, n)
  BY <1>2, PutAlters
<1> QED
  BY <1>1, <1>3

LEMMA SessionAlters ==
    ASSUME NEW c, Shape(c), NEW i \in DOMAIN c.states, NEW n, From(c.states[i], n), NEW x
    PROVE  Alters(c, [c EXCEPT !.states[i].session = x], i, n)
<1>1. PICK t : t = [c.states[i] EXCEPT !.session = x]
  OBVIOUS
<1>2. Untouched(c.states[i], t)
  BY <1>1 DEF Untouched, Shape, StageShape, StageFields
<1>3. StageShape(t) /\ t.key = c.states[i].key /\ From(t, n)
  BY <1>2, UntouchedFrom DEF Untouched
<1>4. Alters(c, [c EXCEPT !.states[i] = t], i, n)
  BY <1>3, PutAlters
<1> QED
  BY <1>1, <1>4

\* d is c with one stage more, that the flow key is routed to.
Opens(c, d, key, n) ==
    LET j == Len(c.states) + 1
    IN  /\ Feeds(c, d, key, n) /\ Len(d.states) = j /\ j \in DOMAIN d.states
        /\ d.states[j].key = key /\ From(d.states[j], n)
        /\ key \in DOMAIN d.routes /\ d.routes[key] = j
        /\ \A l \in DOMAIN c.states : l \in DOMAIN d.states /\ l # j
                                      /\ d.states[l] = c.states[l]

LEMMA OpenedFeeds ==
    ASSUME NEW c, Shape(c), Routed(c), NEW key, NEW r, NEW codec, NEW n
    PROVE  Opens(c, Opened(c, key, r, codec), key, n)
<1>1. PICK d, j : d = Opened(c, key, r, codec) /\ j = Len(c.states) + 1
  OBVIOUS
<1>2. PICK s, q, R : /\ s = NewStage(key, r, codec) /\ q = Append(c.states, s)
                     /\ R = [k \in DOMAIN c.routes \cup {key} |->
                               IF k = key THEN j ELSE c.routes[k]]
  OBVIOUS
<1>3. d = [c EXCEPT !.states = q, !.routes = R]
  <2>1. Opened(c, key, r, codec) = [c EXCEPT !.states = q, !.routes =
            [k \in DOMAIN c.routes \cup {key} |-> IF k = key THEN Len(c.states) + 1 ELSE c.routes[k]]]
    BY <1>1, <1>2 DEF Opened
  <2> QED
    BY <1>1, <1>2, <2>1
<1>4. /\ DOMAIN d = CaptureFields /\ d.states = q /\ d.connections = c.connections
      /\ d.routes = R /\ d.next_connection = c.next_connection
  BY <1>3 DEF Shape, CaptureFields
<1>5. /\ IsSeq(q) /\ Len(q) = j /\ DOMAIN q = DOMAIN c.states \cup {j} /\ j \notin DOMAIN c.states
      /\ q[j] = s /\ \A l \in DOMAIN c.states : q[l] = c.states[l]
  BY <1>1, <1>2, AppendIs DEF Shape
<1>6. StageShape(s) /\ s.key = key /\ From(s, n)
  <2>1. /\ DOMAIN s = StageFields /\ s.key = key /\ s.spool = <<>> /\ s.pending = None
    BY <1>2 DEF NewStage, StageFields
  <2>2. IsSeq(<<>>) /\ DOMAIN <<>> = {}
    BY EmptySeq DEF IsSeq
  <2> QED
    BY <2>1, <2>2 DEF StageShape, From
<1>7. Shape(d)
  <2>1. \A l \in DOMAIN q : StageShape(q[l])
    BY <1>5, <1>6 DEF Shape
  <2> QED
    BY <1>4, <1>5, <2>1 DEF Shape
<1>8. DOMAIN R = DOMAIN c.routes \cup {key} /\ R[key] = j
      /\ \A k \in DOMAIN c.routes : k # key => R[k] = c.routes[k]
  BY <1>2
<1>9. Routed(d)
  BY <1>4, <1>5, <1>6, <1>8 DEF Routed
<1>10. Feeds(c, d, key, n)
  BY <1>4, <1>5, <1>6, <1>7, <1>9 DEF Feeds
<1> QED
  BY <1>1, <1>4, <1>5, <1>6, <1>8, <1>10 DEF Opens

\* Observe in a stage of the flow.
LEMMA ObserveFeeds ==
    ASSUME NEW c, Shape(c), Routed(c), NEW i \in DOMAIN c.states, NEW n, From(c.states[i], n),
           NEW m, Stamped(m, n), NEW codec
    PROVE  Feeds(c, Observe(c, i, m, codec), c.states[i].key, n)
BY ObserveAlters, AltersFeeds

\* What is known of a capture in front of a step on stage i of the flow.
At(c, i, key, n) ==
    /\ Shape(c) /\ Routed(c) /\ i \in DOMAIN c.states /\ c.states[i].key = key
    /\ From(c.states[i], n)

LEMMA AltersAt ==
    ASSUME NEW c, NEW d, NEW i, NEW key, NEW n, At(c, i, key, n), Alters(c, d, i, n)
    PROVE  At(d, i, key, n) /\ Feeds(c, d, key, n)
<1>1. Feeds(c, d, key, n)
  BY AltersFeeds DEF At
<1> QED
  BY <1>1 DEF Alters, At, Feeds

LEMMA ObserveTwiceFeeds ==
    ASSUME NEW c, NEW i, NEW key, NEW n, At(c, i, key, n), NEW m, Stamped(m, n), NEW r,
           Stamped(r, n), NEW codec
    PROVE  Feeds(c, Observe(Observe(c, i, m, codec), i, r, codec), key, n)
<1>1. PICK d : d = Observe(c, i, m, codec)
  OBVIOUS
<1>2. Alters(c, d, i, n)
  BY <1>1, ObserveAlters DEF At
<1>3. At(d, i, key, n) /\ Feeds(c, d, key, n)
  BY <1>2, AltersAt
<1>4. Feeds(d, Observe(d, i, r, codec), key, n)
  BY <1>3, ObserveFeeds DEF At
<1> QED
  BY <1>1, <1>3, <1>4, FeedsOn

LEMMA RestartedFeeds ==
    ASSUME NEW c, NEW i, NEW key, NEW n, At(c, i, key, n), c.states[i].pending # None,
           NEW r, Stamped(r, n), NEW codec, NEW session
    PROVE  Feeds(c, Restarted(c, i, key, r, codec, session), key, n)
<1>1. PICK previous, warned : previous = c.states[i].pending /\ warned = WarnStage(c, i, "restart")
  OBVIOUS
<1>2. PICK split : split = [warned EXCEPT !.states[i].pending = None]
  OBVIOUS
<1>3. Stamped(previous, n)
  BY <1>1 DEF At, From
<1>4. At(split, i, key, n) /\ Feeds(c, split, key, n)
  <2>1. Alters(c, warned, i, n)
    BY <1>1, WarnStageAlters DEF At
  <2>2. At(warned, i, key, n) /\ Feeds(c, warned, key, n)
    BY <2>1, AltersAt
  <2>3. Alters(warned, split, i, n)
    BY <1>2, <2>2, PendingAlters DEF At
  <2> QED
    BY <2>2, <2>3, AltersAt, FeedsOn
<1>5. CASE Full(c)
  <2>1. Restarted(c, i, key, r, codec, session) = Warn(split, "stream_limit")
    BY <1>1, <1>2, <1>5 DEF Restarted
  <2>2. Feeds(split, Warn(split, "stream_limit"), key, n)
    BY <1>4, WarnFeeds DEF At
  <2> QED
    BY <1>4, <2>1, <2>2, FeedsOn
<1>6. CASE ~Full(c)
  <2>1. PICK opened, j : opened = Opened(split, key, previous, codec) /\ j = Len(opened.states)
    OBVIOUS
  <2>2. PICK noted : noted = WarnStage(opened, j, "stage")
    OBVIOUS
  <2>3. PICK marked : marked = [noted EXCEPT !.states[j].session = session]
    OBVIOUS
  <2>4. Restarted(c, i, key, r, codec, session)
           = Observe(Observe(marked, j, previous, codec), j, r, codec)
    BY <1>1, <1>2, <1>6, <2>1, <2>2, <2>3 DEF Restarted
  <2>5. At(opened, j, key, n) /\ Feeds(split, opened, key, n)
    <3>1. Shape(split) /\ Routed(split)
      BY <1>4 DEF At
    <3>2. PICK l : l = Len(split.states) + 1
      OBVIOUS
    <3>3. /\ Feeds(split, opened, key, n) /\ Len(opened.states) = l
          /\ l \in DOMAIN opened.states /\ opened.states[l].key = key
          /\ From(opened.states[l], n)
      <4>1. Opens(split, opened, key, n)
        BY <2>1, <3>1, OpenedFeeds
      <4> QED
        BY <3>2, <4>1 DEF Opens
    <3> QED
      BY <2>1, <3>3 DEF At, Feeds
  <2>6. At(noted, j, key, n) /\ Feeds(opened, noted, key, n)
    <3>1. Alters(opened, noted, j, n)
      BY <2>2, <2>5, WarnStageAlters DEF At
    <3> QED
      BY <2>5, <3>1, AltersAt
  <2>7. At(marked, j, key, n) /\ Feeds(noted, marked, key, n)
    <3>1. Alters(noted, marked, j, n)
      BY <2>3, <2>6, SessionAlters DEF At
    <3> QED
      BY <2>6, <3>1, AltersAt
  <2>8. Feeds(marked, Observe(Observe(marked, j, previous, codec), j, r, codec), key, n)
    BY <1>3, <2>7, ObserveTwiceFeeds
  <2>9. Feeds(c, marked, key, n)
    BY <1>4, <2>5, <2>6, <2>7, FeedsOn
  <2> QED
    BY <2>4, <2>8, <2>9, FeedsOn
<1> QED
  BY <1>5, <1>6

LEMMA JumpedFeeds ==
    ASSUME NEW c, NEW i, NEW key, NEW n, At(c, i, key, n), NEW r, Stamped(r, n),
           NEW codec, NEW session
    PROVE  Feeds(c, Jumped(c, i, key, r, codec, session), key, n)
<1>1. PICK previous, waiting : /\ previous = c.states[i].pending
                               /\ waiting = [c EXCEPT !.states[i].pending = r]
  OBVIOUS
<1>2. At(waiting, i, key, n) /\ Feeds(c, waiting, key, n)
  <2>1. Alters(c, waiting, i, n)
    BY <1>1, PendingAlters DEF At
  <2> QED
    BY <2>1, AltersAt
<1>3. CASE previous = None
  <2>1. Jumped(c, i, key, r, codec, session) = waiting
    BY <1>1, <1>3 DEF Jumped
  <2> QED
    BY <1>2, <2>1
<1>4. CASE previous # None /\ Confirms(previous, r)
  <2>1. Jumped(c, i, key, r, codec, session) = Restarted(c, i, key, r, codec, session)
    BY <1>1, <1>4 DEF Jumped
  <2> QED
    BY <1>1, <1>4, <2>1, RestartedFeeds
<1>5. CASE previous # None /\ ~Confirms(previous, r)
  <2>1. Jumped(c, i, key, r, codec, session) = WarnStage(waiting, i, "unconfirmed")
    BY <1>1, <1>5 DEF Jumped
  <2>2. Alters(waiting, WarnStage(waiting, i, "unconfirmed"), i, n)
    BY <1>2, WarnStageAlters DEF At
  <2> QED
    BY <1>2, <2>1, <2>2, AltersAt, FeedsOn
<1> QED
  BY <1>3, <1>4, <1>5

LEMMA ContinuedFeeds ==
    ASSUME NEW c, NEW i, NEW key, NEW n, At(c, i, key, n), NEW r, Stamped(r, n), NEW codec
    PROVE  Feeds(c, Continued(c, i, r, codec), key, n)
<1>1. CASE c.states[i].pending = None
  <2>1. Continued(c, i, r, codec) = Observe(c, i, r, codec)
    BY <1>1 DEF Continued
  <2> QED
    BY <2>1, ObserveFeeds DEF At
<1>2. CASE c.states[i].pending # None
  <2>1. PICK warned : warned = WarnStage(c, i, "isolated")
    OBVIOUS
  <2>2. PICK d : d = [warned EXCEPT !.states[i].pending = None]
    OBVIOUS
  <2>3. Continued(c, i, r, codec) = Observe(d, i, r, codec)
    BY <1>2, <2>1, <2>2 DEF Continued
  <2>4. At(warned, i, key, n) /\ Feeds(c, warned, key, n)
    <3>1. Alters(c, warned, i, n)
      BY <2>1, WarnStageAlters DEF At
    <3> QED
      BY <3>1, AltersAt
  <2>5. At(d, i, key, n) /\ Feeds(warned, d, key, n)
    <3>1. Alters(warned, d, i, n)
      BY <2>2, <2>4, PendingAlters DEF At
    <3> QED
      BY <2>4, <3>1, AltersAt
  <2>6. Feeds(d, Observe(d, i, r, codec), key, n)
    BY <2>5, ObserveFeeds DEF At
  <2> QED
    BY <2>3, <2>4, <2>5, <2>6, FeedsOn
<1> QED
  BY <1>1, <1>2

\* payload keeps a packet with the others of its connection, as long as no
\* stage of its flow has any other.
LEMMA MediaFeeds ==
    ASSUME NEW c, Shape(c), Routed(c), NEW key, NEW n, NEW r, Stamped(r, n),
           \A j \in DOMAIN c.states : c.states[j].key = key => From(c.states[j], n),
           NEW codec, NEW session
    PROVE  Feeds(c, Media(c, key, r, codec, session), key, n)
<1>1. PICK opened : opened = IF key \in DOMAIN c.routes THEN c ELSE Opened(c, key, r, codec)
  OBVIOUS
<1>2. PICK i : i = opened.routes[key]
  OBVIOUS
<1>3. PICK d : d = IF session = None THEN opened ELSE [opened EXCEPT !.states[i].session = session]
  OBVIOUS
<1>4. Feeds(c, c, key, n)
  BY DEF Feeds
<1>5. At(opened, i, key, n) /\ Feeds(c, opened, key, n)
  <2>1. CASE key \in DOMAIN c.routes
    BY <1>1, <1>2, <1>4, <2>1 DEF At, Routed
  <2>2. CASE key \notin DOMAIN c.routes
    <3>1. PICK j : j = Len(c.states) + 1
      OBVIOUS
    <3>2. opened = Opened(c, key, r, codec)
      BY <1>1, <2>2
    <3>3. /\ Feeds(c, opened, key, n) /\ j \in DOMAIN opened.states
          /\ opened.states[j].key = key /\ From(opened.states[j], n) /\ opened.routes[key] = j
      <4>1. Opens(c, opened, key, n)
        BY <3>2, OpenedFeeds
      <4> QED
        BY <3>1, <4>1 DEF Opens
    <3> QED
      BY <1>2, <3>3 DEF At, Feeds
  <2> QED
    BY <2>1, <2>2
<1>6. At(d, i, key, n) /\ Feeds(c, d, key, n)
  <2>1. CASE session = None
    BY <1>3, <1>5, <2>1
  <2>2. CASE session # None
    <3>1. Alters(opened, d, i, n)
      BY <1>3, <1>5, <2>2, SessionAlters DEF At
    <3> QED
      BY <1>5, <3>1, AltersAt, FeedsOn
  <2> QED
    BY <2>1, <2>2
<1>7. Media(c, key, r, codec, session) =
        IF key \notin DOMAIN c.routes /\ Full(c) THEN Warn(c, "stream_limit")
        ELSE IF Jumps(d.states[i], r) THEN Jumped(d, i, key, r, codec, session)
        ELSE Continued(d, i, r, codec)
  BY <1>1, <1>2, <1>3 DEF Media
<1>8. CASE key \notin DOMAIN c.routes /\ Full(c)
  BY <1>7, <1>8, WarnFeeds
<1>9. CASE ~(key \notin DOMAIN c.routes /\ Full(c)) /\ Jumps(d.states[i], r)
  <2>1. Feeds(d, Jumped(d, i, key, r, codec, session), key, n)
    BY <1>6, JumpedFeeds
  <2> QED
    BY <1>6, <1>7, <1>9, <2>1, FeedsOn
<1>10. CASE ~(key \notin DOMAIN c.routes /\ Full(c)) /\ ~Jumps(d.states[i], r)
  <2>1. Feeds(d, Continued(d, i, r, codec), key, n)
    BY <1>6, ContinuedFeeds
  <2> QED
    BY <1>6, <1>7, <1>10, <2>1, FeedsOn
<1> QED
  BY <1>8, <1>9, <1>10

-----------------------------------------------------------------------------
\* Positions of a direction: the segments that are given out are among them.
DirectionShape(q, N) ==
    DOMAIN q = {"next", "held", "gaps"} /\ IsFiniteSet(q.held) /\ q.held \subseteq N

Gives(r, N) == DirectionShape(r.dir, N) /\ r.out \in Seq(N)

\* Each of some numbers has a place among them, and each place is taken.
LEMMA Ranked ==
    ASSUME NEW S \in SUBSET Nat, IsFiniteSet(S)
    PROVE  /\ \A k \in S : Cardinality({j \in S : j <= k}) \in 1..Cardinality(S)
           /\ \A n \in 1..Cardinality(S) : \E k \in S : Cardinality({j \in S : j <= k}) = n
           /\ \A k, l \in S : Cardinality({j \in S : j <= k}) = Cardinality({j \in S : j <= l})
                                  => k = l
<1> DEFINE Upto(k) == {j \in S : j <= k}
           n == Cardinality(S)
           f == [k \in S |-> Cardinality(Upto(k))]
<1>1. n \in Nat
  BY FS_CardinalityType
<1>2. ASSUME NEW k \in S
      PROVE  IsFiniteSet(Upto(k)) /\ Cardinality(Upto(k)) \in 1..n
  <2>1. IsFiniteSet(Upto(k)) /\ Cardinality(Upto(k)) \in Nat /\ Cardinality(Upto(k)) <= n
    BY FS_Subset, FS_CardinalityType
  <2>2. k \in Upto(k)
    OBVIOUS
  <2>3. Cardinality(Upto(k)) # 0
    BY <2>1, <2>2, FS_EmptySet
  <2> QED
    BY <1>1, <2>1, <2>3
<1>3. ASSUME NEW k \in S, NEW l \in S, k < l
      PROVE  Cardinality(Upto(k)) < Cardinality(Upto(l))
  <2>1. Upto(k) \subseteq Upto(l) /\ l \in Upto(l) /\ l \notin Upto(k)
    <3>1. k \in Int /\ l \in Int /\ k < l
      BY <1>3
    <3>2. \A j \in S : j <= k => j <= l
      BY <3>1
    <3>3. l <= l /\ ~(l <= k)
      BY <3>1
    <3> QED
      BY <3>2, <3>3
  <2>2. Upto(k) # Upto(l)
    BY <2>1
  <2> QED
    BY <1>2, <2>1, <2>2, FS_Subset
<1>4. ASSUME NEW k \in S, NEW l \in S, Cardinality(Upto(k)) = Cardinality(Upto(l))
      PROVE  k = l
  <2>1. ~(k < l) /\ ~(l < k)
    BY <1>2, <1>3, <1>4
  <2> QED
    BY <2>1
<1>5. f \in Injection(S, 1..n)
  <2>1. f \in [S -> 1..n]
    BY <1>2
  <2>2. \A k, l \in S : f[k] = f[l] => k = l
    BY <1>4
  <2> QED
    BY <2>1, <2>2 DEF Injection, IsInjective
<1>6. f \in Surjection(S, 1..n)
  <2>1. IsFiniteSet(1..n) /\ Cardinality(1..n) = n
    BY <1>1, FS_Interval
  <2> HIDE DEF f
  <2> QED
    BY <1>5, <2>1, FS_Injection
<1>7. ASSUME NEW i \in 1..n PROVE \E k \in S : Cardinality(Upto(k)) = i
  BY <1>6 DEF Surjection
<1> QED
  BY <1>2, <1>4, <1>7

LEMMA InOrderIs ==
    ASSUME NEW N \in SUBSET Nat, NEW S \in SUBSET N, IsFiniteSet(S)
    PROVE  InOrder(S) \in Seq(N)
<1> DEFINE At2(i) == CHOOSE p \in S : Cardinality({q \in S : q <= p}) = i
<1>1. Cardinality(S) \in Nat
  BY FS_CardinalityType
<1>2. \A i \in 1..Cardinality(S) : At2(i) \in S
  BY Ranked
<1>3. InOrder(S) = [i \in 1..Cardinality(S) |-> At2(i)]
  BY DEF InOrder
<1> HIDE DEF At2
<1>4. InOrder(S) \in [1..Cardinality(S) -> N]
  BY <1>2, <1>3
<1> QED
  BY <1>1, <1>4, SeqDef

LEMMA NoOutputGives ==
    ASSUME NEW N \in SUBSET Nat, NEW q, DirectionShape(q, N)
    PROVE  Gives(NoOutput(q), N)
BY EmptySeq DEF NoOutput, Gives

LEMMA DrainedGives ==
    ASSUME NEW N \in SUBSET Nat, NEW q, DirectionShape(q, N)
    PROVE  Gives(Drained(q), N)
<1>1. PICK run : run = IF q.next = None THEN {} ELSE RunFrom(q)
  OBVIOUS
<1>2. run \subseteq q.held /\ IsFiniteSet(run)
  <2>1. run \subseteq q.held
    BY <1>1 DEF RunFrom
  <2> QED
    BY <2>1, FS_Subset DEF DirectionShape
<1>3. InOrder(run) \in Seq(N)
  BY <1>2, InOrderIs DEF DirectionShape
<1>4. PICK dir : dir = [q EXCEPT !.held = @ \ run,
                                 !.next = IF run = {} THEN @ ELSE @ + Cardinality(run)]
  OBVIOUS
<1>5. DirectionShape(dir, N)
  <2>1. DOMAIN dir = {"next", "held", "gaps"} /\ dir.held = q.held \ run
    BY <1>4 DEF DirectionShape
  <2>2. IsFiniteSet(q.held \ run)
    BY FS_Difference DEF DirectionShape
  <2> QED
    BY <2>1, <2>2 DEF DirectionShape
<1>6. Drained(q) = [dir |-> dir, out |-> InOrder(run), broken |-> {}]
  BY <1>1, <1>4 DEF Drained
<1> QED
  BY <1>3, <1>5, <1>6 DEF Gives

LEMMA SkipGives ==
    ASSUME NEW N \in SUBSET Nat, NEW q, DirectionShape(q, N)
    PROVE  Gives(SkipGap(q), N)
<1>1. CASE q.held = {}
  <2>1. SkipGap(q) = NoOutput(q)
    BY <1>1 DEF SkipGap
  <2> QED
    BY <2>1, NoOutputGives
<1>2. CASE q.held # {}
  <2>1. PICK p, gap : p = Lowest(q.held) /\ gap = (q.next \notin {None, p})
    OBVIOUS
  <2>2. PICK r : r = [q EXCEPT !.next = p, !.gaps = IF gap THEN @ + 1 ELSE @]
    OBVIOUS
  <2>3. DirectionShape(r, N)
    BY <2>2 DEF DirectionShape
  <2>4. Gives(Drained(r), N)
    BY <2>3, DrainedGives
  <2>5. SkipGap(q) = [Drained(r) EXCEPT !.broken = IF gap THEN {p} ELSE {}]
    BY <1>2, <2>1, <2>2 DEF SkipGap
  <2>6. DOMAIN Drained(r) = {"dir", "out", "broken"}
    BY DEF Drained
  <2>7. SkipGap(q).dir = Drained(r).dir /\ SkipGap(q).out = Drained(r).out
    BY <2>5, <2>6
  <2> QED
    BY <2>4, <2>7 DEF Gives
<1> QED
  BY <1>1, <1>2

LEMMA FinishGives ==
    ASSUME NEW N \in SUBSET Nat, NEW q, DirectionShape(q, N)
    PROVE  Gives(FinishDirection(q), N)
<1>1. CASE q.held = {}
  <2>1. FinishDirection(q) = NoOutput(q)
    BY <1>1 DEF FinishDirection
  <2> QED
    BY <2>1, NoOutputGives
<1>2. CASE q.held # {}
  <2>1. PICK x, y, z : FinishDirection(q) = [dir |-> [next |-> x, held |-> {}, gaps |-> y],
                                             out |-> InOrder(q.held), broken |-> z]
    BY <1>2 DEF FinishDirection
  <2>2. InOrder(q.held) \in Seq(N)
    BY InOrderIs DEF DirectionShape
  <2>3. IsFiniteSet({})
    BY FS_EmptySet
  <2>4. PICK dir : dir = [next |-> x, held |-> {}, gaps |-> y]
    OBVIOUS
  <2>5. DOMAIN dir = {"next", "held", "gaps"} /\ dir.held = {}
    BY <2>4
  <2>6. DirectionShape(dir, N)
    BY <2>3, <2>5 DEF DirectionShape
  <2>7. FinishDirection(q).dir = dir /\ FinishDirection(q).out = InOrder(q.held)
    BY <2>1, <2>4
  <2> QED
    BY <2>2, <2>6, <2>7 DEF Gives
<1> QED
  BY <1>1, <1>2

LEMMA PushGives ==
    ASSUME NEW N \in SUBSET Nat, NEW q, DirectionShape(q, N), NEW p \in N,
           NEW guess, NEW skip
    PROVE  Gives(PushSegment(q, p, guess, skip), N)
<1>1. CASE (q.next # None /\ p < q.next) \/ p \in q.held
  <2>1. PushSegment(q, p, guess, skip) = NoOutput(q)
    BY <1>1 DEF PushSegment
  <2> QED
    BY <2>1, NoOutputGives
<1>2. CASE ~((q.next # None /\ p < q.next) \/ p \in q.held)
  <2>1. PICK held : held = [q EXCEPT !.held = @ \cup {p}]
    OBVIOUS
  <2>2. PICK started : started = IF q.next = None /\ guess
                                 THEN [held EXCEPT !.next = Lowest(held.held)] ELSE held
    OBVIOUS
  <2>3. PICK drained, skipped : drained = Drained(started) /\ skipped = SkipGap(drained.dir)
    OBVIOUS
  <2>4. PushSegment(q, p, guess, skip) =
          IF skip /\ drained.dir.held # {}
          THEN [dir |-> skipped.dir, out |-> drained.out \o skipped.out,
                broken |-> skipped.broken]
          ELSE drained
    BY <1>2, <2>1, <2>2, <2>3 DEF PushSegment
  <2>5. DirectionShape(held, N)
    <3>1. DOMAIN held = {"next", "held", "gaps"} /\ held.held = q.held \cup {p}
      BY <2>1 DEF DirectionShape
    <3>2. IsFiniteSet(q.held \cup {p})
      BY FS_AddElement DEF DirectionShape
    <3> QED
      BY <3>1, <3>2 DEF DirectionShape
  <2>6. DirectionShape(started, N)
    BY <2>2, <2>5 DEF DirectionShape
  <2>7. Gives(drained, N)
    BY <2>3, <2>6, DrainedGives
  <2>8. Gives(skipped, N)
    BY <2>3, <2>7, SkipGives DEF Gives
  <2>9. drained.out \o skipped.out \in Seq(N)
    BY <2>7, <2>8, ConcatProperties DEF Gives
  <2>10. CASE skip /\ drained.dir.held # {}
    <3>1. PICK w : w = drained.out \o skipped.out
      OBVIOUS
    <3>2. PushSegment(q, p, guess, skip)
             = [dir |-> skipped.dir, out |-> w, broken |-> skipped.broken]
      BY <2>4, <2>10, <3>1
    <3> QED
      BY <2>8, <2>9, <3>1, <3>2 DEF Gives
  <2> QED
    BY <2>4, <2>7, <2>10
<1> QED
  BY <1>1, <1>2

-----------------------------------------------------------------------------
ConnectionFields == {"id", "instance", "syn", "closed", "observed_payload", "directions",
                     "session"}

Positions(k, n, d) == DOMAIN Script[k][n][d]

LEMMA ScriptIs ==
    ASSUME NEW k \in Keys, NEW n \in DOMAIN Script[k], NEW d \in Directions
    PROVE  /\ Len(Script[k][n][d]) \in Nat
           /\ Positions(k, n, d) = 1..Len(Script[k][n][d])
           /\ \A p \in Positions(k, n, d) :
                 /\ Script[k][n][d][p].kind \in {"request", "response", "report", "rtp"}
                 /\ Script[k][n][d][p].kind = "rtp" => Stamped(Script[k][n][d][p], n)
<1>1. d \in {"client", "server"}
  BY DEF Directions, Client, Server
<1>2. \A x \in {"client", "server"} :
         /\ Len(Script[k][n][x]) \in Nat /\ DOMAIN Script[k][n][x] = 1..Len(Script[k][n][x])
         /\ \A p \in DOMAIN Script[k][n][x] :
               /\ Script[k][n][x][p].kind \in {"request", "response", "report", "rtp"}
               /\ Script[k][n][x][p].kind = "rtp" =>
                     /\ "instance" \in DOMAIN Script[k][n][x][p]
                     /\ Script[k][n][x][p].instance = n
  BY ScriptAssumption, Zenon
<1>3. PICK ms : ms = Script[k][n][d]
  OBVIOUS
<1>4. /\ Len(ms) \in Nat /\ DOMAIN ms = 1..Len(ms)
      /\ \A p \in DOMAIN ms :
            /\ ms[p].kind \in {"request", "response", "report", "rtp"}
            /\ ms[p].kind = "rtp" => "instance" \in DOMAIN ms[p] /\ ms[p].instance = n
  BY <1>1, <1>2, <1>3, Zenon
<1>5. \A p \in DOMAIN ms : ms[p].kind = "rtp" => Stamped(ms[p], n)
  BY <1>4 DEF Stamped
<1> QED
  BY <1>3, <1>4, <1>5 DEF Positions

\* An entry of the table, of the connections of k.
Entry(k, conn) ==
    /\ DOMAIN conn = ConnectionFields /\ conn.instance \in DOMAIN Script[k]
    /\ DOMAIN conn.directions = Directions
    /\ \A d \in Directions : DirectionShape(conn.directions[d], Positions(k, conn.instance, d))

\* The stages of a connection have kept what was sent on it.
Own(c, conn) ==
    \A i \in DOMAIN c.states : c.states[i].key.tcp = conn.id => From(c.states[i], conn.instance)

\* Stages keep one connection each, and what is in the table has no number
\* twice.
Apart(c) ==
    /\ Shape(c) /\ Routed(c) /\ c.next_connection \in Nat
    /\ \A i \in DOMAIN c.states :
          /\ c.states[i].key.tcp \in 1..c.next_connection
          /\ \E n : From(c.states[i], n)
    /\ \A k \in DOMAIN c.connections :
          /\ k \in Keys /\ Entry(k, c.connections[k])
          /\ c.connections[k].id \in 1..c.next_connection
          /\ Own(c, c.connections[k])
    /\ \A k, l \in DOMAIN c.connections :
          c.connections[k].id = c.connections[l].id => k = l

\* The table holds the same connections.
SameTable(c, e) ==
    /\ DOMAIN e.connections = DOMAIN c.connections /\ e.next_connection = c.next_connection
    /\ \A k \in DOMAIN c.connections :
          /\ e.connections[k].id = c.connections[k].id
          /\ e.connections[k].instance = c.connections[k].instance
          /\ e.connections[k].syn = c.connections[k].syn
          /\ e.connections[k].closed = c.connections[k].closed
          /\ e.connections[k].observed_payload = c.connections[k].observed_payload

\* A step on the messages of the connections in the table.
Reads(c, e) == Apart(e) /\ SameTable(c, e)

LEMMA ReadsNothing == ASSUME NEW c, Apart(c) PROVE Reads(c, c)
BY DEF Reads, SameTable

LEMMA ReadsOn == ASSUME NEW c, NEW d, NEW e, Reads(c, d), Reads(d, e) PROVE Reads(c, e)
BY DEF Reads, SameTable

LEMMA OthersRead ==
    ASSUME NEW c, Apart(c), NEW e, DOMAIN e = CaptureFields, e.states = c.states,
           e.routes = c.routes, e.connections = c.connections,
           e.next_connection = c.next_connection
    PROVE  Reads(c, e)
<1>1. Shape(e) /\ Routed(e)
  BY DEF Apart, Shape, Routed
<1>2. SameTable(c, e)
  BY DEF SameTable
<1>3. \A conn : Own(c, conn) => Own(e, conn)
  BY DEF Own
<1>4. Apart(e)
  BY <1>1, <1>3 DEF Apart
<1> QED
  BY <1>2, <1>4 DEF Reads

LEMMA WarnReads ==
    ASSUME NEW c, Apart(c), NEW w
    PROVE  Reads(c, Warn(c, w))
<1>1. PICK d : d = Warn(c, w)
  OBVIOUS
<1>2. /\ DOMAIN d = CaptureFields /\ d.states = c.states /\ d.connections = c.connections
      /\ d.routes = c.routes /\ d.next_connection = c.next_connection
  BY <1>1 DEF Warn, Apart, Shape, CaptureFields
<1> QED
  BY <1>1, <1>2, OthersRead

\* An entry put in the place of another of the same connection.
LEMMA EntryApart ==
    ASSUME NEW c, Apart(c), NEW k \in DOMAIN c.connections, NEW conn, Entry(k, conn),
           conn.id = c.connections[k].id, conn.instance = c.connections[k].instance
    PROVE  LET e == [c EXCEPT !.connections[k] = conn]
           IN  /\ Apart(e) /\ e.connections[k] = conn /\ e.next_connection = c.next_connection
               /\ DOMAIN e.connections = DOMAIN c.connections
               /\ \A l \in DOMAIN c.connections : l # k => e.connections[l] = c.connections[l]
<1>1. PICK e, T : e = [c EXCEPT !.connections[k] = conn] /\ T = [c.connections EXCEPT ![k] = conn]
  OBVIOUS
<1>2. /\ DOMAIN e = CaptureFields /\ e.states = c.states /\ e.connections = T
      /\ e.routes = c.routes /\ e.next_connection = c.next_connection
  BY <1>1 DEF Apart, Shape, CaptureFields
<1>3. /\ DOMAIN T = DOMAIN c.connections /\ T[k] = conn
      /\ \A l \in DOMAIN c.connections : l # k => T[l] = c.connections[l]
  BY <1>1
<1>4. Shape(e) /\ Routed(e)
  BY <1>2 DEF Apart, Shape, Routed
<1>5. \A i \in DOMAIN e.states : /\ e.states[i].key.tcp \in 1..e.next_connection
                                 /\ \E n : From(e.states[i], n)
  BY <1>2 DEF Apart
<1>6. ASSUME NEW l \in DOMAIN T
      PROVE  /\ l \in Keys /\ Entry(l, T[l]) /\ T[l].id \in 1..c.next_connection
             /\ Own(e, T[l]) /\ T[l].id = c.connections[l].id
  <2>1. CASE l = k
    BY <1>2, <1>3, <2>1 DEF Apart, Own
  <2>2. CASE l # k
    BY <1>2, <1>3, <2>2 DEF Apart, Own
  <2> QED
    BY <2>1, <2>2
<1>7. \A l, m \in DOMAIN T : T[l].id = T[m].id => l = m
  BY <1>3, <1>6 DEF Apart
<1>8. Apart(e)
  BY <1>2, <1>4, <1>5, <1>6, <1>7 DEF Apart
<1> QED
  BY <1>1, <1>2, <1>3, <1>8

LEMMA EntryReads ==
    ASSUME NEW c, Apart(c), NEW k \in DOMAIN c.connections, NEW conn, Entry(k, conn),
           conn.id = c.connections[k].id, conn.instance = c.connections[k].instance,
           conn.syn = c.connections[k].syn, conn.closed = c.connections[k].closed,
           conn.observed_payload = c.connections[k].observed_payload
    PROVE  Reads(c, [c EXCEPT !.connections[k] = conn])
<1>1. PICK e : e = [c EXCEPT !.connections[k] = conn]
  OBVIOUS
<1>2. /\ Apart(e) /\ e.connections[k] = conn /\ e.next_connection = c.next_connection
      /\ DOMAIN e.connections = DOMAIN c.connections
      /\ \A l \in DOMAIN c.connections : l # k => e.connections[l] = c.connections[l]
  BY <1>1, EntryApart
<1> QED
  BY <1>1, <1>2 DEF Reads, SameTable

LEMMA ObservedReads ==
    ASSUME NEW c, Apart(c), NEW k \in DOMAIN c.connections, NEW after
    PROVE  Reads(c, Observed(c, k, after))
<1>1. PICK conn : conn = [c.connections[k] EXCEPT !.session = after]
  OBVIOUS
<1>2. Entry(k, c.connections[k])
  BY DEF Apart
<1>3. /\ DOMAIN conn = ConnectionFields /\ conn.id = c.connections[k].id
      /\ conn.instance = c.connections[k].instance
      /\ conn.syn = c.connections[k].syn /\ conn.closed = c.connections[k].closed
      /\ conn.observed_payload = c.connections[k].observed_payload
      /\ conn.directions = c.connections[k].directions
  BY <1>1, <1>2 DEF Entry, ConnectionFields
<1>4. Entry(k, conn)
  BY <1>2, <1>3 DEF Entry
<1>5. PICK d, fresh : /\ d = [c EXCEPT !.connections[k] = conn]
                      /\ fresh = SubSeq(after.udp, Len(c.connections[k].session.udp) + 1,
                                        Len(after.udp))
  OBVIOUS
<1>6. Reads(c, d)
  BY <1>3, <1>4, <1>5, EntryReads
<1>7. PICK mapped : mapped = IF Len(c.bindings) + Len(fresh) <= MaxStreams
                             THEN [d EXCEPT !.bindings = @ \o fresh]
                             ELSE Warn(d, "binding_limit")
  OBVIOUS
<1>8. Reads(c, mapped)
  <2>1. PICK e : e = [d EXCEPT !.bindings = @ \o fresh]
    OBVIOUS
  <2>2. Apart(d)
    BY <1>6 DEF Reads
  <2>3. /\ DOMAIN e = CaptureFields /\ e.states = d.states /\ e.connections = d.connections
        /\ e.routes = d.routes /\ e.next_connection = d.next_connection
    BY <2>1, <2>2 DEF Apart, Shape, CaptureFields
  <2>4. Reads(d, e) /\ Reads(d, Warn(d, "binding_limit"))
    BY <2>2, <2>3, OthersRead, WarnReads
  <2> QED
    BY <1>6, <1>7, <2>1, <2>4, ReadsOn
<1>9. Observed(c, k, after) = IF after.changed THEN Warn(mapped, "codec_changed") ELSE mapped
  BY <1>1, <1>5, <1>7 DEF Observed
<1>10. Reads(mapped, Warn(mapped, "codec_changed"))
  BY <1>8, WarnReads DEF Reads
<1> QED
  BY <1>8, <1>9, <1>10, ReadsOn

\* Stages that change in nothing that matters here.
LEMMA UntouchedReads ==
    ASSUME NEW c, Apart(c), NEW e, Shape(e), DOMAIN e.states = DOMAIN c.states,
           e.routes = c.routes, e.connections = c.connections,
           e.next_connection = c.next_connection,
           \A i \in DOMAIN c.states : Untouched(c.states[i], e.states[i])
    PROVE  Reads(c, e)
<1>1. \A i \in DOMAIN c.states : e.states[i].key = c.states[i].key
  BY DEF Untouched
<1>2. \A i \in DOMAIN c.states : \A n : From(c.states[i], n) => From(e.states[i], n)
  BY UntouchedFrom
<1>3. Routed(e)
  BY <1>1 DEF Apart, Routed
<1>4. \A conn : Own(c, conn) => Own(e, conn)
  BY <1>1, <1>2 DEF Own
<1>5. \A i \in DOMAIN e.states : /\ e.states[i].key.tcp \in 1..e.next_connection
                                 /\ \E n : From(e.states[i], n)
  BY <1>1, <1>2 DEF Apart
<1>6. Apart(e)
  BY <1>3, <1>4, <1>5 DEF Apart
<1> QED
  BY <1>6 DEF Reads, SameTable

\* Media of the connection.
LEMMA FeedsReads ==
    ASSUME NEW c, Apart(c), NEW k \in DOMAIN c.connections, NEW key,
           key.tcp = c.connections[k].id, NEW e,
           Feeds(c, e, key, c.connections[k].instance)
    PROVE  Reads(c, e)
<1>1. \A i \in DOMAIN e.states : /\ e.states[i].key.tcp \in 1..e.next_connection
                                 /\ \E n : From(e.states[i], n)
  BY DEF Apart, Feeds
<1>2. ASSUME NEW l \in DOMAIN c.connections PROVE Own(e, c.connections[l])
  <2>1. SUFFICES ASSUME NEW i \in DOMAIN e.states,
                        e.states[i].key.tcp = c.connections[l].id
                 PROVE  From(e.states[i], c.connections[l].instance)
    BY DEF Own
  <2>2. CASE i \in DOMAIN c.states /\ e.states[i] = c.states[i]
    BY <2>1, <2>2 DEF Apart, Own
  <2>3. CASE e.states[i].key = key /\ From(e.states[i], c.connections[k].instance)
    <3>1. k = l
      BY <2>1, <2>3 DEF Apart
    <3> QED
      BY <2>3, <3>1
  <2> QED
    BY <2>2, <2>3 DEF Feeds
<1>3. Apart(e)
  BY <1>1, <1>2 DEF Apart, Feeds
<1> QED
  BY <1>3 DEF Reads, SameTable, Feeds

LEMMA ReportReads ==
    ASSUME NEW c, Apart(c), NEW key, NEW m
    PROVE  Reads(c, Report(c, key, m))
<1>1. PICK found : found = {i \in DOMAIN c.states : SameSource(c.states[i], key)}
  OBVIOUS
<1>2. CASE Cardinality(found) = 1
  <2>1. PICK i : i = CHOOSE x \in found : TRUE
    OBVIOUS
  <2>2. i \in DOMAIN c.states
    <3>1. found # {}
      BY <1>2, FS_EmptySet
    <3> QED
      BY <1>1, <2>1, <3>1
  <2>3. PICK t, q : t = [c.states[i] EXCEPT !.rtcp = Append(@, m)] /\ q = [c.states EXCEPT ![i] = t]
    OBVIOUS
  <2>4. PICK e : e = [c EXCEPT !.states[i] = t]
    OBVIOUS
  <2>5. Report(c, key, m) = e
    <3>1. Report(c, key, m) = [c EXCEPT !.states[i].rtcp = Append(@, m)]
      BY <1>1, <1>2, <2>1 DEF Report
    <3> QED
      BY <2>3, <2>4, <3>1
  <2>6. Untouched(c.states[i], t)
    <3>1. StageShape(c.states[i])
      BY <2>2 DEF Apart, Shape
    <3> QED
      BY <2>3, <3>1 DEF Untouched, StageShape, StageFields
  <2>7. /\ DOMAIN e = CaptureFields /\ e.states = q /\ e.connections = c.connections
        /\ e.routes = c.routes /\ e.next_connection = c.next_connection
    BY <2>3, <2>4 DEF Apart, Shape, CaptureFields
  <2>8. /\ IsSeq(q) /\ DOMAIN q = DOMAIN c.states /\ q[i] = t
        /\ \A j \in DOMAIN c.states : j # i => q[j] = c.states[j]
    BY <2>2, <2>3, ReplaceIs DEF Apart, Shape
  <2>9. \A j \in DOMAIN c.states : Untouched(c.states[j], q[j])
    <3>1. \A j \in DOMAIN c.states : StageShape(c.states[j])
      BY DEF Apart, Shape
    <3> QED
      BY <2>6, <2>8, <3>1 DEF Untouched
  <2>10. Shape(e)
    BY <2>7, <2>8, <2>9 DEF Shape, Untouched
  <2> QED
    BY <2>5, <2>7, <2>8, <2>9, <2>10, UntouchedReads
<1>3. CASE Cardinality(found) # 1
  <2>1. Report(c, key, m) = Warn(c, "rtcp_unattributed")
    BY <1>1, <1>3 DEF Report
  <2> QED
    BY <2>1, WarnReads
<1> QED
  BY <1>2, <1>3

LEMMA MessageReads ==
    ASSUME NEW c, Apart(c), NEW k \in DOMAIN c.connections, NEW d \in Directions,
           NEW p \in Positions(k, c.connections[k].instance, d)
    PROVE  Reads(c, Message(c, k, d, Script[k][c.connections[k].instance][d][p]))
<1>1. PICK n, m : n = c.connections[k].instance /\ m = Script[k][n][d][p]
  OBVIOUS
<1>2. /\ m.kind \in {"request", "response", "report", "rtp"}
      /\ m.kind = "rtp" => Stamped(m, n)
  <2>1. k \in Keys /\ n \in DOMAIN Script[k] /\ p \in Positions(k, n, d)
    BY <1>1 DEF Apart, Entry
  <2> QED
    BY <1>1, <2>1, ScriptIs
<1>3. CASE IsRtsp(m)
  <2>1. Message(c, k, d, m) = Observed(c, k, observe(c.connections[k].session, m))
    BY <1>3 DEF Message, RtspMessage
  <2> QED
    BY <1>1, <2>1, ObservedReads
<1>4. CASE ~IsRtsp(m)
  <2>1. PICK conn : conn = c.connections[k]
    OBVIOUS
  <2>2. PICK key : key = FlowKey(k, conn, d, ChannelOf(conn.session, m), m)
    OBVIOUS
  <2>3. key.tcp = c.connections[k].id
    BY <2>1, <2>2 DEF FlowKey
  <2>4. PICK codec, session : /\ codec = CodecOf(conn.session, m.channel, m.pt)
                              /\ session = conn.session.id
    OBVIOUS
  <2>5. Message(c, k, d, m) = IF m.kind = "report" THEN Report(c, key, m)
                              ELSE Media(c, key, m, codec, session)
    BY <1>4, <2>1, <2>2, <2>4 DEF Message, MediaMessage
  <2>6. Reads(c, Report(c, key, m))
    BY ReportReads
  <2>7. CASE m.kind # "report"
    <3>1. Stamped(m, n)
      BY <1>2, <1>4, <2>7 DEF IsRtsp
    <3>2. \A j \in DOMAIN c.states : c.states[j].key = key => From(c.states[j], n)
      BY <1>1, <2>3 DEF Apart, Own
    <3>3. Feeds(c, Media(c, key, m, codec, session), key, n)
      BY <3>1, <3>2, MediaFeeds DEF Apart
    <3>4. Reads(c, Media(c, key, m, codec, session))
      BY <1>1, <2>3, <3>3, FeedsReads
    <3> QED
      BY <1>1, <2>5, <2>7, <3>4
  <2> QED
    BY <1>1, <2>5, <2>6, <2>7
<1> QED
  BY <1>3, <1>4

-----------------------------------------------------------------------------
\* The messages that the decoder reads, one after the other.
ReadsOf(f, x, k, d, q, n) ==
    f = [i \in 0..n |-> IF i = 0 THEN x ELSE Message(f[i - 1], k, d, q[i])]

LEMMA MessagesExist ==
    ASSUME NEW x, NEW k, NEW d, NEW q, NEW n \in Nat
    PROVE  \E f : ReadsOf(f, x, k, d, q, n)
<1> DEFINE G == {m \in Nat : \E f : f = [i \in 0..m |->
                     IF i = 0 THEN x ELSE Message(f[i - 1], k, d, q[i])]}
<1>1. 0 \in G
  <2> DEFINE f == [i \in 0..0 |-> x]
  <2>1. f = [i \in 0..0 |-> IF i = 0 THEN x ELSE Message(f[i - 1], k, d, q[i])]
    OBVIOUS
  <2> QED
    BY <2>1
<1>2. ASSUME NEW m \in 1..n, m - 1 \in G PROVE m \in G
  <2>1. PICK f : f = [i \in 0..(m - 1) |-> IF i = 0 THEN x ELSE Message(f[i - 1], k, d, q[i])]
    BY <1>2
  <2> DEFINE g == [i \in 0..m |-> IF i = m THEN Message(f[m - 1], k, d, q[m]) ELSE f[i]]
  <2>2. \A i \in 0..m : g[i] = IF i = 0 THEN x ELSE Message(g[i - 1], k, d, q[i])
    <3> SUFFICES ASSUME NEW i \in 0..m
                 PROVE  g[i] = IF i = 0 THEN x ELSE Message(g[i - 1], k, d, q[i])
      OBVIOUS
    <3>1. CASE i = m
      <4>1. i # 0 /\ i - 1 \in 0..m /\ i - 1 # m /\ i - 1 = m - 1
        BY <3>1
      <4> QED
        BY <3>1, <4>1
    <3>2. CASE i # m
      <4>1. i \in 0..(m - 1) /\ (i # 0 => i - 1 \in 0..m /\ i - 1 # m)
        BY <3>2
      <4>2. f[i] = IF i = 0 THEN x ELSE Message(f[i - 1], k, d, q[i])
        BY <2>1, <4>1
      <4> QED
        BY <3>2, <4>1, <4>2
    <3> QED
      BY <3>1, <3>2
  <2>3. g = [i \in 0..m |-> IF i = 0 THEN x ELSE Message(g[i - 1], k, d, q[i])]
    BY <2>2
  <2> HIDE DEF g
  <2>4. m \in Nat
    OBVIOUS
  <2> QED
    BY <2>3, <2>4
<1> HIDE DEF G
<1>3. n \in G
  BY <1>1, <1>2, Upwards
<1> QED
  BY <1>3 DEF G, ReadsOf

LEMMA DecodedReads ==
    ASSUME NEW c, Apart(c), NEW k \in DOMAIN c.connections, NEW d \in Directions,
           NEW given \in Seq(Positions(k, c.connections[k].instance, d)), NEW n,
           n = c.connections[k].instance
    PROVE  Reads(c, Decoded(c, k, d, Segments(k, n, d, given)))
<1>1. PICK q, last : q = Segments(k, n, d, given) /\ last = Len(given)
  OBVIOUS
<1>2. last \in Nat /\ DOMAIN given = 1..last /\ \A i \in 1..last : given[i] \in Positions(k, n, d)
  BY <1>1, LenProperties, ElementOfSeq
<1>3. /\ Len(q) = last
      /\ \A i \in 1..last : q[i] = Script[k][n][d][given[i]]
  <2>1. q = [i \in 1..last |-> Script[k][n][d][given[i]]]
    BY <1>1, <1>2 DEF Segments
  <2>2. PICK S : S = {Script[k][n][d][given[i]] : i \in 1..last}
    OBVIOUS
  <2>3. q \in [1..last -> S]
    BY <2>1, <2>2
  <2>4. q \in Seq(S) /\ Len(q) \in Nat /\ DOMAIN q = 1..Len(q)
    BY <1>2, <2>3, SeqDef, LenProperties
  <2>5. Len(q) = last
    BY <1>2, <2>3, <2>4
  <2> QED
    BY <2>1, <2>5
<1> DEFINE read == CHOOSE f : f = [i \in 0..Len(q) |->
                       IF i = 0 THEN c ELSE Message(f[i - 1], k, d, q[i])]
<1>4. Decoded(c, k, d, q) = read[Len(q)]
  BY DEF Decoded
<1>5. read = [i \in 0..last |-> IF i = 0 THEN c ELSE Message(read[i - 1], k, d, q[i])]
  <2>1. \E f : f = [i \in 0..last |-> IF i = 0 THEN c ELSE Message(f[i - 1], k, d, q[i])]
    <3>1. PICK f : ReadsOf(f, c, k, d, q, last)
      BY <1>2, MessagesExist
    <3> QED
      BY <3>1 DEF ReadsOf
  <2> QED
    BY <1>3, <2>1
<1> HIDE DEF read
<1>6. PICK G : G = {i \in 0..last : Reads(c, read[i])}
  OBVIOUS
<1>7. 0 \in G
  <2>1. 0 \in 0..last
    BY <1>2
  <2>2. read[0] = c
    BY <1>5, <2>1
  <2> QED
    BY <1>6, <2>1, <2>2, ReadsNothing
<1>8. ASSUME NEW i \in 1..last, i - 1 \in G PROVE i \in G
  <2>1. i \in 0..last /\ i # 0 /\ i - 1 \in 0..last
    BY <1>2
  <2>2. PICK e : e = read[i - 1]
    OBVIOUS
  <2>3. read[i] = Message(e, k, d, q[i])
    BY <1>5, <2>1, <2>2
  <2>4. Reads(c, e)
    BY <1>6, <1>8, <2>2
  <2>5. Apart(e) /\ k \in DOMAIN e.connections /\ e.connections[k].instance = n
    BY <2>4 DEF Reads, SameTable
  <2>6. given[i] \in Positions(k, e.connections[k].instance, d)
    BY <1>2, <2>5
  <2>7. Reads(e, Message(e, k, d, Script[k][n][d][given[i]]))
    BY <2>5, <2>6, MessageReads
  <2>8. Reads(e, read[i])
    BY <1>3, <2>3, <2>7
  <2> QED
    BY <1>6, <2>1, <2>4, <2>8, ReadsOn
<1>9. last \in G
  <2>1. \A i \in 0..last : i \in G
    BY <1>2, <1>7, <1>8, Upwards
  <2> QED
    BY <1>2, <2>1
<1> QED
  BY <1>1, <1>3, <1>4, <1>6, <1>9

\* The state of a direction put in the place of another.
LEMMA DirectionReads ==
    ASSUME NEW c, Apart(c), NEW k \in DOMAIN c.connections, NEW d \in Directions, NEW q,
           DirectionShape(q, Positions(k, c.connections[k].instance, d))
    PROVE  Reads(c, [c EXCEPT !.connections[k].directions[d] = q])
<1>1. PICK conn, D : /\ D = [c.connections[k].directions EXCEPT ![d] = q]
                     /\ conn = [c.connections[k] EXCEPT !.directions = D]
  OBVIOUS
<1>2. Entry(k, c.connections[k])
  BY DEF Apart
<1>3. /\ DOMAIN conn = ConnectionFields /\ conn.id = c.connections[k].id
      /\ conn.instance = c.connections[k].instance
      /\ conn.syn = c.connections[k].syn /\ conn.closed = c.connections[k].closed
      /\ conn.observed_payload = c.connections[k].observed_payload
      /\ conn.directions = D
  BY <1>1, <1>2 DEF Entry, ConnectionFields
<1>4. /\ DOMAIN D = Directions /\ D[d] = q
      /\ \A x \in Directions : x # d => D[x] = c.connections[k].directions[x]
  BY <1>1, <1>2 DEF Entry
<1>5. Entry(k, conn)
  BY <1>2, <1>3, <1>4 DEF Entry
<1>6. Reads(c, [c EXCEPT !.connections[k] = conn])
  BY <1>3, <1>5, EntryReads
<1>7. [c EXCEPT !.connections[k].directions[d] = q] = [c EXCEPT !.connections[k] = conn]
  BY <1>1
<1> QED
  BY <1>6, <1>7

\* What a call of the reassembly gives out is read.
LEMMA GivenReads ==
    ASSUME NEW c, Apart(c), NEW k \in DOMAIN c.connections, NEW d \in Directions, NEW r, NEW n,
           n = c.connections[k].instance, Gives(r, Positions(k, n, d))
    PROVE  Reads(c, Decoded([c EXCEPT !.connections[k].directions[d] = r.dir], k, d,
                            Segments(k, n, d, r.out)))
<1>1. PICK e : e = [c EXCEPT !.connections[k].directions[d] = r.dir]
  OBVIOUS
<1>2. Reads(c, e)
  BY <1>1, DirectionReads DEF Gives
<1>3. Apart(e) /\ k \in DOMAIN e.connections /\ n = e.connections[k].instance
  BY <1>2 DEF Reads, SameTable
<1>4. r.out \in Seq(Positions(k, e.connections[k].instance, d))
  BY <1>3 DEF Gives
<1>5. Reads(e, Decoded(e, k, d, Segments(k, n, d, r.out)))
  BY <1>3, <1>4, DecodedReads
<1> QED
  BY <1>1, <1>2, <1>5, ReadsOn

LEMMA PositionsAre ==
    ASSUME NEW c, Apart(c), NEW k \in DOMAIN c.connections, NEW d \in Directions
    PROVE  LET N == Positions(k, c.connections[k].instance, d)
           IN  N \in SUBSET Nat /\ DirectionShape(c.connections[k].directions[d], N)
<1>1. PICK n : n = c.connections[k].instance
  OBVIOUS
<1>2. k \in Keys /\ n \in DOMAIN Script[k]
  BY <1>1 DEF Apart, Entry
<1>3. PICK last : last = Len(Script[k][n][d])
  OBVIOUS
<1>4. last \in Nat /\ Positions(k, n, d) = 1..last
  BY <1>2, <1>3, ScriptIs
<1>5. DirectionShape(c.connections[k].directions[d], Positions(k, n, d))
  BY <1>1 DEF Apart, Entry
<1> QED
  BY <1>1, <1>4, <1>5

LEMMA PushedReads ==
    ASSUME NEW c, Apart(c), NEW k \in DOMAIN c.connections, NEW d \in Directions, NEW n,
           n = c.connections[k].instance, NEW p \in Positions(k, n, d), NEW guess, NEW skip
    PROVE  Reads(c, Pushed(c, k, n, d, p, guess, skip))
<1>1. PICK r : r = PushSegment(c.connections[k].directions[d], p, guess, skip)
  OBVIOUS
<1>2. Gives(r, Positions(k, n, d))
  BY <1>1, PositionsAre, PushGives
<1>3. Pushed(c, k, n, d, p, guess, skip)
        = Decoded([c EXCEPT !.connections[k].directions[d] = r.dir], k, d,
                  Segments(k, n, d, r.out))
  BY <1>1 DEF Pushed
<1> QED
  BY <1>2, <1>3, GivenReads

LEMMA MarkedReads ==
    ASSUME NEW c, Apart(c), NEW k, NEW d
    PROVE  Reads(c, Marked(c, k, d))
<1>1. PICK conn, w : conn = c.connections[k] /\ w = Warn(c, "tcp_gap")
  OBVIOUS
<1>2. Reads(c, w)
  BY <1>1, WarnReads
<1>3. Shape(w)
  BY <1>2 DEF Reads, Apart
<1> DEFINE Fed(i) == c.states[i].key.tcp = conn.id /\ c.states[i].key.source = d
           q == [i \in DOMAIN w.states |->
                     IF Fed(i) THEN [w.states[i] EXCEPT !.truncated = TRUE] ELSE w.states[i]]
           e == [w EXCEPT !.states = q]
<1>4. Marked(c, k, d) = IF conn.directions[d].gaps = 0 THEN c ELSE e
  BY <1>1 DEF Marked
<1>5. \A i \in DOMAIN w.states : Untouched(w.states[i], q[i])
  <2>1. ASSUME NEW s, StageShape(s)
        PROVE  Untouched(s, s) /\ Untouched(s, [s EXCEPT !.truncated = TRUE])
    BY <2>1 DEF Untouched, StageShape, StageFields
  <2>2. \A i \in DOMAIN w.states : StageShape(w.states[i])
    BY <1>3 DEF Shape
  <2> QED
    BY <2>1, <2>2
<1>6. DOMAIN q = DOMAIN w.states
  OBVIOUS
<1>7. IsSeq(q)
  <2>1. PICK S : w.states \in Seq(S)
    BY <1>3 DEF Shape, IsSeq
  <2>2. Len(w.states) \in Nat /\ DOMAIN w.states = 1..Len(w.states)
    BY <2>1, LenProperties
  <2>3. q \in [1..Len(w.states) -> {q[i] : i \in DOMAIN w.states}]
    BY <2>2
  <2> HIDE DEF q
  <2>4. q \in Seq({q[i] : i \in DOMAIN w.states})
    BY <2>2, <2>3, SeqDef
  <2> QED
    BY <2>4 DEF IsSeq
<1> HIDE DEF q
<1>8. /\ DOMAIN e = CaptureFields /\ e.states = q /\ e.connections = w.connections
      /\ e.routes = w.routes /\ e.next_connection = w.next_connection
  BY <1>3 DEF Shape, CaptureFields
<1>9. Shape(e)
  BY <1>5, <1>6, <1>7, <1>8 DEF Shape, Untouched
<1> HIDE DEF e
<1>10. Reads(w, e)
  BY <1>2, <1>5, <1>6, <1>8, <1>9, UntouchedReads DEF Reads
<1> QED
  BY <1>2, <1>4, <1>10, ReadsOn, ReadsNothing

LEMMA FinishOneReads ==
    ASSUME NEW c, Apart(c), NEW k \in DOMAIN c.connections, NEW d \in Directions
    PROVE  Reads(c, FinishOne(c, k, d))
<1>1. PICK r, n : r = FinishDirection(c.connections[k].directions[d])
                  /\ n = c.connections[k].instance
  OBVIOUS
<1>2. PICK e : e = Decoded([c EXCEPT !.connections[k].directions[d] = r.dir], k, d,
                           Segments(k, n, d, r.out))
  OBVIOUS
<1>3. Gives(r, Positions(k, n, d))
  BY <1>1, PositionsAre, FinishGives
<1>4. Reads(c, e)
  BY <1>1, <1>2, <1>3, GivenReads
<1>5. FinishOne(c, k, d) = Marked(e, k, d)
  BY <1>1, <1>2 DEF FinishOne
<1>6. Reads(e, Marked(e, k, d))
  BY <1>4, MarkedReads DEF Reads
<1> QED
  BY <1>4, <1>5, <1>6, ReadsOn

LEMMA FinishConnectionReads ==
    ASSUME NEW c, Apart(c), NEW k \in DOMAIN c.connections
    PROVE  Reads(c, finish_connection(c, k))
<1>1. PICK e : e = FinishOne(c, k, Client)
  OBVIOUS
<1>2. Client \in Directions /\ Server \in Directions
  BY DEF Directions
<1>3. Reads(c, e)
  BY <1>1, <1>2, FinishOneReads
<1>4. Reads(e, FinishOne(e, k, Server))
  BY <1>2, <1>3, FinishOneReads DEF Reads, SameTable
<1> QED
  BY <1>1, <1>3, <1>4, ReadsOn DEF finish_connection

LEMMA ArchiveReads ==
    ASSUME NEW c, Apart(c), NEW k
    PROVE  Reads(c, archive_session(c, k))
<1>1. PICK s : s = FinishPending(c.connections[k].session)
  OBVIOUS
<1>2. PICK e : e = [c EXCEPT !.completed = Append(@, s)]
  OBVIOUS
<1>3. /\ DOMAIN e = CaptureFields /\ e.states = c.states /\ e.connections = c.connections
      /\ e.routes = c.routes /\ e.next_connection = c.next_connection
  BY <1>2 DEF Apart, Shape, CaptureFields
<1>4. Reads(c, e)
  BY <1>3, OthersRead
<1>5. archive_session(c, k) = IF Speaks(s) THEN e ELSE c
  BY <1>1, <1>2 DEF archive_session
<1> QED
  BY <1>4, <1>5, ReadsNothing

LEMMA EndedReads ==
    ASSUME NEW c, Apart(c), NEW k \in DOMAIN c.connections
    PROVE  Reads(c, Ended(c, k))
<1>1. PICK e : e = finish_connection(c, k)
  OBVIOUS
<1>2. Reads(c, e)
  BY <1>1, FinishConnectionReads
<1>3. Reads(e, archive_session(e, k))
  BY <1>2, ArchiveReads DEF Reads
<1> QED
  BY <1>1, <1>2, <1>3, ReadsOn DEF Ended

-----------------------------------------------------------------------------
\* An entry for the n-th connection of its endpoints.
HeldFor(conn, n) ==
    conn.instance = n /\ (conn.syn = None \/ (conn.syn \in Nat /\ conn.syn <= n))

\* The same behind a frame of it: the SYN of a later connection is not taken
\* for a repetition.
Live(conn, n) == HeldFor(conn, n) /\ (conn.closed \/ conn.observed_payload \/ conn.syn # None)

\* Entries stay what they are.
Stays(c, e, k) == \A n : Live(c.connections[k], n) => Live(e.connections[k], n)

LEMMA ReadsStays ==
    ASSUME NEW c, NEW e, Reads(c, e)
    PROVE  /\ Apart(e) /\ DOMAIN e.connections = DOMAIN c.connections
           /\ \A k \in DOMAIN c.connections :
                 /\ Stays(c, e, k)
                 /\ \A n : HeldFor(c.connections[k], n) => HeldFor(e.connections[k], n)
BY DEF Reads, SameTable, Stays, Live, HeldFor

\* frame reads a segment of the n-th connection of k.
Handles(c, e, k, n) ==
    /\ Apart(e) /\ DOMAIN e.connections = DOMAIN c.connections \cup {k}
    /\ Live(e.connections[k], n)
    /\ \A l \in DOMAIN c.connections : l # k => Stays(c, e, l)

LEMMA OpeningApart ==
    ASSUME NEW c, Apart(c), NEW k \in Keys, NEW n \in DOMAIN Script[k]
    PROVE  LET e == Opening(c, k, n)
           IN  /\ Apart(e) /\ DOMAIN e.connections = DOMAIN c.connections \cup {k}
               /\ HeldFor(e.connections[k], n)
               /\ \A l \in DOMAIN c.connections : l # k => e.connections[l] = c.connections[l]
<1>1. PICK id, conn : id = c.next_connection + 1 /\ conn = NewConnection(id, n)
  OBVIOUS
<1>2. PICK e, T : e = Opening(c, k, n) /\ T = Put(c.connections, k, conn)
  OBVIOUS
<1>3. /\ DOMAIN T = DOMAIN c.connections \cup {k} /\ T[k] = conn
      /\ \A l \in DOMAIN c.connections : l # k => T[l] = c.connections[l]
  BY <1>2 DEF Put
<1>4. /\ DOMAIN e = CaptureFields /\ e.states = c.states /\ e.connections = T
      /\ e.routes = c.routes /\ e.next_connection = id
  <2>1. e = [c EXCEPT !.next_connection = id, !.connections = T]
    BY <1>1, <1>2 DEF Opening
  <2> QED
    BY <2>1 DEF Apart, Shape, CaptureFields
<1>5. /\ DOMAIN conn = ConnectionFields /\ conn.id = id /\ conn.instance = n /\ conn.syn = None
      /\ conn.directions = [d \in Directions |-> NewReassembly]
  BY <1>1 DEF NewConnection, ConnectionFields
<1>6. Entry(k, conn)
  <2>1. IsFiniteSet({})
    BY FS_EmptySet
  <2>2. \A d \in Directions : DirectionShape(NewReassembly, Positions(k, n, d))
    BY <2>1 DEF DirectionShape, NewReassembly
  <2> QED
    BY <1>5, <2>2 DEF Entry
<1>7. id \in Nat /\ id \in 1..id /\ \A x \in 1..c.next_connection : x \in 1..id /\ x # id
  BY <1>1 DEF Apart
<1>8. Shape(e) /\ Routed(e)
  BY <1>4 DEF Apart, Shape, Routed
<1>9. \A i \in DOMAIN e.states : /\ e.states[i].key.tcp \in 1..e.next_connection
                                 /\ \E m : From(e.states[i], m)
  BY <1>4, <1>7 DEF Apart
<1>10. ASSUME NEW l \in DOMAIN T
       PROVE  l \in Keys /\ Entry(l, T[l]) /\ T[l].id \in 1..id /\ Own(e, T[l])
  <2>1. CASE l = k
    <3>1. Own(e, conn)
      BY <1>4, <1>5, <1>7 DEF Apart, Own
    <3> QED
      BY <1>3, <1>5, <1>6, <1>7, <2>1, <3>1
  <2>2. CASE l # k
    BY <1>3, <1>4, <1>7, <2>2 DEF Apart, Own
  <2> QED
    BY <2>1, <2>2
<1>11. \A l, m \in DOMAIN T : T[l].id = T[m].id => l = m
  <2>1. \A l \in DOMAIN T : l # k => l \in DOMAIN c.connections /\ T[l].id # id
    BY <1>3, <1>7 DEF Apart
  <2> QED
    BY <1>3, <1>5, <2>1 DEF Apart
<1>12. Apart(e)
  BY <1>4, <1>7, <1>8, <1>9, <1>10, <1>11 DEF Apart
<1>13. HeldFor(conn, n)
  BY <1>5 DEF HeldFor
<1> QED
  BY <1>2, <1>3, <1>4, <1>12, <1>13

\* An entry that is given a SYN, closed, or noted to have carried data.
LEMMA SynApart ==
    ASSUME NEW c, Apart(c), NEW k \in DOMAIN c.connections, NEW n \in Nat, None \notin Nat,
           HeldFor(c.connections[k], n)
    PROVE  LET e == [c EXCEPT !.connections[k].syn = n]
           IN  Handles(c, e, k, n)
<1>1. PICK conn : conn = [c.connections[k] EXCEPT !.syn = n]
  OBVIOUS
<1>2. PICK e : e = [c EXCEPT !.connections[k] = conn]
  OBVIOUS
<1>3. Entry(k, c.connections[k])
  BY DEF Apart
<1>4. /\ DOMAIN conn = ConnectionFields /\ conn.id = c.connections[k].id
      /\ conn.instance = c.connections[k].instance /\ conn.syn = n
      /\ conn.directions = c.connections[k].directions
  BY <1>1, <1>3 DEF Entry, ConnectionFields
<1>5. Entry(k, conn)
  BY <1>3, <1>4 DEF Entry
<1>6. /\ Apart(e) /\ e.connections[k] = conn /\ DOMAIN e.connections = DOMAIN c.connections
      /\ \A l \in DOMAIN c.connections : l # k => e.connections[l] = c.connections[l]
  BY <1>2, <1>4, <1>5, EntryApart
<1>7. Live(conn, n)
  BY <1>4 DEF Live, HeldFor
<1>8. e = [c EXCEPT !.connections[k].syn = n]
  BY <1>1, <1>2
<1>9. \A l \in DOMAIN c.connections : l # k => Stays(c, e, l)
  BY <1>6 DEF Stays
<1> QED
  BY <1>6, <1>7, <1>8, <1>9 DEF Handles

LEMMA DataApart ==
    ASSUME NEW c, Apart(c), NEW k \in DOMAIN c.connections, NEW n,
           HeldFor(c.connections[k], n)
    PROVE  LET e == [c EXCEPT !.connections[k].observed_payload = TRUE]
           IN  Handles(c, e, k, n)
<1>1. PICK conn : conn = [c.connections[k] EXCEPT !.observed_payload = TRUE]
  OBVIOUS
<1>2. PICK e : e = [c EXCEPT !.connections[k] = conn]
  OBVIOUS
<1>3. Entry(k, c.connections[k])
  BY DEF Apart
<1>4. /\ DOMAIN conn = ConnectionFields /\ conn.id = c.connections[k].id
      /\ conn.instance = c.connections[k].instance /\ conn.syn = c.connections[k].syn
      /\ conn.observed_payload = TRUE
      /\ conn.directions = c.connections[k].directions
  BY <1>1, <1>3 DEF Entry, ConnectionFields
<1>5. Entry(k, conn)
  BY <1>3, <1>4 DEF Entry
<1>6. /\ Apart(e) /\ e.connections[k] = conn /\ DOMAIN e.connections = DOMAIN c.connections
      /\ \A l \in DOMAIN c.connections : l # k => e.connections[l] = c.connections[l]
  BY <1>2, <1>4, <1>5, EntryApart
<1>7. Live(conn, n)
  BY <1>4 DEF Live, HeldFor
<1>8. e = [c EXCEPT !.connections[k].observed_payload = TRUE]
  BY <1>1, <1>2
<1>9. \A l \in DOMAIN c.connections : l # k => Stays(c, e, l)
  BY <1>6 DEF Stays
<1> QED
  BY <1>6, <1>7, <1>8, <1>9 DEF Handles

LEMMA ClosedApart ==
    ASSUME NEW c, Apart(c), NEW k \in DOMAIN c.connections, NEW n,
           HeldFor(c.connections[k], n)
    PROVE  LET e == [c EXCEPT !.connections[k].closed = TRUE]
           IN  Handles(c, e, k, n)
<1>1. PICK conn : conn = [c.connections[k] EXCEPT !.closed = TRUE]
  OBVIOUS
<1>2. PICK e : e = [c EXCEPT !.connections[k] = conn]
  OBVIOUS
<1>3. Entry(k, c.connections[k])
  BY DEF Apart
<1>4. /\ DOMAIN conn = ConnectionFields /\ conn.id = c.connections[k].id
      /\ conn.instance = c.connections[k].instance /\ conn.syn = c.connections[k].syn
      /\ conn.closed = TRUE
      /\ conn.directions = c.connections[k].directions
  BY <1>1, <1>3 DEF Entry, ConnectionFields
<1>5. Entry(k, conn)
  BY <1>3, <1>4 DEF Entry
<1>6. /\ Apart(e) /\ e.connections[k] = conn /\ DOMAIN e.connections = DOMAIN c.connections
      /\ \A l \in DOMAIN c.connections : l # k => e.connections[l] = c.connections[l]
  BY <1>2, <1>4, <1>5, EntryApart
<1>7. Live(conn, n)
  BY <1>4 DEF Live, HeldFor
<1>8. e = [c EXCEPT !.connections[k].closed = TRUE]
  BY <1>1, <1>2
<1>9. \A l \in DOMAIN c.connections : l # k => Stays(c, e, l)
  BY <1>6 DEF Stays
<1> QED
  BY <1>6, <1>7, <1>8, <1>9 DEF Handles

LEMMA HandlesReads ==
    ASSUME NEW c, NEW d, NEW e, NEW k, NEW n, Handles(c, d, k, n), Reads(d, e)
    PROVE  Handles(c, e, k, n)
<1>1. /\ Apart(e) /\ DOMAIN e.connections = DOMAIN d.connections
      /\ \A l \in DOMAIN d.connections : Stays(d, e, l)
  BY ReadsStays
<1> QED
  BY <1>1 DEF Handles, Stays

LEMMA AdmittedApart ==
    ASSUME NEW c, Apart(c), NEW k \in Keys, NEW n \in DOMAIN Script[k]
    PROVE  LET e == Admitted(c, k, n)
           IN  /\ Apart(e) /\ DOMAIN e.connections = DOMAIN c.connections \cup {k}
               /\ k \in DOMAIN c.connections => e = c
               /\ k \notin DOMAIN c.connections => HeldFor(e.connections[k], n)
               /\ \A l \in DOMAIN c.connections : l # k => Stays(c, e, l)
<1>1. PICK e : e = Admitted(c, k, n)
  OBVIOUS
<1>2. CASE k \in DOMAIN c.connections
  <2>1. e = c /\ DOMAIN c.connections \cup {k} = DOMAIN c.connections
    BY <1>1, <1>2 DEF Admitted
  <2> QED
    BY <1>1, <1>2, <2>1 DEF Stays
<1>3. CASE k \notin DOMAIN c.connections
  <2>1. e = Opening(c, k, n)
    BY <1>1, <1>3 DEF Admitted
  <2>2. /\ Apart(e) /\ DOMAIN e.connections = DOMAIN c.connections \cup {k}
        /\ HeldFor(e.connections[k], n)
        /\ \A l \in DOMAIN c.connections : l # k => e.connections[l] = c.connections[l]
    BY <2>1, OpeningApart
  <2> QED
    BY <1>1, <1>3, <2>2 DEF Stays
<1> QED
  BY <1>2, <1>3

LEMMA HandlesFrom ==
    ASSUME NEW c, NEW d, NEW e, NEW k, NEW n,
           DOMAIN d.connections = DOMAIN c.connections \cup {k},
           \A l \in DOMAIN c.connections : l # k => Stays(c, d, l), Handles(d, e, k, n)
    PROVE  Handles(c, e, k, n)
BY DEF Handles, Stays

-----------------------------------------------------------------------------
\* An entry that a SYN of the n-th connection may meet.
Before(conn, n) == HeldFor(conn, n) \/ \E m \in Nat : m < n /\ Live(conn, m)

LEMMA NumbersAre ==
    ASSUME NEW k \in Keys
    PROVE  /\ Len(Script[k]) \in Nat /\ DOMAIN Script[k] = 1..Len(Script[k])
           /\ DOMAIN Script[k] \subseteq Nat /\ None \notin Nat
<1>1. PICK last : last = Len(Script[k])
  OBVIOUS
<1>2. last \in Nat /\ DOMAIN Script[k] = 1..last /\ None \notin Nat
  BY <1>1, ScriptAssumption
<1> QED
  BY <1>1, <1>2

LEMMA BeginHandles ==
    ASSUME NEW c, Apart(c), NEW k \in DOMAIN c.connections, NEW n \in DOMAIN Script[k],
           Before(c.connections[k], n)
    PROVE  Handles(c, Begin(c, k, n), k, n)
<1>1. k \in Keys
  BY DEF Apart
<1>2. n \in Nat /\ None \notin Nat
  BY <1>1, NumbersAre
<1>3. CASE IsNewConnection(c.connections[k], n)
  <2>1. PICK ended, opened : ended = Ended(c, k) /\ opened = Opening(ended, k, n)
    OBVIOUS
  <2>2. Begin(c, k, n) = [opened EXCEPT !.connections[k].syn = n]
    BY <1>3, <2>1 DEF Begin
  <2>3. Reads(c, ended)
    BY <2>1, EndedReads
  <2>4. /\ Apart(ended) /\ DOMAIN ended.connections = DOMAIN c.connections
        /\ \A l \in DOMAIN c.connections : Stays(c, ended, l)
    BY <2>3, ReadsStays
  <2>5. /\ Apart(opened) /\ DOMAIN opened.connections = DOMAIN ended.connections \cup {k}
        /\ HeldFor(opened.connections[k], n)
        /\ \A l \in DOMAIN ended.connections :
              l # k => opened.connections[l] = ended.connections[l]
    BY <1>1, <2>1, <2>4, OpeningApart
  <2>6. Handles(opened, [opened EXCEPT !.connections[k].syn = n], k, n)
    BY <1>2, <2>5, SynApart
  <2>7. DOMAIN opened.connections = DOMAIN c.connections \cup {k}
    BY <2>4, <2>5
  <2>8. \A l \in DOMAIN c.connections : l # k => Stays(c, opened, l)
    BY <2>4, <2>5 DEF Stays
  <2> QED
    BY <2>2, <2>6, <2>7, <2>8, HandlesFrom
<1>4. CASE ~IsNewConnection(c.connections[k], n)
  <2>1. HeldFor(c.connections[k], n)
    <3>1. SUFFICES ASSUME NEW m \in Nat, m < n, Live(c.connections[k], m) PROVE FALSE
      BY DEF Before
    <3>2. PICK syn : syn = c.connections[k].syn
      OBVIOUS
    <3>3. ~c.connections[k].closed
      BY <1>4 DEF IsNewConnection
    <3>4. c.connections[k].observed_payload \/ syn # None
      BY <3>1, <3>2, <3>3 DEF Live
    <3>5. syn = n
      BY <1>4, <3>2, <3>4 DEF IsNewConnection
    <3>6. syn = None \/ (syn \in Nat /\ syn <= m)
      BY <3>1, <3>2 DEF Live, HeldFor
    <3> QED
      BY <1>2, <3>1, <3>5, <3>6
  <2>2. Begin(c, k, n) = [c EXCEPT !.connections[k].syn = n]
    BY <1>4 DEF Begin
  <2> QED
    BY <1>2, <2>1, <2>2, SynApart
<1> QED
  BY <1>3, <1>4

LEMMA AnchoredReads ==
    ASSUME NEW c, Apart(c), NEW k \in DOMAIN c.connections, NEW d \in Directions
    PROVE  Reads(c, [c EXCEPT !.connections[k].directions[d].next = IF @ = None THEN 1 ELSE @])
<1>1. PICK n, old : n = c.connections[k].instance /\ old = c.connections[k].directions[d]
  OBVIOUS
<1>2. DirectionShape(old, Positions(k, n, d))
  BY <1>1 DEF Apart, Entry
<1>3. PICK x : x = IF old.next = None THEN 1 ELSE old.next
  OBVIOUS
<1>4. PICK q : q = [old EXCEPT !.next = x]
  OBVIOUS
<1>5. DirectionShape(q, Positions(k, n, d))
  BY <1>2, <1>4 DEF DirectionShape
<1>6. Reads(c, [c EXCEPT !.connections[k].directions[d] = q])
  BY <1>1, <1>5, DirectionReads
<1>7. [c EXCEPT !.connections[k].directions[d].next = IF @ = None THEN 1 ELSE @]
        = [c EXCEPT !.connections[k].directions[d] = q]
  BY <1>1, <1>3, <1>4
<1> QED
  BY <1>6, <1>7

LEMMA SynHandles ==
    ASSUME NEW c, Apart(c), NEW k \in Keys, NEW n \in DOMAIN Script[k],
           k \in DOMAIN c.connections => Before(c.connections[k], n)
    PROVE  Handles(c, SynFrame(c, k, n, Client), k, n)
<1>1. PICK admitted, begun : admitted = Admitted(c, k, n) /\ begun = Begin(admitted, k, n)
  OBVIOUS
<1>2. /\ Apart(admitted) /\ DOMAIN admitted.connections = DOMAIN c.connections \cup {k}
      /\ k \in DOMAIN c.connections => admitted = c
      /\ k \notin DOMAIN c.connections => HeldFor(admitted.connections[k], n)
      /\ \A l \in DOMAIN c.connections : l # k => Stays(c, admitted, l)
  BY <1>1, AdmittedApart
<1>3. Before(admitted.connections[k], n)
  BY <1>2 DEF Before
<1>4. Handles(admitted, begun, k, n)
  BY <1>1, <1>2, <1>3, BeginHandles
<1>5. Handles(c, begun, k, n)
  BY <1>2, <1>4, HandlesFrom
<1>6. Apart(begun) /\ k \in DOMAIN begun.connections /\ Client \in Directions
  BY <1>5 DEF Handles, Directions
<1>7. SynFrame(c, k, n, Client)
        = [begun EXCEPT !.connections[k].directions[Client].next = IF @ = None THEN 1 ELSE @]
  BY <1>1 DEF SynFrame
<1>8. Reads(begun, SynFrame(c, k, n, Client))
  BY <1>6, <1>7, AnchoredReads
<1> QED
  BY <1>5, <1>8, HandlesReads

LEMMA AnswerReads ==
    ASSUME NEW c, Apart(c), NEW k \in DOMAIN c.connections, NEW n
    PROVE  Reads(c, SynFrame(c, k, n, Server))
<1>1. Server # Client /\ Server \in Directions
  BY DEF Server, Client, Directions
<1>2. SynFrame(c, k, n, Server)
        = [c EXCEPT !.connections[k].directions[Server].next = IF @ = None THEN 1 ELSE @]
  BY <1>1 DEF SynFrame, Admitted
<1> QED
  BY <1>1, <1>2, AnchoredReads

LEMMA DataHandles ==
    ASSUME NEW c, Apart(c), NEW k \in Keys, NEW n \in DOMAIN Script[k],
           k \in DOMAIN c.connections => HeldFor(c.connections[k], n),
           NEW d \in Directions, NEW p \in Positions(k, n, d), NEW guess, NEW skip
    PROVE  Handles(c, DataFrame(c, k, n, d, p, guess, skip), k, n)
<1>1. PICK m, admitted : m = Script[k][n][d][p] /\ admitted = Admitted(c, k, n)
  OBVIOUS
<1>2. PICK open : open = [admitted EXCEPT !.connections[k].observed_payload = TRUE]
  OBVIOUS
<1>3. PICK read : read = IF IsRtsp(m) THEN RtspMessage(open, k, m) ELSE open
  OBVIOUS
<1>4. /\ Apart(admitted) /\ DOMAIN admitted.connections = DOMAIN c.connections \cup {k}
      /\ HeldFor(admitted.connections[k], n)
      /\ \A l \in DOMAIN c.connections : l # k => Stays(c, admitted, l)
  BY <1>1, AdmittedApart
<1>5. Handles(admitted, open, k, n)
  BY <1>2, <1>4, DataApart
<1>6. Handles(c, open, k, n)
  BY <1>4, <1>5, HandlesFrom
<1>7. Apart(open) /\ k \in DOMAIN open.connections
  BY <1>6 DEF Handles
<1>8. Reads(open, read)
  BY <1>3, <1>7, ObservedReads, ReadsNothing DEF RtspMessage
<1>9. Handles(c, read, k, n)
  BY <1>6, <1>8, HandlesReads
<1>10. /\ Apart(read) /\ k \in DOMAIN read.connections
       /\ n = read.connections[k].instance
  BY <1>9 DEF Handles, Live, HeldFor
<1>11. Reads(read, Pushed(read, k, n, d, p, guess, skip))
  BY <1>10, PushedReads
<1>12. DataFrame(c, k, n, d, p, guess, skip) = Pushed(read, k, n, d, p, guess, skip)
  BY <1>1, <1>2, <1>3 DEF DataFrame
<1> QED
  BY <1>9, <1>11, <1>12, HandlesReads

LEMMA FinHandles ==
    ASSUME NEW c, Apart(c), NEW k \in Keys, NEW n \in DOMAIN Script[k],
           k \in DOMAIN c.connections => HeldFor(c.connections[k], n)
    PROVE  Handles(c, FinFrame(c, k, n), k, n)
<1>1. PICK admitted : admitted = Admitted(c, k, n)
  OBVIOUS
<1>2. PICK closed : closed = [admitted EXCEPT !.connections[k].closed = TRUE]
  OBVIOUS
<1>3. /\ Apart(admitted) /\ DOMAIN admitted.connections = DOMAIN c.connections \cup {k}
      /\ HeldFor(admitted.connections[k], n)
      /\ \A l \in DOMAIN c.connections : l # k => Stays(c, admitted, l)
  BY <1>1, AdmittedApart
<1>4. Handles(admitted, closed, k, n)
  BY <1>2, <1>3, ClosedApart
<1>5. Handles(c, closed, k, n)
  BY <1>3, <1>4, HandlesFrom
<1>6. Apart(closed) /\ k \in DOMAIN closed.connections
  BY <1>5 DEF Handles
<1>7. Reads(closed, finish_connection(closed, k))
  BY <1>6, FinishConnectionReads
<1>8. FinFrame(c, k, n) = finish_connection(closed, k)
  BY <1>1, <1>2 DEF FinFrame
<1> QED
  BY <1>5, <1>7, <1>8, HandlesReads

LEMMA EvictApart ==
    ASSUME NEW c, Apart(c)
    PROVE  LET e == Evict(c)
           IN  /\ Apart(e) /\ DOMAIN e.connections \subseteq DOMAIN c.connections
               /\ \A k \in DOMAIN e.connections : e.connections[k] = c.connections[k]
<1>1. PICK T : T = [k \in {x \in DOMAIN c.connections : ~c.connections[x].closed} |->
                        c.connections[k]]
  OBVIOUS
<1>2. PICK e : e = [c EXCEPT !.connections = T]
  OBVIOUS
<1>3. DOMAIN T \subseteq DOMAIN c.connections /\ \A k \in DOMAIN T : T[k] = c.connections[k]
  BY <1>1
<1>4. /\ DOMAIN e = CaptureFields /\ e.states = c.states /\ e.connections = T
      /\ e.routes = c.routes /\ e.next_connection = c.next_connection
  BY <1>2 DEF Apart, Shape, CaptureFields
<1>5. Shape(e) /\ Routed(e)
  BY <1>4 DEF Apart, Shape, Routed
<1>6. \A conn : Own(c, conn) => Own(e, conn)
  BY <1>4 DEF Own
<1>7. \A k \in DOMAIN T : /\ k \in Keys /\ Entry(k, T[k])
                          /\ T[k].id \in 1..c.next_connection /\ Own(e, T[k])
  BY <1>3, <1>6 DEF Apart
<1>8. \A k, l \in DOMAIN T : T[k].id = T[l].id => k = l
  BY <1>3 DEF Apart
<1>9. Apart(e)
  BY <1>4, <1>5, <1>7, <1>8 DEF Apart
<1>10. Evict(c) = IF Cardinality(DOMAIN c.connections) < MaxConnections THEN c ELSE e
  BY <1>1, <1>2 DEF Evict
<1> QED
  BY <1>3, <1>4, <1>9, <1>10

-----------------------------------------------------------------------------
\* The connections that the end of the file ends, one after the other.
EndsOf(f, x, q, n) == f = [i \in 0..n |-> IF i = 0 THEN x ELSE Ended(f[i - 1], q[i])]

LEMMA EndsExist ==
    ASSUME NEW x, NEW q, NEW n \in Nat
    PROVE  \E f : EndsOf(f, x, q, n)
<1> DEFINE G == {m \in Nat : \E f : f = [i \in 0..m |->
                     IF i = 0 THEN x ELSE Ended(f[i - 1], q[i])]}
<1>1. 0 \in G
  <2> DEFINE f == [i \in 0..0 |-> x]
  <2>1. f = [i \in 0..0 |-> IF i = 0 THEN x ELSE Ended(f[i - 1], q[i])]
    OBVIOUS
  <2> QED
    BY <2>1
<1>2. ASSUME NEW m \in 1..n, m - 1 \in G PROVE m \in G
  <2>1. PICK f : f = [i \in 0..(m - 1) |-> IF i = 0 THEN x ELSE Ended(f[i - 1], q[i])]
    BY <1>2
  <2> DEFINE g == [i \in 0..m |-> IF i = m THEN Ended(f[m - 1], q[m]) ELSE f[i]]
  <2>2. \A i \in 0..m : g[i] = IF i = 0 THEN x ELSE Ended(g[i - 1], q[i])
    <3> SUFFICES ASSUME NEW i \in 0..m
                 PROVE  g[i] = IF i = 0 THEN x ELSE Ended(g[i - 1], q[i])
      OBVIOUS
    <3>1. CASE i = m
      <4>1. i # 0 /\ i - 1 \in 0..m /\ i - 1 # m /\ i - 1 = m - 1
        BY <3>1
      <4> QED
        BY <3>1, <4>1
    <3>2. CASE i # m
      <4>1. i \in 0..(m - 1) /\ (i # 0 => i - 1 \in 0..m /\ i - 1 # m)
        BY <3>2
      <4>2. f[i] = IF i = 0 THEN x ELSE Ended(f[i - 1], q[i])
        BY <2>1, <4>1
      <4> QED
        BY <3>2, <4>1, <4>2
    <3> QED
      BY <3>1, <3>2
  <2>3. g = [i \in 0..m |-> IF i = 0 THEN x ELSE Ended(g[i - 1], q[i])]
    BY <2>2
  <2> HIDE DEF g
  <2>4. m \in Nat
    OBVIOUS
  <2> QED
    BY <2>3, <2>4
<1> HIDE DEF G
<1>3. n \in G
  BY <1>1, <1>2, Upwards
<1> QED
  BY <1>3 DEF G, EndsOf

LEMMA ListedIs ==
    ASSUME NEW S, IsFiniteSet(S)
    PROVE  /\ Len(SetToSeq(S)) \in Nat
           /\ \A i \in 1..Len(SetToSeq(S)) : SetToSeq(S)[i] \in S
<1>1. PICK n : n = Cardinality(S)
  OBVIOUS
<1>2. n \in Nat
  BY <1>1, FS_CardinalityType
<1>3. \E f \in [1..n -> S] : IsInjective(f)
  <2>1. PICK m \in Nat : ExistsBijection(1..m, S)
    BY FS_NatBijection
  <2>2. m = n
    BY <1>1, <2>1, FS_CountingElements
  <2> QED
    BY <2>1, <2>2 DEF ExistsBijection, Bijection, Injection
<1>4. PICK q : q = SetToSeq(S)
  OBVIOUS
<1>5. q \in [1..n -> S]
  <2>1. q = CHOOSE f \in [1..n -> S] : IsInjective(f)
    BY <1>1, <1>4 DEF SetToSeq
  <2> QED
    BY <1>3, <2>1
<1>6. q \in Seq(S)
  BY <1>2, <1>5, SeqDef
<1> QED
  BY <1>4, <1>6, LenProperties, ElementOfSeq

LEMMA ArchivedReads ==
    ASSUME NEW c, Apart(c)
    PROVE  Reads(c, Archived(c))
<1>1. IsFiniteSet(DOMAIN c.connections)
  <2>1. DOMAIN c.connections \subseteq Keys
    BY DEF Apart
  <2>2. IsFiniteSet(Keys)
    BY ScriptAssumption
  <2> QED
    BY <2>1, <2>2, FS_Subset
<1>2. PICK q, last : q = SetToSeq(DOMAIN c.connections) /\ last = Len(q)
  OBVIOUS
<1>3. last \in Nat /\ \A i \in 1..last : q[i] \in DOMAIN c.connections
  BY <1>1, <1>2, ListedIs
<1> DEFINE done == CHOOSE f : f = [i \in 0..Len(q) |->
                       IF i = 0 THEN c ELSE Ended(f[i - 1], q[i])]
<1>4. Archived(c) = done[Len(q)]
  BY <1>2 DEF Archived
<1>5. done = [i \in 0..last |-> IF i = 0 THEN c ELSE Ended(done[i - 1], q[i])]
  <2>1. \E f : f = [i \in 0..last |-> IF i = 0 THEN c ELSE Ended(f[i - 1], q[i])]
    <3>1. PICK f : EndsOf(f, c, q, last)
      BY <1>3, EndsExist
    <3> QED
      BY <3>1 DEF EndsOf
  <2> QED
    BY <1>2, <2>1
<1> HIDE DEF done
<1>6. PICK G : G = {i \in 0..last : Reads(c, done[i])}
  OBVIOUS
<1>7. 0 \in G
  <2>1. 0 \in 0..last
    BY <1>3
  <2>2. done[0] = c
    BY <1>5, <2>1
  <2> QED
    BY <1>6, <2>1, <2>2, ReadsNothing
<1>8. ASSUME NEW i \in 1..last, i - 1 \in G PROVE i \in G
  <2>1. i \in 0..last /\ i # 0 /\ i - 1 \in 0..last
    BY <1>3
  <2>2. PICK e : e = done[i - 1]
    OBVIOUS
  <2>3. done[i] = Ended(e, q[i])
    BY <1>5, <2>1, <2>2
  <2>4. Reads(c, e)
    BY <1>6, <1>8, <2>2
  <2>5. Apart(e) /\ q[i] \in DOMAIN e.connections
    BY <1>3, <2>4 DEF Reads, SameTable
  <2>6. Reads(e, done[i])
    BY <2>3, <2>5, EndedReads
  <2> QED
    BY <1>6, <2>1, <2>4, <2>6, ReadsOn
<1>9. last \in G
  <2>1. \A i \in 0..last : i \in G
    BY <1>3, <1>7, <1>8, Upwards
  <2> QED
    BY <1>3, <2>1
<1> QED
  BY <1>2, <1>4, <1>6, <1>9

-----------------------------------------------------------------------------
(* The invariant: what is captured is kept apart, and the table holds the   *)
(* connection that is open on the hosts, or the last that was.              *)
HostShape(k, h) ==
    /\ DOMAIN h = {"instance", "open", "opened", "front", "missed"}
    /\ h.instance \in Nat
    /\ DOMAIN h.front = Directions /\ DOMAIN h.missed = Directions
    /\ h.open => /\ h.instance \in DOMAIN Script[k]
                 /\ \A d \in Directions :
                       h.front[d] \in 0..Len(Script[k][h.instance][d])

NetShape == DOMAIN net = Keys /\ \A k \in Keys : HostShape(k, net[k])

Followed ==
    \A k \in DOMAIN capture.connections : Live(capture.connections[k], net[k].instance)

InvTcp == Apart(capture) /\ NetShape /\ Followed

\* What frame leaves behind a segment of the n-th connection of k.
AfterFrame(k, n) ==
    /\ Apart(capture')
    /\ \A l \in DOMAIN capture'.connections :
          Live(capture'.connections[l], IF l = k THEN n ELSE net[l].instance)

LEMMA RoomyIs ==
    ASSUME InvTcp
    PROVE  /\ Apart(Roomy) /\ DOMAIN Roomy.connections \subseteq DOMAIN capture.connections
           /\ \A k \in DOMAIN Roomy.connections : Live(Roomy.connections[k], net[k].instance)
<1>1. PICK e : e = Evict(capture)
  OBVIOUS
<1>2. /\ Apart(e) /\ DOMAIN e.connections \subseteq DOMAIN capture.connections
      /\ \A k \in DOMAIN e.connections : e.connections[k] = capture.connections[k]
  BY <1>1, EvictApart DEF InvTcp
<1> QED
  BY <1>1, <1>2 DEF InvTcp, Followed, Roomy

LEMMA FrameKeeps ==
    ASSUME InvTcp, NEW k \in Keys, NEW n, NEW e, Frame(e, k), Handles(Roomy, e, k, n)
    PROVE  AfterFrame(k, n)
<1>1. PICK roomy, w : roomy = Roomy /\ w = Warn(roomy, "connection_limit")
  OBVIOUS
<1>2. /\ Apart(roomy)
      /\ \A l \in DOMAIN roomy.connections : Live(roomy.connections[l], net[l].instance)
  BY <1>1, RoomyIs
<1>3. capture' = IF TableFull(roomy, k) THEN w ELSE e
  BY <1>1 DEF Frame
<1>4. CASE TableFull(roomy, k)
  <2>1. k \notin DOMAIN roomy.connections
    BY <1>4 DEF TableFull
  <2>2. Reads(roomy, w)
    BY <1>1, <1>2, WarnReads
  <2>3. /\ Apart(w) /\ DOMAIN w.connections = DOMAIN roomy.connections
        /\ \A l \in DOMAIN roomy.connections : Stays(roomy, w, l)
    BY <2>2, ReadsStays
  <2> QED
    BY <1>2, <1>3, <1>4, <2>1, <2>3 DEF AfterFrame, Stays
<1>5. CASE ~TableFull(roomy, k)
  <2>1. Handles(roomy, e, k, n)
    BY <1>1
  <2>2. ASSUME NEW l \in DOMAIN e.connections
        PROVE  Live(e.connections[l], IF l = k THEN n ELSE net[l].instance)
    BY <1>2, <2>1 DEF Handles, Stays
  <2> QED
    BY <1>3, <1>5, <2>1, <2>2 DEF AfterFrame, Handles
<1> QED
  BY <1>4, <1>5

LEMMA InvInit == InitTcp => InvTcp
<1> SUFFICES ASSUME InitTcp PROVE InvTcp
  OBVIOUS
<1>1. /\ DOMAIN capture = CaptureFields /\ capture.states = <<>>
      /\ DOMAIN capture.routes = {} /\ DOMAIN capture.connections = {}
      /\ capture.next_connection = 0
  BY DEF InitTcp, CaptureFields
<1>2. IsSeq(capture.states) /\ DOMAIN capture.states = {}
  BY <1>1, EmptySeq DEF IsSeq
<1>3. Apart(capture) /\ Followed
  <2>1. Shape(capture) /\ Routed(capture)
    BY <1>1, <1>2 DEF Shape, Routed
  <2>2. 0 \in Nat
    OBVIOUS
  <2> QED
    BY <1>1, <1>2, <2>1, <2>2 DEF Apart, Followed
<1>4. PICK begun \in Begun : net = [k \in Keys |-> NewNet(IF k \in begun THEN 1 ELSE 0)]
  BY DEF InitTcp
<1>5. ASSUME NEW k \in Keys PROVE HostShape(k, net[k])
  <2>1. PICK n : n = (IF k \in begun THEN 1 ELSE 0)
    OBVIOUS
  <2>2. n \in Nat /\ (n = 1 => n \in DOMAIN Script[k])
    BY <2>1, ScriptAssumption
  <2>3. net[k] = NewNet(n)
    BY <1>4, <2>1
  <2>4. n = 1 => \A d \in Directions : Len(Script[k][n][d]) \in Nat
    BY <2>2, ScriptIs
  <2>5. n = 1 => \A d \in Directions : 0 \in 0..Len(Script[k][n][d])
    BY <2>4
  <2>6. PICK h : h = net[k]
    OBVIOUS
  <2>7. /\ DOMAIN h = {"instance", "open", "opened", "front", "missed"} /\ h.instance = n
        /\ h.open = (n = 1) /\ h.front = [d \in Directions |-> 0]
        /\ h.missed = [d \in Directions |-> {}]
    BY <2>3, <2>6 DEF NewNet
  <2>8. h.open => n = 1
    BY <2>7
  <2>9. DOMAIN h.front = Directions /\ DOMAIN h.missed = Directions
        /\ \A d \in Directions : h.front[d] = 0
    BY <2>7
  <2> QED
    BY <2>2, <2>5, <2>6, <2>7, <2>8, <2>9 DEF HostShape
<1> QED
  BY <1>3, <1>4, <1>5 DEF InvTcp, NetShape

\* The hosts changed at k alone.
LEMMA HostsChange ==
    ASSUME InvTcp, NEW k \in Keys, NEW h, net' = [net EXCEPT ![k] = h], HostShape(k, h),
           AfterFrame(k, h.instance)
    PROVE  InvTcp'
<1>1. DOMAIN net' = Keys /\ net'[k] = h /\ \A l \in Keys : l # k => net'[l] = net[l]
  BY DEF InvTcp, NetShape
<1>2. NetShape'
  BY <1>1 DEF InvTcp, NetShape
<1>3. \A l \in DOMAIN capture'.connections : l \in Keys
  BY DEF AfterFrame, Apart
<1>4. Followed'
  BY <1>1, <1>3 DEF AfterFrame, Followed
<1> QED
  BY <1>2, <1>4 DEF InvTcp, AfterFrame

LEMMA HostsStay ==
    ASSUME InvTcp, NEW k \in Keys, UNCHANGED net, AfterFrame(k, net[k].instance)
    PROVE  InvTcp'
<1>1. NetShape'
  BY DEF InvTcp, NetShape
<1>2. Followed'
  BY DEF AfterFrame, Followed
<1> QED
  BY <1>1, <1>2 DEF InvTcp, AfterFrame

-----------------------------------------------------------------------------
LEMMA SegmentBehind ==
    ASSUME InvTcp, NEW k \in Keys, NEW d \in Directions, net[k].open, NEW p,
           p \in 1..Len(Script[k][net[k].instance][d]), NEW guess, NEW skip,
           Segment(k, d, p, guess, skip)
    PROVE  AfterFrame(k, net[k].instance)
<1>1. PICK n : n = net[k].instance
  OBVIOUS
<1>2. n \in DOMAIN Script[k]
  BY <1>1 DEF InvTcp, NetShape, HostShape
<1>3. PICK last : last = Len(Script[k][n][d])
  OBVIOUS
<1>4. Positions(k, n, d) = 1..last
  BY <1>2, <1>3, ScriptIs
<1>5. p \in Positions(k, n, d)
  BY <1>1, <1>3, <1>4
<1>6. Apart(Roomy) /\ (k \in DOMAIN Roomy.connections => HeldFor(Roomy.connections[k], n))
  BY <1>1, RoomyIs DEF Live
<1>7. Handles(Roomy, DataFrame(Roomy, k, n, d, p, guess, skip), k, n)
  BY <1>2, <1>5, <1>6, DataHandles
<1>8. Frame(DataFrame(Roomy, k, n, d, p, guess, skip), k)
  BY <1>1 DEF Segment
<1> QED
  BY <1>1, <1>7, <1>8, FrameKeeps

LEMMA OpenKeeps ==
    ASSUME InvTcp, NEW k \in Keys, NEW answered \in BOOLEAN, Open(k, answered)
    PROVE  InvTcp'
<1>1. PICK n, h : n = net[k].instance + 1 /\ h = [NewNet(n) EXCEPT !.open = TRUE, !.opened = TRUE]
  OBVIOUS
<1>2. PICK begun : begun = SynFrame(Roomy, k, n, Client)
  OBVIOUS
<1>3. PICK e : e = IF answered THEN SynFrame(begun, k, n, Server) ELSE begun
  OBVIOUS
<1>4. /\ n <= Len(Script[k]) /\ net' = [net EXCEPT ![k] = h] /\ Frame(e, k)
  BY <1>1, <1>2, <1>3 DEF Open
<1>5. net[k].instance \in Nat
  BY DEF InvTcp, NetShape, HostShape
<1>6. n \in Nat /\ n \in DOMAIN Script[k] /\ net[k].instance < n
  <2>1. PICK last : last = Len(Script[k])
    OBVIOUS
  <2>2. last \in Nat /\ DOMAIN Script[k] = 1..last
    BY <2>1, NumbersAre
  <2> QED
    BY <1>1, <1>4, <1>5, <2>1, <2>2
<1>7. Apart(Roomy) /\ (k \in DOMAIN Roomy.connections => Before(Roomy.connections[k], n))
  BY <1>5, <1>6, RoomyIs DEF Before
<1>8. Handles(Roomy, begun, k, n)
  BY <1>2, <1>6, <1>7, SynHandles
<1>9. Handles(Roomy, e, k, n)
  <2>1. Apart(begun) /\ k \in DOMAIN begun.connections
    BY <1>8 DEF Handles
  <2>2. Reads(begun, SynFrame(begun, k, n, Server))
    BY <2>1, AnswerReads
  <2> QED
    BY <1>3, <1>8, <2>2, HandlesReads
<1>10. AfterFrame(k, n)
  BY <1>4, <1>9, FrameKeeps
<1>11. HostShape(k, h) /\ h.instance = n
  <2>1. /\ DOMAIN h = {"instance", "open", "opened", "front", "missed"} /\ h.instance = n
        /\ h.front = [d \in Directions |-> 0] /\ h.missed = [d \in Directions |-> {}]
    BY <1>1 DEF NewNet
  <2>2. \A d \in Directions : 0 \in 0..Len(Script[k][n][d])
    <3> SUFFICES ASSUME NEW d \in Directions PROVE 0 \in 0..Len(Script[k][n][d])
      OBVIOUS
    <3>1. PICK last : last = Len(Script[k][n][d])
      OBVIOUS
    <3>2. last \in Nat
      BY <1>6, <3>1, ScriptIs
    <3> QED
      BY <3>1, <3>2
  <2>3. DOMAIN h.front = Directions /\ DOMAIN h.missed = Directions
        /\ \A d \in Directions : h.front[d] = 0
    BY <2>1
  <2> QED
    BY <1>6, <2>1, <2>2, <2>3 DEF HostShape
<1> QED
  BY <1>4, <1>10, <1>11, HostsChange

LEMMA RepeatSynKeeps ==
    ASSUME InvTcp, NEW k \in Keys, RepeatSyn(k)
    PROVE  InvTcp'
<1>1. PICK n : n = net[k].instance
  OBVIOUS
<1>2. n \in DOMAIN Script[k]
  BY <1>1 DEF RepeatSyn, InvTcp, NetShape, HostShape
<1>3. Apart(Roomy) /\ (k \in DOMAIN Roomy.connections => Before(Roomy.connections[k], n))
  BY <1>1, RoomyIs DEF Before, Live
<1>4. Handles(Roomy, SynFrame(Roomy, k, n, Client), k, n)
  BY <1>2, <1>3, SynHandles
<1>5. AfterFrame(k, n)
  BY <1>1, <1>4, FrameKeeps DEF RepeatSyn
<1> QED
  BY <1>1, <1>5, HostsStay DEF RepeatSyn

\* What the hosts do without a frame.
LEMMA Unseen ==
    ASSUME InvTcp, NEW k \in Keys, UNCHANGED capture
    PROVE  AfterFrame(k, net[k].instance)
BY DEF InvTcp, Followed, AfterFrame

LEMMA CloseKeeps ==
    ASSUME InvTcp, NEW k \in Keys, Close(k)
    PROVE  InvTcp'
<1>1. PICK n, h : n = net[k].instance /\ h = [net[k] EXCEPT !.open = FALSE]
  OBVIOUS
<1>2. net' = [net EXCEPT ![k] = h]
  BY <1>1 DEF Close
<1>3. HostShape(k, h) /\ h.instance = n
  <2>1. HostShape(k, net[k])
    BY DEF InvTcp, NetShape
  <2>2. /\ DOMAIN h = {"instance", "open", "opened", "front", "missed"} /\ h.instance = n
        /\ h.front = net[k].front /\ h.missed = net[k].missed /\ ~h.open
    BY <1>1, <2>1 DEF HostShape
  <2> QED
    BY <1>1, <2>1, <2>2 DEF HostShape
<1>4. AfterFrame(k, n)
  <2>1. CASE UNCHANGED capture
    BY <1>1, <2>1, Unseen
  <2>2. CASE Frame(FinFrame(Roomy, k, n), k)
    <3>1. n \in DOMAIN Script[k]
      BY <1>1 DEF Close, InvTcp, NetShape, HostShape
    <3>2. Apart(Roomy) /\ (k \in DOMAIN Roomy.connections => HeldFor(Roomy.connections[k], n))
      BY <1>1, RoomyIs DEF Live
    <3>3. Handles(Roomy, FinFrame(Roomy, k, n), k, n)
      BY <3>1, <3>2, FinHandles
    <3> QED
      BY <2>2, <3>3, FrameKeeps
  <2> QED
    BY <1>1, <2>1, <2>2 DEF Close
<1> QED
  BY <1>2, <1>3, <1>4, HostsChange

\* A segment more is sent, or was missed no longer.
LEMMA SentShape ==
    ASSUME InvTcp, NEW k \in Keys, NEW h,
           DOMAIN h = {"instance", "open", "opened", "front", "missed"},
           h.instance = net[k].instance, h.open = net[k].open, net[k].open,
           DOMAIN h.front = Directions, DOMAIN h.missed = Directions,
           \A d \in Directions : h.front[d] \in 0..Len(Script[k][net[k].instance][d])
    PROVE  HostShape(k, h)
BY DEF InvTcp, NetShape, HostShape

LEMMA HostIs ==
    ASSUME InvTcp, NEW k \in Keys
    PROVE  /\ DOMAIN net[k] = {"instance", "open", "opened", "front", "missed"}
           /\ DOMAIN net[k].front = Directions /\ DOMAIN net[k].missed = Directions
           /\ net[k].open =>
                 \A d \in Directions : net[k].front[d] \in 0..Len(Script[k][net[k].instance][d])
BY DEF InvTcp, NetShape, HostShape

\* The next segment of a direction.
LEMMA SendableIs ==
    ASSUME InvTcp, NEW k \in Keys, NEW d \in Directions, Sendable(k, d)
    PROVE  LET p == net[k].front[d] + 1
           IN  net[k].open /\ p \in 1..Len(Script[k][net[k].instance][d])
<1>1. PICK last, q : last = Len(Script[k][net[k].instance][d]) /\ q = net[k].front[d]
  OBVIOUS
<1>2. net[k].open /\ q + 1 <= last
  BY <1>1 DEF Sendable
<1>3. q \in 0..last
  BY <1>1, <1>2, HostIs
<1>4. last \in Nat
  <2>1. net[k].instance \in DOMAIN Script[k]
    BY <1>2 DEF InvTcp, NetShape, HostShape
  <2> QED
    BY <1>1, <2>1, ScriptIs
<1>5. q + 1 \in 1..last
  BY <1>2, <1>3, <1>4
<1> QED
  BY <1>1, <1>2, <1>5

LEMMA TransmitKeeps ==
    ASSUME InvTcp, NEW k \in Keys, NEW d \in Directions, NEW guess, NEW skip,
           Transmit(k, d, guess, skip)
    PROVE  InvTcp'
<1>1. PICK p : p = net[k].front[d] + 1
  OBVIOUS
<1>2. PICK F : F = [net[k].front EXCEPT ![d] = p]
  OBVIOUS
<1>3. PICK h : h = [net[k] EXCEPT !.front = F]
  OBVIOUS
<1>4. net[k].open /\ p \in 1..Len(Script[k][net[k].instance][d])
  BY <1>1, SendableIs DEF Transmit
<1>5. net' = [net EXCEPT ![k] = h]
  BY <1>1, <1>2, <1>3 DEF Transmit
<1>6. /\ DOMAIN h = {"instance", "open", "opened", "front", "missed"}
      /\ h.instance = net[k].instance /\ h.open = net[k].open
      /\ h.front = F /\ h.missed = net[k].missed
  BY <1>3, HostIs
<1>7. DOMAIN F = Directions /\ F[d] = p /\ \A x \in Directions : x # d => F[x] = net[k].front[x]
  BY <1>2, HostIs
<1>8. \A x \in Directions : F[x] \in 0..Len(Script[k][net[k].instance][x])
  BY <1>4, <1>7, HostIs
<1>9. HostShape(k, h)
  <2>1. DOMAIN h.front = Directions /\ DOMAIN h.missed = Directions
    BY <1>6, <1>7, HostIs
  <2>2. \A x \in Directions : h.front[x] \in 0..Len(Script[k][net[k].instance][x])
    BY <1>6, <1>8
  <2> QED
    BY <1>4, <1>6, <2>1, <2>2, SentShape
<1>10. Segment(k, d, p, guess, skip)
  BY <1>1 DEF Transmit
<1>11. AfterFrame(k, net[k].instance)
  BY <1>4, <1>10, SegmentBehind
<1> QED
  BY <1>5, <1>6, <1>9, <1>11, HostsChange

LEMMA MissKeeps ==
    ASSUME InvTcp, NEW k \in Keys, NEW d \in Directions, Miss(k, d)
    PROVE  InvTcp'
<1>1. PICK p : p = net[k].front[d] + 1
  OBVIOUS
<1>2. PICK F, M : F = [net[k].front EXCEPT ![d] = p] /\ M = [net[k].missed EXCEPT ![d] = @ \cup {p}]
  OBVIOUS
<1>3. PICK h : h = [net[k] EXCEPT !.front = F, !.missed = M]
  OBVIOUS
<1>4. net[k].open /\ p \in 1..Len(Script[k][net[k].instance][d])
  BY <1>1, SendableIs DEF Miss
<1>5. net' = [net EXCEPT ![k] = h]
  <2>1. net' = [net EXCEPT ![k].front[d] = p, ![k].missed[d] = @ \cup {p}]
    BY <1>1 DEF Miss
  <2>2. DOMAIN net = Keys /\ "front" \in DOMAIN net[k] /\ "missed" \in DOMAIN net[k]
    BY HostIs DEF InvTcp, NetShape
  <2> QED
    BY <1>2, <1>3, <2>1, <2>2
<1>6. /\ DOMAIN h = {"instance", "open", "opened", "front", "missed"}
      /\ h.instance = net[k].instance /\ h.open = net[k].open
      /\ h.front = F /\ h.missed = M
  BY <1>3, HostIs
<1>7. /\ DOMAIN F = Directions /\ F[d] = p
      /\ \A x \in Directions : x # d => F[x] = net[k].front[x]
      /\ DOMAIN M = Directions
  BY <1>2, HostIs
<1>8. \A x \in Directions : F[x] \in 0..Len(Script[k][net[k].instance][x])
  BY <1>4, <1>7, HostIs
<1>9. HostShape(k, h)
  BY <1>4, <1>6, <1>7, <1>8, SentShape
<1>10. AfterFrame(k, net[k].instance)
  BY Unseen DEF Miss
<1> QED
  BY <1>5, <1>6, <1>9, <1>10, HostsChange

LEMMA LateKeeps ==
    ASSUME InvTcp, NEW k \in Keys, NEW d \in Directions, NEW p \in 1..net[k].front[d],
           NEW guess, NEW skip, Late(k, d, p, guess, skip)
    PROVE  InvTcp'
<1>1. PICK M : M = [net[k].missed EXCEPT ![d] = @ \ {p}]
  OBVIOUS
<1>2. PICK h : h = [net[k] EXCEPT !.missed = M]
  OBVIOUS
<1>3. net[k].open
  BY DEF Late
<1>4. p \in 1..Len(Script[k][net[k].instance][d])
  <2>1. PICK last, q : last = Len(Script[k][net[k].instance][d]) /\ q = net[k].front[d]
    OBVIOUS
  <2>2. q \in 0..last /\ p \in 1..q
    BY <1>3, <2>1, HostIs
  <2>3. last \in Nat
    <3>1. net[k].instance \in DOMAIN Script[k]
      BY <1>3 DEF InvTcp, NetShape, HostShape
    <3> QED
      BY <2>1, <3>1, ScriptIs
  <2> QED
    BY <2>1, <2>2, <2>3
<1>5. net' = [net EXCEPT ![k] = h]
  BY <1>1, <1>2 DEF Late
<1>6. /\ DOMAIN h = {"instance", "open", "opened", "front", "missed"}
      /\ h.instance = net[k].instance /\ h.open = net[k].open
      /\ h.front = net[k].front /\ h.missed = M /\ DOMAIN M = Directions
  BY <1>1, <1>2, HostIs
<1>7. HostShape(k, h)
  <2>1. DOMAIN h.front = Directions /\ DOMAIN h.missed = Directions
    BY <1>6, HostIs
  <2>2. \A x \in Directions : h.front[x] \in 0..Len(Script[k][net[k].instance][x])
    BY <1>3, <1>6, HostIs
  <2> QED
    BY <1>3, <1>6, <2>1, <2>2, SentShape
<1>8. AfterFrame(k, net[k].instance)
  BY <1>3, <1>4, SegmentBehind DEF Late
<1> QED
  BY <1>5, <1>6, <1>7, <1>8, HostsChange

LEMMA RepeatSegmentKeeps ==
    ASSUME InvTcp, NEW k \in Keys, NEW d \in Directions, NEW p \in 1..net[k].front[d],
           NEW guess, NEW skip, RepeatSegment(k, d, p, guess, skip)
    PROVE  InvTcp'
<1>1. net[k].open
  BY DEF RepeatSegment
<1>2. p \in 1..Len(Script[k][net[k].instance][d])
  <2>1. PICK last, q : last = Len(Script[k][net[k].instance][d]) /\ q = net[k].front[d]
    OBVIOUS
  <2>2. q \in 0..last /\ p \in 1..q
    BY <1>1, <2>1, HostIs
  <2>3. last \in Nat
    <3>1. net[k].instance \in DOMAIN Script[k]
      BY <1>1 DEF InvTcp, NetShape, HostShape
    <3> QED
      BY <2>1, <3>1, ScriptIs
  <2> QED
    BY <2>1, <2>2, <2>3
<1>3. AfterFrame(k, net[k].instance)
  BY <1>1, <1>2, SegmentBehind DEF RepeatSegment
<1> QED
  BY <1>3, HostsStay DEF RepeatSegment

LEMMA EndOfFileKeeps ==
    ASSUME InvTcp, EndOfFile
    PROVE  InvTcp'
<1>1. Reads(capture, capture')
  BY ArchivedReads DEF InvTcp, EndOfFile
<1>2. /\ Apart(capture') /\ DOMAIN capture'.connections = DOMAIN capture.connections
      /\ \A k \in DOMAIN capture.connections : Stays(capture, capture', k)
  BY <1>1, ReadsStays
<1>3. UNCHANGED net
  BY DEF EndOfFile
<1>4. Followed'
  BY <1>2, <1>3 DEF InvTcp, Followed, Stays
<1> QED
  BY <1>2, <1>3, <1>4 DEF InvTcp, NetShape

LEMMA InvNext == InvTcp /\ [NextTcp]_tcp_vars => InvTcp'
<1> SUFFICES ASSUME InvTcp, [NextTcp]_tcp_vars PROVE InvTcp'
  OBVIOUS
<1>1. ASSUME NEW k \in Keys, NEW answered \in BOOLEAN, Open(k, answered) PROVE InvTcp'
  BY <1>1, OpenKeeps
<1>2. ASSUME NEW k \in Keys, RepeatSyn(k) PROVE InvTcp'
  BY <1>2, RepeatSynKeeps
<1>3. ASSUME NEW k \in Keys, Close(k) PROVE InvTcp'
  BY <1>3, CloseKeeps
<1>4. ASSUME NEW k \in Keys, NEW d \in Directions, Miss(k, d) PROVE InvTcp'
  BY <1>4, MissKeeps
<1>5. ASSUME NEW k \in Keys, NEW d \in Directions, NEW guess \in BOOLEAN, NEW skip \in BOOLEAN,
             Transmit(k, d, guess, skip)
      PROVE  InvTcp'
  BY <1>5, TransmitKeeps
<1>6. ASSUME NEW k \in Keys, NEW d \in Directions, NEW guess \in BOOLEAN, NEW skip \in BOOLEAN,
             NEW p \in 1..net[k].front[d],
             Late(k, d, p, guess, skip) \/ RepeatSegment(k, d, p, guess, skip)
      PROVE  InvTcp'
  BY <1>6, LateKeeps, RepeatSegmentKeeps
<1>7. CASE EndOfFile
  BY <1>7, EndOfFileKeeps
<1>8. CASE UNCHANGED tcp_vars
  BY <1>8 DEF tcp_vars, InvTcp, NetShape, Followed
<1> QED
  BY <1>1, <1>2, <1>3, <1>4, <1>5, <1>6, <1>7, <1>8 DEF NextTcp

\* However the capture missed, delayed or repeated segments, a stage keeps the
\* media of one connection (fn frame, fn message and fn payload of Capture).
THEOREM ConnectionsAreApart == SpecTcp => []ConnectionsDoNotMix
<1>1. InvTcp => ConnectionsDoNotMix
  BY DEF InvTcp, Apart, From, ConnectionsDoNotMix
<1> QED
  BY <1>1, InvInit, InvNext, PTL DEF SpecTcp
=============================================================================
