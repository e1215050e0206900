---------------------------- MODULE Rose2Proofs ----------------------------
(***************************************************************************)
(* Theorems about Rose2 that hold for a tree of any depth.  The laws of    *)
(* powers of two come first, by induction on numbers stated over sets,     *)
(* then the numbering of the tree, then the invariants.                    *)
(***************************************************************************)
EXTENDS Rose2Numbers, SequenceTheorems, FiniteSetTheorems, WellFoundedInduction, TLAPS

-----------------------------------------------------------------------------
\* Induction on the natural numbers, for a set of them.
Upto(n) == 1..n

\* A set of natural numbers with an element has a least one: of the sets 1..n
\* one is minimal, since proper inclusion of finite sets is well-founded.
LEMMA LeastElement ==
  ASSUME NEW S \in SUBSET Nat, NEW s \in S
  PROVE  \E m \in S : \A n \in S : m <= n
<1> DEFINE T == {Upto(n) : n \in S}
<1>1. T \subseteq FiniteSubsetsOf(Nat)
  <2>1. \A n \in S : Upto(n) \in SUBSET Nat /\ IsFiniteSet(Upto(n))
    BY FS_Interval DEF Upto
  <2> QED  BY <2>1 DEF FiniteSubsetsOf
<1>2. T # {}
  OBVIOUS
<1>3. PICK x \in T : \A y \in T : ~(<<y, x>> \in StrictSubsetOrdering(Nat))
  <2>1. IsWellFoundedOn(StrictSubsetOrdering(Nat), FiniteSubsetsOf(Nat))
    BY FS_StrictSubsetOrderingWellFounded
  <2> HIDE DEF T
  <2> QED  BY <1>1, <1>2, <2>1, WFMin
<1>4. PICK m \in S : x = Upto(m)
  OBVIOUS
<1>5. ASSUME NEW n \in S, n < m PROVE FALSE
  <2>1. Upto(n) \in T
    OBVIOUS
  <2>2. Upto(n) \subseteq Upto(m) /\ m \in Upto(m) /\ m \notin Upto(n)
    BY <1>5 DEF Upto
  <2>3. Upto(n) \in SUBSET Nat /\ Upto(m) \in SUBSET Nat
    BY DEF Upto
  <2>4. <<Upto(n), Upto(m)>> \in StrictSubsetOrdering(Nat)
    BY <2>2, <2>3 DEF StrictSubsetOrdering
  <2> QED  BY <2>1, <2>4, <1>3, <1>4
<1> QED  BY <1>5

\* A set of natural numbers with 0 and the successors of its elements has all.
LEMMA Induction ==
  ASSUME NEW S \in SUBSET Nat, 0 \in S, \A n \in S : n + 1 \in S
  PROVE  S = Nat
<1> SUFFICES ASSUME NEW x \in Nat \ S PROVE FALSE
  OBVIOUS
<1>1. PICK m \in Nat \ S : \A n \in Nat \ S : m <= n
  BY LeastElement
<1>2. m # 0 /\ m - 1 \in Nat
  BY <1>1
<1>3. m - 1 \in S
  BY <1>1, <1>2
<1> QED  BY <1>1, <1>3

-----------------------------------------------------------------------------
\* Pow2 exists: it is the limit of the functions that start like it.
Approx(m, g) == g \in [0..m -> Nat] /\ g[0] = 1 /\ \A k \in 1..m : g[k] = 2 * g[k - 1]

\* Two functions that start like Pow2 agree as far as both go.
LEMMA ApproxAgree ==
  ASSUME NEW m \in Nat, NEW n \in Nat, NEW g, NEW h, Approx(m, g), Approx(n, h)
  PROVE  \A k \in Nat : k <= m /\ k <= n => g[k] = h[k]
<1> DEFINE S == {k \in Nat : k <= m /\ k <= n => g[k] = h[k]}
<1>1. 0 \in S
  BY DEF Approx
<1>2. ASSUME NEW k \in S PROVE k + 1 \in S
  BY <1>2 DEF Approx
<1> HIDE DEF S
<1>3. S = Nat
  BY <1>1, <1>2, Induction DEF S
<1> QED  BY <1>3 DEF S

\* For every number there is a function that starts like Pow2 up to it.
LEMMA ApproxExists == \A m \in Nat : \E g : Approx(m, g)
<1> DEFINE S == {m \in Nat : \E g : Approx(m, g)}
<1>1. 0 \in S
  <2>1. Approx(0, [k \in 0..0 |-> 1])
    BY DEF Approx
  <2> QED  BY <2>1
<1>2. ASSUME NEW m \in S PROVE m + 1 \in S
  <2>1. PICK g : Approx(m, g)
    OBVIOUS
  <2> DEFINE h == [k \in 0..(m + 1) |-> IF k = m + 1 THEN 2 * g[m] ELSE g[k]]
  <2>2. Approx(m + 1, h)
    BY <2>1 DEF Approx
  <2> QED  BY <2>2
<1> HIDE DEF S
<1>3. S = Nat
  BY <1>1, <1>2, Induction DEF S
<1> QED  BY <1>3 DEF S

\* The function Pow2 satisfies the equation that defines it.
LEMMA Pow2Def == Pow2 = [n \in Nat |-> IF n = 0 THEN 1 ELSE 2 * Pow2[n - 1]]
<1> DEFINE G(m) == CHOOSE g : Approx(m, g)
           f == [m \in Nat |-> G(m)[m]]
<1>1. \A m \in Nat : Approx(m, G(m))
  BY ApproxExists
<1>2. ASSUME NEW n \in Nat PROVE f[n] = IF n = 0 THEN 1 ELSE 2 * f[n - 1]
  <2>1. CASE n = 0
    BY <1>1, <2>1 DEF Approx
  <2>2. CASE n # 0
    <3>1. n - 1 \in Nat /\ n \in 1..n
      BY <2>2
    <3> HIDE DEF G
    <3>2. G(n)[n] = 2 * G(n)[n - 1]
      BY <1>1, <3>1 DEF Approx
    <3>3. G(n)[n - 1] = G(n - 1)[n - 1]
      BY <1>1, <3>1, ApproxAgree
    <3> QED  BY <2>2, <3>1, <3>2, <3>3
  <2> QED  BY <2>1, <2>2
<1> HIDE DEF f
<1>3. f = [n \in Nat |-> f[n]]
  BY DEF f
<1>4. f = [n \in Nat |-> IF n = 0 THEN 1 ELSE 2 * f[n - 1]]
  BY <1>2, <1>3
<1>5. \E g : g = [n \in Nat |-> IF n = 0 THEN 1 ELSE 2 * g[n - 1]]
  BY <1>4
<1> QED  BY <1>5 DEF Pow2
\* The first power of two and the step from one to the next.
LEMMA PowStep == Pow2[0] = 1 /\ \A n \in Nat : Pow2[n + 1] = 2 * Pow2[n]
BY Pow2Def

\* A power of two is a number above its exponent.
LEMMA PowAbove == \A n \in Nat : Pow2[n] \in Nat /\ Pow2[n] > n
<1> DEFINE S == {n \in Nat : Pow2[n] \in Nat /\ Pow2[n] > n}
<1>1. 0 \in S
  BY PowStep
<1>2. ASSUME NEW n \in S PROVE n + 1 \in S
  BY PowStep
<1> HIDE DEF S
<1>3. S = Nat
  BY <1>1, <1>2, Induction DEF S
<1> QED  BY <1>3 DEF S

\* Exponents add up.
LEMMA PowSum ==
  ASSUME NEW m \in Nat
  PROVE  \A n \in Nat : Pow2[m + n] = Pow2[m] * Pow2[n]
<1> DEFINE S == {n \in Nat : Pow2[m + n] = Pow2[m] * Pow2[n]}
<1>1. 0 \in S
  BY PowStep, PowAbove
<1>2. ASSUME NEW n \in S PROVE n + 1 \in S
  <2>1. Pow2[m + (n + 1)] = 2 * Pow2[m + n]
    <3>1. m + (n + 1) = (m + n) + 1 /\ m + n \in Nat
      OBVIOUS
    <3> QED  BY <3>1, PowStep
  <2>2. Pow2[n + 1] = 2 * Pow2[n]
    BY PowStep
  <2>3. \A a, b \in Nat : 2 * (a * b) = a * (2 * b)
    OBVIOUS
  <2> QED  BY <2>1, <2>2, <2>3, PowAbove
<1> HIDE DEF S
<1>3. S = Nat
  BY <1>1, <1>2, Induction DEF S
<1> QED  BY <1>3 DEF S

\* Powers of two grow with their exponents.
LEMMA PowGrows ==
  ASSUME NEW m \in Nat, NEW n \in Nat, m <= n
  PROVE  Pow2[m] <= Pow2[n]
<1>1. n - m \in Nat /\ n = m + (n - m)
  OBVIOUS
<1>2. Pow2[n] = Pow2[m] * Pow2[n - m]
  BY <1>1, PowSum
<1>3. Pow2[m] \in Nat /\ Pow2[n - m] \in Nat /\ Pow2[n - m] >= 1
  BY <1>1, PowAbove
<1>4. \A a, b \in Nat : b >= 1 => a <= a * b
  OBVIOUS
<1> QED  BY <1>2, <1>3, <1>4
-----------------------------------------------------------------------------
\* The number of leaves is the product of a node's leaves and its level's nodes.
LEMMA Size ==
  /\ N \in Nat /\ N >= 2 /\ 2 * N = Pow2[Depth + 1]
  /\ \A j \in 0..Depth : N = Pow2[j] * Pow2[Depth - j]
<1>1. Depth \in Nat /\ Depth >= 1 /\ Depth - 1 \in Nat
  BY DepthAssumption
<1>2. N \in Nat /\ 2 * N = Pow2[Depth + 1] /\ N > Depth
  BY <1>1, PowStep, PowAbove DEF N
<1>3. ASSUME NEW j \in 0..Depth PROVE N = Pow2[j] * Pow2[Depth - j]
  <2>1. j \in Nat /\ Depth - j \in Nat /\ j + (Depth - j) = Depth
    BY <1>1
  <2> QED  BY <2>1, PowSum DEF N
<1> QED  BY <1>1, <1>2, <1>3

\* Division rounded up.
LEMMA Ceil ==
  ASSUME NEW a \in Nat \ {0}, NEW b \in Nat \ {0}
  PROVE  /\ CeilDiv(a, b) \in Nat \ {0}
         /\ \A q \in Nat : a <= b * q => CeilDiv(a, b) <= q
         /\ a <= b * CeilDiv(a, b)
         /\ a > b * (CeilDiv(a, b) - 1)
<1> DEFINE q == (a + b - 1) \div b
           r == (a + b - 1) % b
<1>1. q \in Int /\ r \in 0..(b - 1) /\ a + b - 1 = b * q + r
  OBVIOUS
<1>2. CeilDiv(a, b) = q
  BY DEF CeilDiv
<1> HIDE DEF q, r
<1>3. b * q >= a /\ b * q < a + b
  BY <1>1
<1>4. \A t \in Int : t < q => b * t <= b * q - b
  BY <1>1
<1>5. q >= 1
  <2>1. \A t \in Int : t < 1 => b * t <= 0
    OBVIOUS
  <2> QED  BY <1>1, <1>3, <2>1
<1>6. \A t \in Nat : a <= b * t => q <= t
  <2>1. \A t \in Nat : t < q => b * t < a
    <3> TAKE t \in Nat
    <3> DEFINE p == b * q
               s == b * t
    <3>1. p \in Int /\ s \in Int /\ p < a + b /\ a \in Int /\ b \in Int
      BY <1>1, <1>3
    <3>2. t < q => s <= p - b
      BY <1>4
    <3> HIDE DEF p, s
    <3>3. t < q => s < a
      BY <3>1, <3>2
    <3> QED  BY <3>3 DEF s
  <2>2. \A t \in Nat : b * t \in Int
    OBVIOUS
  <2> QED  BY <1>1, <2>1, <2>2
<1>7. b * (q - 1) = b * q - b
  BY <1>1
<1>8. a > b * (q - 1)
  <2>1. b * q \in Int
    BY <1>1
  <2> QED  BY <2>1, <1>3, <1>7
<1> QED  BY <1>1, <1>2, <1>3, <1>5, <1>6, <1>8

\* The nodes below level j are all but those of the tree from level j up.
LEMMA OffsetIs == \A j \in 0..(Depth + 1) : Offset(j) = 2 * N - Pow2[Depth + 1 - j]
<1> TAKE j \in 0..(Depth + 1)
<1>1. CASE j = 0
  BY <1>1, Size DEF Offset
<1>2. CASE j # 0
  <2> DEFINE a == Pow2[j - 1]
             b == Pow2[Depth - (j - 1)]
  <2>1. j - 1 \in 0..Depth /\ j - 1 \in Nat /\ Depth + 1 - j \in Nat /\ Depth + 1 - j = Depth - (j - 1)
    BY <1>2, DepthAssumption
  <2>2. a \in Nat /\ a >= 1 /\ b \in Nat
    BY <2>1, PowAbove
  <2>3. Pow2[j] = 2 * a
    BY <2>1, PowStep
  <2>4. N = a * b
    BY <2>1, Size
  <2>5. Offset(j) = (N * (Pow2[j] - 1)) \div a
    BY <1>2 DEF Offset
  <2> HIDE DEF a, b
  <2>6. \A x, y \in Nat : x >= 1 => (x * y * (2 * x - 1)) \div x = y * (2 * x - 1)
    <3>1. \A x \in Nat, t \in Int : x >= 1 => (x * t) \div x = t
      OBVIOUS
    <3>2. \A x, y \in Nat : x * y * (2 * x - 1) = x * (y * (2 * x - 1)) /\ y * (2 * x - 1) \in Int
      OBVIOUS
    <3> QED  BY <3>1, <3>2
  <2>7. b * (2 * a - 1) = 2 * (a * b) - b
    BY <2>2
  <2> QED  BY <2>1, <2>2, <2>3, <2>4, <2>5, <2>6, <2>7 DEF b
<1> QED  BY <1>1, <1>2

\* The nodes of level j are those from Offset(j) + 1 on, and as many as it has.
LEMMA InLevel ==
  ASSUME NEW i \in 1..N, NEW j \in 0..Depth
  PROVE  /\ NodeAt(i, j) \in Nat
         /\ NodeAt(i, j) > 2 * N - Pow2[Depth + 1 - j]
         /\ NodeAt(i, j) <= 2 * N - Pow2[Depth - j]
<1>1. /\ j \in Nat /\ Depth - j \in Nat /\ j \in 0..(Depth + 1) /\ Depth + 1 - j = (Depth - j) + 1
      /\ i \in Nat \ {0}
  BY DepthAssumption, Size
<1>2. Pow2[j] \in Nat \ {0} /\ Pow2[Depth - j] \in Nat
  BY <1>1, PowAbove
<1>3. Pow2[Depth + 1 - j] = 2 * Pow2[Depth - j]
  BY <1>1, PowStep
<1>4. CeilDiv(i, Pow2[j]) \in Nat \ {0} /\ CeilDiv(i, Pow2[j]) <= Pow2[Depth - j]
  <2>1. i <= Pow2[j] * Pow2[Depth - j]
    BY Size
  <2> QED  BY <1>1, <1>2, <2>1, Ceil
<1>5. Offset(j) = 2 * N - Pow2[Depth + 1 - j] /\ 2 * N = Pow2[Depth + 1] /\ N \in Nat
  BY <1>1, OffsetIs, Size
<1>6. Pow2[Depth + 1 - j] <= Pow2[Depth + 1]
  <2>1. Depth + 1 - j \in Nat /\ Depth + 1 \in Nat /\ Depth + 1 - j <= Depth + 1
    BY DepthAssumption
  <2> QED  BY <2>1, PowGrows
<1> HIDE DEF N
<1> QED  BY <1>2, <1>3, <1>4, <1>5, <1>6 DEF NodeAt

\* Level 0 is the leaves themselves.
LEMMA LeafLevel == \A i \in 1..N : NodeAt(i, 0) = i
BY PowStep, Size DEF NodeAt, CeilDiv, Offset

\* The ancestors of a leaf are nodes above the leaves.
LEMMA InnerNode ==
  ASSUME NEW i \in 1..N, NEW j \in 1..Depth
  PROVE  NodeAt(i, j) \in (N + 1)..(2 * N - 1)
<1>1. j \in 0..Depth /\ Depth + 1 - j \in Nat /\ Depth \in Nat /\ Depth + 1 - j <= Depth /\ Depth - j \in Nat
  BY DepthAssumption
<1>2. Pow2[Depth + 1 - j] <= N /\ Pow2[Depth + 1 - j] \in Nat
  BY <1>1, PowGrows, PowAbove DEF N
<1>3. Pow2[Depth - j] \in Nat /\ Pow2[Depth - j] >= 1
  BY <1>1, PowAbove
<1> QED  BY <1>1, <1>2, <1>3, InLevel, Size

\* An ancestor's child and the child's sibling are below it.
LEMMA ChildrenBelow ==
  ASSUME NEW i \in 1..N, NEW j \in 0..(Depth - 1)
  PROVE  /\ LeftOf(NodeAt(i, j)) \in 1..(NodeAt(i, j + 1) - 1)
         /\ RightOf(NodeAt(i, j)) \in 1..(NodeAt(i, j + 1) - 1)
<1>1. /\ j \in 0..Depth /\ j + 1 \in 0..Depth /\ Depth - j \in Nat /\ Depth - (j + 1) \in Nat
      /\ Depth - j = (Depth - (j + 1)) + 1 /\ Depth + 1 - (j + 1) = Depth - j
      /\ Depth + 1 - j = (Depth - j) + 1
  BY DepthAssumption
<1> DEFINE x == NodeAt(i, j)
           y == NodeAt(i, j + 1)
           p == Pow2[Depth - j]
           h == Pow2[Depth - (j + 1)]
<1>2. p \in Nat /\ h \in Nat /\ p = 2 * h /\ h >= 1
  BY <1>1, PowAbove, PowStep
<1>3. x \in Nat /\ x <= 2 * N - p /\ x > 2 * N - Pow2[Depth + 1 - j]
  BY <1>1, InLevel
<1>4. y \in Nat /\ y > 2 * N - p
  BY <1>1, InLevel
<1>5. x >= 1
  <2>1. Pow2[Depth + 1 - j] <= 2 * N
    <3>1. Depth + 1 - j \in Nat /\ Depth + 1 \in Nat /\ Depth + 1 - j <= Depth + 1
      BY DepthAssumption
    <3> QED  BY <3>1, PowGrows, Size
  <2>2. Pow2[Depth + 1 - j] \in Nat
    BY <1>1, PowAbove
  <2> QED  BY <1>3, <2>1, <2>2, Size
<1> HIDE DEF x, y, p, h
<1>6. N \in Nat
  BY Size
<1>7. x % 2 # 0 => x < 2 * N - p
  BY <1>2, <1>3, <1>6
<1> SUFFICES LeftOf(x) \in 1..(y - 1) /\ RightOf(x) \in 1..(y - 1)
  BY DEF x, y
<1>8. CASE x % 2 = 0
  BY <1>2, <1>3, <1>4, <1>5, <1>6, <1>8 DEF LeftOf, RightOf
<1>9. CASE x % 2 # 0
  BY <1>2, <1>3, <1>4, <1>5, <1>6, <1>7, <1>9 DEF LeftOf, RightOf
<1> QED  BY <1>8, <1>9

\* The ancestors' numbers grow with the level.
LEMMA LevelsGrow ==
  ASSUME NEW i \in 1..N, NEW j \in 0..Depth, NEW k \in 0..Depth, j < k
  PROVE  NodeAt(i, j) < NodeAt(i, k)
<1>1. /\ Depth + 1 - k \in Nat /\ Depth - j \in Nat /\ Depth + 1 - k <= Depth - j
  BY DepthAssumption
<1>2. Pow2[Depth + 1 - k] <= Pow2[Depth - j] /\ Pow2[Depth + 1 - k] \in Nat /\ Pow2[Depth - j] \in Nat
  BY <1>1, PowGrows, PowAbove
<1> QED  BY <1>2, InLevel, Size

\* get_h finds the level of a node, and the range of leaves the server computes
\* from it is the node's: 2^j of them for a node of level j.
LEMMA RangeOf ==
  ASSUME NEW j \in 0..Depth, NEW m \in 1..Pow2[Depth - j], NEW n,
         n = m + (2 * N - Pow2[Depth + 1 - j])
  PROVE  /\ get_h(n) = j + 1
         /\ lln(n) = (m - 1) * Pow2[j] + 1
         /\ rln(n) = m * Pow2[j]
<1>1. /\ j \in Nat /\ j + 1 \in Nat /\ Depth \in Nat /\ Depth - j \in Nat /\ Depth + 1 - j \in Nat
      /\ Depth + 1 - j = (Depth - j) + 1 /\ (j + 1) + (Depth - j) = Depth + 1 /\ j + (Depth + 1 - j) = Depth + 1
  BY DepthAssumption
<1> DEFINE a == Pow2[j]
           p == Pow2[Depth - j]
           t == 2 * N - n
<1>2. a \in Nat /\ p \in Nat /\ N \in Nat /\ N = a * p /\ 2 * N = Pow2[Depth + 1] /\ a >= 1
  BY <1>1, PowAbove, Size
<1>3. Pow2[Depth + 1 - j] = 2 * p /\ Pow2[j + 1] = 2 * a
  BY <1>1, PowStep
<1>4. t = 2 * p - m /\ m \in Nat /\ m >= 1 /\ m <= p /\ n = m + 2 * N - 2 * p /\ n \in Int
  BY <1>1, <1>2, <1>3
<1> HIDE DEF a, p, t
<1>5. t \in Nat /\ t >= p /\ t < 2 * p /\ p >= 1
  BY <1>2, <1>4
<1>6. ASSUME NEW h \in 0..(Depth + 1)
      PROVE  h <= j => Pow2[h] * t < 2 * N
  <2>1. CASE h <= j
    <3>1. h \in Nat /\ Pow2[h] \in Nat /\ Pow2[h] <= a
      BY <1>1, <2>1, PowAbove, PowGrows DEF a
    <3>2. \A x, y, z \in Nat : x <= y => x * z <= y * z
      OBVIOUS
    <3>3. Pow2[h] * t <= a * t
      BY <1>2, <1>5, <3>1, <3>2
    <3>4. \A x, y, z \in Nat : x >= 1 /\ y < 2 * z => x * y < 2 * (x * z)
      <4>1. \A x, d \in Nat : x >= 1 /\ d >= 1 => x * d >= 1
        OBVIOUS
      <4>2. \A x, y, z \in Nat : x * (2 * z - y) = 2 * (x * z) - x * y
        OBVIOUS
      <4>3. \A x, y, z \in Nat : x * z \in Int /\ x * y \in Int /\ (y < 2 * z => 2 * z - y \in Nat)
        OBVIOUS
      <4> TAKE x, y, z \in Nat
      <4> HAVE x >= 1 /\ y < 2 * z
      <4>4. x * (2 * z - y) >= 1
        BY <4>1, <4>3
      <4>5. 2 * (x * z) - x * y >= 1
        BY <4>2, <4>4
      <4> DEFINE u == x * z
                 v == x * y
      <4>6. u \in Int /\ v \in Int /\ 2 * u - v >= 1
        BY <4>3, <4>5
      <4> HIDE DEF u, v
      <4>7. v < 2 * u
        BY <4>6
      <4> QED  BY <4>7 DEF u, v
    <3>5. a * t < 2 * N
      BY <1>2, <1>5, <3>4
    <3>6. Pow2[h] * t \in Nat /\ a * t \in Nat
      BY <1>2, <1>5, <3>1
    <3> DEFINE u == Pow2[h] * t
               v == a * t
    <3>7. u \in Nat /\ v \in Nat /\ u <= v /\ v < 2 * N
      BY <3>3, <3>5, <3>6
    <3> HIDE DEF u, v
    <3>8. u < 2 * N
      BY <1>2, <3>7
    <3> QED  BY <3>8 DEF u
  <2> QED  BY <2>1
<1>7. ASSUME NEW h \in 0..(Depth + 1)
      PROVE  h > j => Pow2[h] * t >= 2 * N
  <2>1. CASE h > j
    <3>1. h \in Nat /\ Pow2[h] \in Nat /\ Pow2[h] >= 2 * a
      <4>1. h \in Nat /\ j + 1 <= h
        BY <1>1, <2>1
      <4> QED  BY <1>1, <1>3, <4>1, PowAbove, PowGrows
    <3>2. \A x, y, z, w \in Nat : x >= y /\ z >= w => x * z >= y * w
      OBVIOUS
    <3>3. Pow2[h] * t >= (2 * a) * p
      BY <1>2, <1>5, <3>1, <3>2
    <3>4. (2 * a) * p = 2 * (a * p)
      BY <1>2
    <3> QED  BY <1>2, <3>3, <3>4
  <2> QED  BY <2>1
<1>8. get_h(n) = j + 1
  <2> DEFINE Is(h) == Pow2[h] * t >= 2 * N /\ (h = 0 \/ Pow2[h - 1] * t < 2 * N)
  <2>1. j + 1 \in 0..(Depth + 1) /\ j \in 0..(Depth + 1) /\ j <= j /\ j + 1 > j /\ (j + 1) - 1 = j
    BY <1>1
  <2>2. Is(j + 1)
    BY <1>6, <1>7, <2>1
  <2>3. ASSUME NEW h \in 0..(Depth + 1), Is(h) PROVE h = j + 1
    <3>1. Pow2[h] \in Nat /\ Pow2[h] * t \in Nat
      BY <1>5, PowAbove
    <3>2. h > j
      <4> DEFINE u == Pow2[h] * t
      <4>1. u \in Nat /\ u >= 2 * N /\ (h <= j => u < 2 * N)
        BY <1>6, <2>3, <3>1
      <4> HIDE DEF u
      <4>2. ~(h <= j)
        BY <1>2, <4>1
      <4> QED  BY <1>1, <4>2
    <3>3. h - 1 \in 0..(Depth + 1) /\ h # 0
      BY <1>1, <3>2
    <3>4. Pow2[h - 1] \in Nat /\ Pow2[h - 1] * t \in Nat
      BY <1>5, <3>3, PowAbove
    <3>5. ~(h - 1 > j)
      <4> DEFINE u == Pow2[h - 1] * t
      <4>1. u \in Nat /\ u < 2 * N /\ (h - 1 > j => u >= 2 * N)
        BY <1>7, <2>3, <3>3, <3>4
      <4> HIDE DEF u
      <4> QED  BY <1>2, <4>1
    <3> QED  BY <1>1, <3>2, <3>5
  <2>4. get_h(n) = CHOOSE h \in 0..(Depth + 1) : Is(h)
    BY DEF get_h, t
  <2> HIDE DEF Is
  <2> QED  BY <2>1, <2>2, <2>3, <2>4
<1>9. lln(n) = (m - 1) * a + 1
  <2>1. lln(n) = 2 * N + a * (n - 1) - (2 * a) * N + 1
    BY <1>1, <1>3, <1>8 DEF lln, a
  <2>2. a * (n - 1) = (m - 1) * a + 2 * (a * N) - 2 * (a * p)
    BY <1>2, <1>4
  <2>3. (2 * a) * N = 2 * (a * N) /\ a * N \in Int /\ a * p \in Int /\ (m - 1) * a \in Int
    BY <1>2, <1>4
  <2> QED  BY <1>2, <2>1, <2>2, <2>3
<1>10. rln(n) = m * a
  <2>1. rln(n) = (m - 1) * a + 1 + a - 1
    BY <1>1, <1>8, <1>9 DEF rln, a
  <2>2. (m - 1) * a = m * a - a /\ m * a \in Int
    BY <1>2, <1>4
  <2> QED  BY <1>2, <2>1, <2>2
<1> QED  BY <1>8, <1>9, <1>10 DEF a
-----------------------------------------------------------------------------
\* The fields of the records.
Fields ==
  /\ hist \in [docs : {hist.docs}, deleted : {hist.deleted}, dels : {hist.dels}, mixed : {hist.mixed},
               again : {hist.again}, torn : {hist.torn}, reused : {hist.reused}, keys : {hist.keys}, kills : {hist.kills}]
  /\ sent \in [tree : Nat, entry : Nat]

\* The keyword's entry of the database, as a session that loads it sees it.
Saved == IF db # <<>> THEN db ELSE NewST

\* The numbers of keys and of deletions, and the key an addition may need.
Limits == /\ hist.keys \in 0..MaxKeys /\ hist.dels \in 0..MaxDeletes
          /\ pc \in {"addInsert", "addSend"} => Known \/ hist.keys < MaxKeys

\* Documents are numbered from 1 on; the counter of additions, in memory and in
\* the database, stays behind them, and the addition under way has room.
Filled ==
  \E n \in 0..MaxIds :
    /\ DOMAIN OD_del = 1..n
    /\ STw.cnt_i <= n /\ Saved.cnt_i <= n
    /\ pc = "addInsert" => n < MaxIds /\ id = n + 1
    /\ pc = "addSend" => STw.cnt_i < n
    /\ pc \in {"delRead", "del"} => id \in 1..n

\* The deletions that have been worked out.
Done == IF pc = "delRead" THEN hist.dels - 1 ELSE hist.dels

\* The counters of a node do not exceed k.
Upto3(x, k) == x.Num <= k /\ x.lNum <= k /\ x.rNum <= k

\* A deletion adds at most one to the counters.
Counted ==
  /\ Done >= 0 /\ STw.cnt_d <= Done /\ Saved.cnt_d <= Done
  /\ \A n \in DOMAIN OD_tree : Upto3(OD_tree[n], Done)
  /\ \A j \in DOMAIN ins : Upto3(ins[j], hist.dels)

\* The children of a node have smaller numbers.
Down(x) == x.l < x.Node /\ x.r < x.Node

\* A deletion writes nodes whose children lie below them; only the last of them
\* is removed.
Writing ==
  /\ ins \in Seq(Links)
  /\ pc = "del" => Known
  /\ \A j \in 1..Len(ins) : Down(ins[j]) /\ (j < Len(ins) => ins[j].Num >= 1)

DInv == Fields /\ Limits /\ Filled /\ Counted /\ Writing /\ TypeOK /\ Descends

-----------------------------------------------------------------------------
\* The elements of a set of numbers, by rank: below the j-th come j - 1 others.
LEMMA Ranks ==
  ASSUME NEW D \in Nat, NEW K \in SUBSET (1..D)
  PROVE  /\ Cardinality(K) \in Nat
         /\ \A j \in 1..Cardinality(K) : \E d \in K : Cardinality(K \cap 1..d) = j
         /\ \A d, e \in K : d < e => Cardinality(K \cap 1..d) < Cardinality(K \cap 1..e)
<1>1. \A n \in Nat : IsFiniteSet(K \cap 1..n) /\ Cardinality(K \cap 1..n) \in Nat
  <2> TAKE n \in Nat
  <2>1. IsFiniteSet(1..n) /\ K \cap 1..n \subseteq 1..n
    BY FS_Interval
  <2>2. IsFiniteSet(K \cap 1..n)
    BY <2>1, FS_Subset
  <2> QED  BY <2>2, FS_CardinalityType
<1>2. K \cap 1..D = K
  OBVIOUS
<1> DEFINE R(n) == Cardinality(K \cap 1..n)
           S == {n \in Nat : \A j \in 1..R(n) : \E d \in K : Cardinality(K \cap 1..d) = j}
<1>3. 0 \in S
  <2>1. K \cap 1..0 = {}
    OBVIOUS
  <2>2. R(0) = 0
    BY <2>1, FS_EmptySet
  <2> QED  BY <2>2
<1>4. ASSUME NEW n \in S PROVE n + 1 \in S
  <2>0. n \in Nat /\ n + 1 \in Nat
    OBVIOUS
  <2> SUFFICES ASSUME NEW j \in 1..R(n + 1) PROVE \E d \in K : Cardinality(K \cap 1..d) = j
    BY <2>0
  <2>1. CASE n + 1 \notin K
    <3>1. K \cap 1..(n + 1) = K \cap 1..n
      BY <2>0, <2>1
    <3>2. j \in 1..R(n)
      BY <3>1
    <3> QED  BY <3>2, <1>4
  <2>2. CASE n + 1 \in K
    <3>1. K \cap 1..(n + 1) = (K \cap 1..n) \cup {n + 1} /\ n + 1 \notin K \cap 1..n
      BY <2>0, <2>2
    <3>2. R(n + 1) = R(n) + 1
      BY <3>1, <1>1, <2>0, FS_AddElement
    <3>3. R(n) \in Nat
      BY <1>1, <2>0
    <3>4. CASE j = R(n) + 1
      BY <2>2, <3>2, <3>4
    <3>5. CASE j # R(n) + 1
      <4> HIDE DEF R
      <4>1. j \in 1..R(n)
        BY <3>2, <3>3, <3>5
      <4> QED  BY <4>1, <1>4 DEF R
    <3> QED  BY <3>4, <3>5
  <2> QED  BY <2>1, <2>2
<1>5. \A j \in 1..Cardinality(K) : \E d \in K : Cardinality(K \cap 1..d) = j
  <2> HIDE DEF S
  <2>1. S = Nat
    BY <1>3, <1>4, Induction DEF S
  <2> QED  BY <1>2, <2>1 DEF S
<1>6. ASSUME NEW d \in K, NEW e \in K, d < e
      PROVE  Cardinality(K \cap 1..d) < Cardinality(K \cap 1..e)
  <2>1. d \in Nat /\ e \in Nat
    OBVIOUS
  <2>2. K \cap 1..d \subseteq K \cap 1..e /\ e \in K \cap 1..e /\ e \notin K \cap 1..d
    BY <1>6, <2>1
  <2>3. IsFiniteSet(K \cap 1..e) /\ Cardinality(K \cap 1..d) \in Nat /\ Cardinality(K \cap 1..e) \in Nat
    BY <1>1, <2>1
  <2>4. K \cap 1..d # K \cap 1..e
    BY <2>2
  <2> DEFINE A == K \cap 1..d
             B == K \cap 1..e
  <2> HIDE DEF A, B
  <2>5. A \subseteq B /\ IsFiniteSet(B) /\ A # B
    BY <2>2, <2>3, <2>4 DEF A, B
  <2>6. Cardinality(A) <= Cardinality(B) /\ (Cardinality(B) = Cardinality(A) => A = B)
    BY <2>5, FS_Subset
  <2> QED  BY <2>3, <2>5, <2>6 DEF A, B
<1> QED  BY <1>1, <1>2, <1>5, <1>6

\* What a deletion finds at a leaf's ancestors, and those it still finds there.
At(leaf) == [d \in 1..Depth |-> IF InternalNodes(leaf)[d] \in DOMAIN OD_tree
                                THEN OD_tree[InternalNodes(leaf)[d]] ELSE Fresh(leaf, d)]
Left(leaf) == {d \in 1..Depth : At(leaf)[d].Num # -1}
Nth(leaf, j) == CHOOSE d \in Left(leaf) : Cardinality(Left(leaf) \cap 1..d) = j

LEMMA AncestorsBy ==
  ASSUME NEW leaf
  PROVE  Ancestors(leaf) = [j \in 1..Cardinality(Left(leaf)) |-> At(leaf)[Nth(leaf, j)]]
BY DEF Ancestors, At, Left, Nth

\* The children of a fresh ancestor are below it.
LEMMA FreshIs ==
  ASSUME NEW leaf \in 1..N, NEW d \in 1..Depth
  PROVE  /\ Fresh(leaf, d) \in Links /\ Down(Fresh(leaf, d)) /\ Fresh(leaf, d).Num = 0
         /\ Fresh(leaf, d).Node = InternalNodes(leaf)[d] /\ Upto3(Fresh(leaf, d), 0)
<1>1. /\ Depth + 1 - d \in 1..Depth /\ Depth - d \in 0..(Depth - 1) /\ (Depth - d) + 1 = Depth + 1 - d
      /\ d # Depth => d + 1 \in 1..Depth /\ Depth + 1 - (d + 1) = Depth - d
      /\ d = Depth => Depth - d = 0
      /\ MaxDeletes \in Nat
  BY DepthAssumption, BoundsAssumption
<1> DEFINE x == NodeAt(leaf, Depth - d)
           y == NodeAt(leaf, (Depth - d) + 1)
<1>2. InternalNodes(leaf)[d] = y
  BY <1>1 DEF InternalNodes
<1>3. (IF d = Depth THEN leaf ELSE InternalNodes(leaf)[d + 1]) = x
  BY <1>1, LeafLevel DEF InternalNodes
<1>4. y \in (N + 1)..(2 * N - 1)
  BY <1>1, InnerNode
<1>5. LeftOf(x) \in 1..(y - 1) /\ RightOf(x) \in 1..(y - 1)
  BY <1>1, ChildrenBelow
<1>6. Fresh(leaf, d) = [Node |-> y, Num |-> 0, l |-> LeftOf(x), lNum |-> 0, r |-> RightOf(x), rNum |-> 0]
  BY <1>2, <1>3 DEF Fresh
<1> HIDE DEF x, y
<1>7. N \in Nat
  BY Size
<1>8. y \in Int /\ LeftOf(x) \in 1..(2 * N - 2) /\ RightOf(x) \in 1..(2 * N - 2)
  BY <1>4, <1>5, <1>7
<1> QED  BY <1>1, <1>2, <1>4, <1>5, <1>6, <1>8 DEF Links, Down, Upto3

\* The nodes of OD_tree, filed under their numbers, with counters up to k.
TreeOf(k) == \A n \in DOMAIN OD_tree :
  OD_tree[n] \in Links /\ OD_tree[n].Node = n /\ Down(OD_tree[n]) /\ Upto3(OD_tree[n], k)

\* A sequence of nodes from the root down, none removed, with counters up to k.
Descent(a, k) ==
  /\ a \in Seq(Links)
  /\ \A j \in 1..Len(a) : a[j].Num >= 0 /\ Down(a[j]) /\ Upto3(a[j], k)
  /\ \A i, j \in 1..Len(a) : i < j => a[j].Node < a[i].Node

\* The ancestors a deletion works on are such a sequence.
LEMMA AncestorsDescend ==
  ASSUME NEW leaf \in 1..N, NEW k \in Nat, TreeOf(k)
  PROVE  Descent(Ancestors(leaf), k)
<1> DEFINE K == Left(leaf)
           a == Ancestors(leaf)
<1>1. \A d \in 1..Depth : /\ At(leaf)[d] \in Links /\ Down(At(leaf)[d]) /\ Upto3(At(leaf)[d], k)
                          /\ At(leaf)[d].Node = NodeAt(leaf, Depth + 1 - d)
  <2> TAKE d \in 1..Depth
  <2>1. InternalNodes(leaf)[d] = NodeAt(leaf, Depth + 1 - d)
    BY DEF InternalNodes
  <2>2. CASE InternalNodes(leaf)[d] \in DOMAIN OD_tree
    BY <2>1, <2>2 DEF At, TreeOf
  <2>3. CASE InternalNodes(leaf)[d] \notin DOMAIN OD_tree
    <3>1. At(leaf)[d] = Fresh(leaf, d)
      BY <2>3 DEF At
    <3>2. Upto3(Fresh(leaf, d), k)
      BY FreshIs DEF Upto3, Links
    <3> QED  BY <2>1, <3>1, <3>2, FreshIs
  <2> QED  BY <2>2, <2>3
<1>2. Depth \in Nat /\ K \in SUBSET (1..Depth)
  BY DepthAssumption DEF Left
<1>3. /\ Cardinality(K) \in Nat
      /\ \A j \in 1..Cardinality(K) : \E d \in K : Cardinality(K \cap 1..d) = j
      /\ \A d, e \in K : d < e => Cardinality(K \cap 1..d) < Cardinality(K \cap 1..e)
  <2> HIDE DEF K
  <2> QED  BY <1>2, Ranks
<1>4. \A j \in 1..Cardinality(K) : Nth(leaf, j) \in K /\ Cardinality(K \cap 1..Nth(leaf, j)) = j
  BY <1>3 DEF Nth
<1>5. a = [j \in 1..Cardinality(K) |-> At(leaf)[Nth(leaf, j)]]
  BY AncestorsBy
<1>6. ASSUME NEW i \in 1..Cardinality(K), NEW j \in 1..Cardinality(K), i < j
      PROVE  Nth(leaf, i) < Nth(leaf, j)
  <2> DEFINE d == Nth(leaf, i)
             e == Nth(leaf, j)
  <2>1. d \in K /\ e \in K /\ Cardinality(K \cap 1..d) = i /\ Cardinality(K \cap 1..e) = j
    BY <1>4
  <2>2. d \in Int /\ e \in Int
    BY <2>1, <1>2
  <2> HIDE DEF K, d, e
  <2>3. ~(e < d)
    <3>1. e < d => j < i
      BY <1>3, <2>1
    <3> QED  BY <3>1, <1>6
  <2>4. d # e
    BY <2>1, <1>6
  <2>5. d < e
    BY <2>2, <2>3, <2>4
  <2> QED  BY <2>5 DEF d, e
<1>7. \A j \in 1..Cardinality(K) : Nth(leaf, j) \in 1..Depth /\ At(leaf)[Nth(leaf, j)].Num # -1
  BY <1>4 DEF Left
<1> HIDE DEF K
<1>8. Len(a) = Cardinality(K) /\ a \in Seq(Links)
  BY <1>1, <1>3, <1>5, <1>7
<1>9. \A j \in 1..Len(a) : a[j].Num >= 0 /\ Down(a[j]) /\ Upto3(a[j], k)
  <2> TAKE j \in 1..Len(a)
  <2>1. Nth(leaf, j) \in 1..Depth /\ a[j] = At(leaf)[Nth(leaf, j)] /\ a[j].Num # -1
    BY <1>5, <1>7, <1>8
  <2>2. a[j] \in Links /\ Down(a[j]) /\ Upto3(a[j], k)
    BY <1>1, <2>1
  <2>3. a[j].Num \in -1..MaxDeletes
    BY <2>2 DEF Links
  <2> QED  BY <2>1, <2>2, <2>3, BoundsAssumption
<1>10. ASSUME NEW i \in 1..Len(a), NEW j \in 1..Len(a), i < j PROVE a[j].Node < a[i].Node
  <2> DEFINE d == Nth(leaf, i)
             e == Nth(leaf, j)
  <2>1. d \in 1..Depth /\ e \in 1..Depth /\ d < e
    BY <1>6, <1>7, <1>8, <1>10
  <2>2. a[i].Node = NodeAt(leaf, Depth + 1 - d) /\ a[j].Node = NodeAt(leaf, Depth + 1 - e)
    BY <1>1, <1>5, <1>8, <2>1
  <2>3. Depth + 1 - e \in 0..Depth /\ Depth + 1 - d \in 0..Depth /\ Depth + 1 - e < Depth + 1 - d
    BY <2>1, DepthAssumption
  <2> QED  BY <2>2, <2>3, LevelsGrow
<1> QED  BY <1>8, <1>9, <1>10 DEF Descent

\* A node whose children are below it, with counters up to k.
Good(x, k) == x \in Links /\ Down(x) /\ Upto3(x, k)

\* The child that stays is one of the two.
LEMMA SiblingIs ==
  ASSUME NEW p, NEW k \in Nat, Good(p, k), NEW leaf
  PROVE  /\ Sibling(p, leaf).n \in 1..(2 * N - 2) /\ Sibling(p, leaf).n < p.Node
         /\ Sibling(p, leaf).num \in 0..k
<1> DEFINE s == IF p.l = leaf THEN [n |-> p.r, num |-> p.rNum] ELSE [n |-> p.l, num |-> p.lNum]
<1>1. /\ p.l \in 1..(2 * N - 2) /\ p.r \in 1..(2 * N - 2) /\ p.l < p.Node /\ p.r < p.Node
      /\ p.lNum \in 0..k /\ p.rNum \in 0..k
  BY BoundsAssumption DEF Good, Links, Down, Upto3
<1>2. s.n \in 1..(2 * N - 2) /\ s.n < p.Node /\ s.num \in 0..k
  BY <1>1
<1>3. Sibling(p, leaf) = [n |-> s.n, num |-> IF s.n <= N THEN 0 ELSE s.num]
  BY DEF Sibling
<1> HIDE DEF s
<1> QED  BY <1>2, <1>3

\* Relinking a node leaves its children below it.
LEMMA RelinkIs ==
  ASSUME NEW g, NEW p, NEW k \in Nat, Good(g, k), Good(p, k), p.Node < g.Node, NEW leaf
  PROVE  LET x == Relink(g, p, Sibling(p, leaf))
         IN  Good(x, k) /\ x.Node = g.Node /\ x.Num = g.Num
<1> DEFINE s == Sibling(p, leaf)
<1>1. s.n \in 1..(2 * N - 2) /\ s.n < p.Node /\ s.num \in 0..k
  BY SiblingIs
<1>2. p.Node \in Int /\ g.Node \in Int
  BY Size DEF Good, Links
<1> HIDE DEF s
<1>3. s.n < g.Node /\ s.num <= k /\ s.num \in 0..MaxDeletes
  <2>1. s.num \in 0..MaxDeletes
    <3>1. MaxDeletes \in Nat
      BY BoundsAssumption
    <3>2. CASE k <= MaxDeletes
      BY <1>1, <3>1, <3>2
    <3>3. CASE k > MaxDeletes
      <4>1. Sibling(p, leaf).num \in 0..MaxDeletes
        <5>1. Good(p, MaxDeletes)
          BY <3>1 DEF Good, Links, Upto3
        <5> QED  BY <5>1, <3>1, SiblingIs
      <4> QED  BY <4>1 DEF s
    <3> QED  BY <3>1, <3>2, <3>3
  <2> QED  BY <1>1, <1>2, <2>1
<1>4. CASE g.l = p.Node
  <2>1. Relink(g, p, s) = [g EXCEPT !.l = s.n, !.lNum = s.num]
    BY <1>4 DEF Relink
  <2> QED  BY <2>1, <1>1, <1>3 DEF Good, Links, Down, Upto3, s
<1>5. CASE g.l # p.Node
  <2>1. Relink(g, p, s) = [g EXCEPT !.r = s.n, !.lNum = s.num]
    BY <1>5 DEF Relink
  <2> QED  BY <2>1, <1>1, <1>3 DEF Good, Links, Down, Upto3, s
<1> QED  BY <1>4, <1>5

\* The loop adds at most one to a counter.
LEMMA BumpIs ==
  ASSUME NEW x, NEW y, NEW k \in Nat, Good(x, k), x.Num >= 0, k + 1 <= MaxDeletes
  PROVE  Good(Bump(x, y), k + 1) /\ Bump(x, y).Num >= 1 /\ Bump(x, y).Node = x.Node
<1>1. MaxDeletes \in Nat
  BY BoundsAssumption
<1>2. x.Num \in 0..k /\ x.lNum \in 0..k /\ x.rNum \in 0..k
  BY <1>1 DEF Good, Links, Upto3
<1> DEFINE l == IF x.l = y.Node THEN x.lNum + 1 ELSE x.lNum
           r == IF x.l # y.Node /\ x.r = y.Node THEN x.rNum + 1 ELSE x.rNum
<1>3. l \in 0..(k + 1) /\ r \in 0..(k + 1)
  BY <1>2
<1>4. Bump(x, y) = [x EXCEPT !.Num = x.Num + 1, !.lNum = l, !.rNum = r]
  BY DEF Bump
<1> HIDE DEF l, r
<1>5. /\ l \in 0..MaxDeletes /\ r \in 0..MaxDeletes /\ x.Num + 1 \in -1..MaxDeletes
      /\ x.Num + 1 >= 1 /\ x.Num + 1 <= k + 1 /\ l <= k + 1 /\ r <= k + 1
  BY <1>1, <1>2, <1>3
<1> QED  BY <1>4, <1>5 DEF Good, Links, Down, Upto3

\* What a deletion writes: the same nodes, all but the last still there.
LEMMA WrittenIs ==
  ASSUME NEW a, NEW k \in Nat, Descent(a, k), k + 1 <= MaxDeletes, NEW leaf
  PROVE  /\ Written(a, leaf) \in Seq(Links) /\ Len(Written(a, leaf)) = Len(a)
         /\ \A j \in 1..Len(a) : /\ Good(Written(a, leaf)[j], k + 1)
                                 /\ Written(a, leaf)[j].Node = a[j].Node
                                 /\ j < Len(a) => Written(a, leaf)[j].Num >= 1
<1> DEFINE n == Len(a)
           b == IF n < 2 THEN a ELSE [a EXCEPT ![n - 1] = Relink(a[n - 1], a[n], Sibling(a[n], leaf))]
           w == [j \in 1..n |-> IF j = n THEN [b[n] EXCEPT !.Num = -1] ELSE Bump(b[j], a[j + 1])]
<1>1. n \in Nat /\ a \in Seq(Links) /\ DOMAIN a = 1..n
  BY DEF Descent
<1>2. \A j \in 1..n : Good(a[j], k) /\ a[j].Num >= 0
  BY DEF Descent, Good
<1>3. Written(a, leaf) = w
  BY DEF Written
<1>4. \A j \in 1..n : Good(b[j], k) /\ b[j].Num >= 0 /\ b[j].Node = a[j].Node
  <2> TAKE j \in 1..n
  <2>1. CASE n < 2 \/ j # n - 1
    BY Zenon, <1>1, <1>2, <2>1
  <2>2. CASE n >= 2 /\ j = n - 1
    <3>1. n \in 1..n /\ n - 1 \in 1..n /\ n - 1 < n
      BY <1>1, <2>2
    <3>2. a[n].Node < a[n - 1].Node /\ Good(a[n], k) /\ Good(a[n - 1], k)
      BY <1>2, <3>1 DEF Descent
    <3>3. b[j] = Relink(a[n - 1], a[n], Sibling(a[n], leaf))
      BY <1>1, <2>2, <3>1
    <3> HIDE DEF b, n
    <3> QED  BY <1>2, <2>2, <3>1, <3>2, <3>3, RelinkIs
  <2> HIDE DEF b, n
  <2> QED  BY <1>1, <2>1, <2>2
<1> HIDE DEF b
<1>5. \A j \in 1..n : Good(w[j], k + 1) /\ w[j].Node = a[j].Node /\ (j < n => w[j].Num >= 1)
  <2> TAKE j \in 1..n
  <2>1. CASE j = n
    <3>1. w[j] = [b[n] EXCEPT !.Num = -1]
      BY <2>1
    <3>2. Good(b[n], k) /\ b[n].Node = a[n].Node /\ -1 \in -1..MaxDeletes
      BY <1>4, <2>1, BoundsAssumption
    <3>3. b[n].lNum \in 0..MaxDeletes /\ b[n].rNum \in 0..MaxDeletes
      BY <3>2 DEF Good, Links
    <3> DEFINE x == b[n]
               y == w[j]
    <3>4. y = [x EXCEPT !.Num = -1] /\ Good(x, k) /\ x.Node = a[j].Node
      BY <2>1, <3>1, <3>2
    <3> HIDE DEF w, x, y
    <3>5. y \in Links /\ Down(y) /\ y.Node = x.Node
      BY <3>2, <3>4 DEF Good, Links, Down
    <3>6. y.Num = -1 /\ y.lNum = x.lNum /\ y.rNum = x.rNum
      BY <3>4 DEF Good, Links
    <3>7. Upto3(y, k + 1)
      BY <3>2, <3>3, <3>4, <3>6 DEF Good, Upto3, x
    <3>8. Good(y, k + 1) /\ y.Node = a[j].Node
      BY <3>4, <3>5, <3>7 DEF Good
    <3> QED  BY <2>1, <3>8 DEF y
  <2>2. CASE j # n
    <3>1. w[j] = Bump(b[j], a[j + 1]) /\ Good(b[j], k) /\ b[j].Num >= 0 /\ b[j].Node = a[j].Node
      BY <1>4, <2>2
    <3> HIDE DEF w
    <3> QED  BY <3>1, BumpIs
  <2> QED  BY <2>1, <2>2
<1>6. w \in Seq(Links) /\ Len(w) = n
  BY <1>1, <1>5 DEF Good
<1> HIDE DEF w
<1> QED  BY <1>3, <1>5, <1>6

\* A search of c updates starts from the first node of the level ceil(log2(c)).
LEMMA SnIs ==
  ASSUME NEW c \in 1..N
  PROVE  /\ CeilLog2(c) \in 0..Depth /\ c <= Pow2[CeilLog2(c)]
         /\ c > 1 => CeilLog2(c) # 0
         /\ CeilLog2(c) # 0 => Pow2[CeilLog2(c) - 1] < c
         /\ getSn(c) = 1 + (2 * N - Pow2[Depth + 1 - CeilLog2(c)])
         /\ getSn(c) \in 1..(2 * N - 1)
<1> DEFINE Is(j) == Pow2[j] >= c /\ (j = 0 \/ Pow2[j - 1] < c)
           J == CeilLog2(c)
<1>1. c \in Nat /\ c >= 1 /\ Depth \in Nat /\ N \in Nat
  BY Size, DepthAssumption
<1>2. \E j \in 0..c : Is(j)
  <2> DEFINE S == {j \in Nat : Pow2[j] >= c}
  <2>1. c \in S
    BY <1>1, PowAbove
  <2>2. PICK m \in S : \A n \in S : m <= n
    <3> HIDE DEF S
    <3>1. S \in SUBSET Nat
      BY DEF S
    <3> QED  BY <2>1, <3>1, LeastElement
  <2>3. m \in 0..c
    BY <1>1, <2>1, <2>2
  <2>4. m # 0 => Pow2[m - 1] < c
    <3>1. m # 0 => m - 1 \in Nat /\ m - 1 \notin S
      BY <2>2
    <3>2. m # 0 => Pow2[m - 1] \in Nat
      BY <3>1, PowAbove
    <3> QED  BY <1>1, <3>1, <3>2
  <2> QED  BY <2>2, <2>3, <2>4
<1>3. J \in 0..c /\ Is(J)
  <2>1. J = CHOOSE j \in 0..c : Is(j)
    BY DEF CeilLog2
  <2> HIDE DEF Is, J
  <2> QED  BY <1>2, <2>1
<1> HIDE DEF J
<1>4. J \in Nat /\ J <= Depth
  <2>1. CASE J > Depth
    <3>1. J - 1 \in Nat /\ Depth <= J - 1 /\ J # 0
      BY <1>1, <1>3, <2>1
    <3>2. N <= Pow2[J - 1] /\ Pow2[J - 1] \in Nat
      BY <1>1, <3>1, PowGrows, PowAbove DEF N
    <3> QED  BY <1>1, <1>3, <3>1, <3>2
  <2> QED  BY <1>1, <1>3, <2>1
<1>5. Pow2[J] \in Nat \ {0}
  BY <1>4, PowAbove
<1>6. CeilDiv(c, Pow2[J]) = 1
  <2>1. c <= Pow2[J] * 1
    BY <1>3, <1>5
  <2>2. CeilDiv(c, Pow2[J]) \in Nat \ {0} /\ CeilDiv(c, Pow2[J]) <= 1
    BY <1>1, <1>5, <2>1, Ceil
  <2> QED  BY <2>2
<1>7. Offset(J) = 2 * N - Pow2[Depth + 1 - J]
  BY <1>1, <1>4, OffsetIs
<1>8. getSn(c) = NodeAt(c, J)
  BY DEF getSn, J
<1>9. getSn(c) = 1 + (2 * N - Pow2[Depth + 1 - J])
  BY <1>6, <1>7, <1>8 DEF NodeAt
<1>10. getSn(c) \in 1..(2 * N - 1)
  <2>1. CASE J = 0
    BY <1>1, <1>8, <2>1, LeafLevel, Size
  <2>2. CASE J # 0
    <3>1. J \in 1..Depth
      BY <1>1, <1>4, <2>2
    <3>2. NodeAt(c, J) \in (N + 1)..(2 * N - 1)
      BY <3>1, InnerNode
    <3> QED  BY <1>1, <1>8, <3>2
  <2> QED  BY <2>1, <2>2
<1>11. c > 1 => J # 0
  BY <1>3, PowStep
<1> QED  BY <1>1, <1>3, <1>4, <1>9, <1>10, <1>11 DEF J

-----------------------------------------------------------------------------
\* An entry of ST is a record.
LEMMA EntryIs == \A s \in STs : s # <<>>
<1> SUFFICES ASSUME NEW s \in STs, s = <<>> PROVE FALSE
  OBVIOUS
<1>1. DOMAIN s = {"K", "cnt_i", "cnt_d", "sn", "lastL"}
  BY DEF STs
<1>2. Len(s) = 0 /\ DOMAIN s = 1..0
  OBVIOUS
<1> QED  BY <1>1, <1>2

LEMMA NewEntry == NewST \in STs /\ NoLabel \in Labels
BY BoundsAssumption, Size DEF NewST, NoLabel, STs, Labels

LEMMA Entries ==
  ASSUME TypeOK
  PROVE  /\ STw \in STs /\ (Known => STw = ST /\ ST \in STs)
         /\ Saved \in STs
BY NewEntry DEF TypeOK, STw, Saved, Known

LEMMA InitDInv == Init => DInv
<1> SUFFICES ASSUME Init PROVE DInv
  OBVIOUS
<1> USE DEF Init
<1>1. /\ MaxIds \in Nat /\ MaxKeys \in Nat /\ MaxDeletes \in Nat
      /\ DOMAIN ins = {} /\ DOMAIN OD_del = {} /\ DOMAIN OD_tree = {} /\ DOMAIN EDB = {}
      /\ ins \in Seq(Links) /\ Len(ins) = 0
  BY BoundsAssumption, Size
<1>2. Fields /\ Limits
  BY <1>1 DEF Fields, Limits
<1>3. Filled
  <2>1. STw.cnt_i = 0 /\ Saved.cnt_i = 0 /\ 0 \in 0..MaxIds /\ 1..0 = {}
    BY <1>1 DEF STw, Known, Saved, NewST
  <2> QED  BY <1>1, <2>1 DEF Filled
<1>4. Counted /\ Writing
  BY <1>1 DEF Counted, Writing, Done, STw, Known, Saved, NewST
<1>5. TypeOK /\ Descends
  BY <1>1 DEF TypeOK, Descends
<1> QED  BY <1>2, <1>3, <1>4, <1>5 DEF DInv

\* A step at whose end no operation is under way, that moves ST between memory
\* and the database and leaves the server alone.
LEMMA Settled ==
  ASSUME DInv, UNCHANGED <<id, server>>, pc' \in {"off", "ready"},
         ST' \in {ST, db}, db' \in {ST, db}, ins' \in {ins, <<>>},
         Fields', hist'.keys = hist.keys, hist'.dels = hist.dels
  PROVE  DInv'
<1> USE DEF DInv, server
<1>1. MaxIds \in Nat /\ MaxKeys \in Nat /\ MaxDeletes \in Nat
  BY BoundsAssumption, Size
<1>2. STw \in STs /\ Saved \in STs /\ STw' \in {STw, Saved} /\ Saved' \in {STw, Saved}
  BY Entries DEF STw, Saved, Known
<1>3. Done' = hist.dels /\ Done <= hist.dels /\ Done \in Int /\ hist.dels \in Nat
  BY <1>1 DEF Done, Limits
<1>4. Limits'
  BY DEF Limits
<1>5. Filled'
  BY <1>2 DEF Filled
<1>6. Counted'
  <2>1. STw'.cnt_d <= hist.dels /\ Saved'.cnt_d <= hist.dels
    BY <1>2, <1>3 DEF Counted, STs
  <2>2. \A n \in DOMAIN OD_tree : Upto3(OD_tree[n], hist.dels)
    BY <1>1, <1>3 DEF Counted, Upto3, TypeOK, Links
  <2>3. \A j \in DOMAIN ins' : Upto3(ins'[j], hist.dels)
    BY DEF Counted
  <2> QED  BY <1>3, <2>1, <2>2, <2>3 DEF Counted, Upto3
<1>7. Writing'
  <2>1. CASE ins' = ins
    BY <2>1 DEF Writing
  <2>2. CASE ins' = <<>>
    <3>1. ins' \in Seq(Links) /\ Len(ins') = 0
      BY <2>2
    <3> QED  BY <3>1 DEF Writing
  <2> QED  BY <2>1, <2>2
<1>8. TypeOK'
  BY DEF TypeOK
<1>9. Descends'
  BY DEF Descends
<1> QED  BY <1>4, <1>5, <1>6, <1>7, <1>8, <1>9

\* The steps that settle, and those of the server's loop.
LEMMA QuietSteps ==
  ASSUME DInv,
         Start \/ Exit \/ Kill \/ DelCrash \/ DelEnd \/ Expand \/ TakeLeaf \/ WalkNode \/ WalkLeaf \/ SearchEnd
  PROVE  DInv'
<1>0. Fields
  BY DEF DInv
<1>1. CASE Start
  BY <1>1, <1>0, Settled DEF Start, server, Fields
<1>2. CASE Exit
  BY <1>2, <1>0, Settled DEF Exit, server, Fields
<1>3. CASE Kill
  <2>1. /\ UNCHANGED <<id, server>> /\ pc' = "off" /\ ST' = db /\ db' = db /\ ins' = <<>>
        /\ sent' = [tree |-> 0, entry |-> 0]
        /\ hist' = [hist EXCEPT !.kills = @ + 1, !.torn = @ \/ Torn]
    BY <1>3 DEF Kill, Lose, server
  <2>2. Fields' /\ hist'.keys = hist.keys /\ hist'.dels = hist.dels
    BY <1>0, <2>1 DEF Fields
  <2> QED  BY <2>1, <2>2, Settled
<1>4. CASE DelCrash
  <2>1. /\ UNCHANGED <<id, server>> /\ pc' = "off" /\ ST' = db /\ db' = db /\ ins' = <<>>
        /\ sent' = [tree |-> 0, entry |-> 0] /\ hist' = hist
    BY <1>4 DEF DelCrash, Lose, server
  <2>2. Fields' /\ hist'.keys = hist.keys /\ hist'.dels = hist.dels
    BY <1>0, <2>1 DEF Fields
  <2> QED  BY <2>1, <2>2, Settled
<1>5. CASE DelEnd
  BY <1>5, <1>0, Settled DEF DelEnd, server, Fields
<1>6. CASE SearchEnd
  BY <1>6, <1>0, Settled DEF SearchEnd, server, Fields
<1>7. CASE Expand \/ TakeLeaf \/ WalkNode \/ WalkLeaf
  <2>1. UNCHANGED <<pc, id, ST, db, ins, sent, OD_del, OD_tree, EDB, hist>>
    BY <1>7 DEF Expand, TakeLeaf, WalkNode, WalkLeaf, server
  <2>2. Fields' /\ Limits' /\ Filled' /\ Counted'
    BY <2>1 DEF DInv, Fields, Limits, Filled, Counted, Known, STw, Saved, Done
  <2>3. Writing' /\ TypeOK' /\ Descends'
    BY <2>1 DEF DInv, Writing, TypeOK, Descends, Known
  <2> QED  BY <2>2, <2>3 DEF DInv
<1> QED  BY <1>1, <1>2, <1>3, <1>4, <1>5, <1>6, <1>7

\* The steps of an addition and a search that only prepare a later one.
LEMMA AddFindDInv == ASSUME DInv, AddFind PROVE DInv'
<1> USE DEF AddFind, DInv
<1>1. UNCHANGED <<ST, db, ins, sent, OD_del, OD_tree, EDB, srv, hist>> /\ pc' = "addInsert"
  BY DEF server
<1>2. PICK n \in 0..MaxIds : /\ DOMAIN OD_del = 1..n
                             /\ STw.cnt_i <= n /\ Saved.cnt_i <= n
  BY DEF Filled
<1>3. n \in Nat /\ MaxIds \in Nat /\ Cardinality(1..n) = n
  <2>1. MaxIds \in Nat /\ n \in Nat
    BY BoundsAssumption, Size
  <2> QED  BY <2>1, FS_Interval
<1>4. id' = n + 1 /\ n < MaxIds
  BY <1>2, <1>3
<1>5. Fields' /\ Limits' /\ Counted'
  BY <1>1 DEF Fields, Limits, Counted, Known, STw, Saved, Done
<1>6. Filled'
  BY <1>1, <1>2, <1>4 DEF Filled, Known, STw, Saved
<1>7. Writing' /\ TypeOK' /\ Descends'
  BY <1>1, <1>3, <1>4 DEF Writing, TypeOK, Descends, Known
<1> QED  BY <1>5, <1>6, <1>7

LEMMA AddInsertDInv == ASSUME DInv, AddInsert PROVE DInv'
<1> USE DEF AddInsert, DInv
<1>1. UNCHANGED <<id, ST, db, ins, sent, OD_tree, EDB, srv, hist>> /\ pc = "addInsert" /\ pc' = "addSend"
  OBVIOUS
<1>2. PICK n \in 0..MaxIds : /\ DOMAIN OD_del = 1..n
                             /\ STw.cnt_i <= n /\ Saved.cnt_i <= n
                             /\ n < MaxIds /\ id = n + 1
  BY DEF Filled
<1>3. n \in Nat /\ MaxIds \in Nat /\ n + 1 \in 0..MaxIds
  BY <1>2, BoundsAssumption, Size
<1>4. STw.cnt_i \in Nat /\ Saved.cnt_i \in Nat /\ UNCHANGED <<STw, Saved>>
  BY <1>1, Entries DEF STs, STw, Saved, Known
<1>5. OD_del' = Put(OD_del, n + 1, STw.cnt_i + 1)
  BY <1>2
<1>6. DOMAIN OD_del' = 1..(n + 1)
  BY <1>2, <1>3, <1>5 DEF Put
<1>7. \A i \in DOMAIN OD_del' : OD_del'[i] \in 1..MaxIds
  BY <1>2, <1>3, <1>4, <1>5 DEF Put, TypeOK
<1>8. Fields' /\ Limits' /\ Counted'
  BY <1>1, <1>4 DEF Fields, Limits, Counted, Known, Done
<1>9. Filled'
  BY <1>1, <1>2, <1>3, <1>4, <1>6 DEF Filled
<1>10. Writing' /\ Descends'
  BY <1>1 DEF Writing, Descends, Known
<1>11. TypeOK'
  BY <1>1, <1>3, <1>6, <1>7 DEF TypeOK
<1> QED  BY <1>8, <1>9, <1>10, <1>11

LEMMA StartSearchDInv == ASSUME DInv, StartSearch PROVE DInv'
<1> USE DEF StartSearch, DInv
<1>1. UNCHANGED <<id, db, ins, sent, OD_del, OD_tree, EDB>> /\ pc = "ready" /\ pc' = "search"
  BY DEF server
<1>2. ST' = [STw EXCEPT !.K = hist.keys + 1] /\ hist' = [hist EXCEPT !.keys = @ + 1]
  OBVIOUS
<1>3. MaxKeys \in Nat /\ hist.keys + 1 \in 0..MaxKeys
  BY BoundsAssumption DEF Limits
<1>4. /\ ST' \in STs /\ Known' /\ STw' = ST' /\ Saved' = Saved
      /\ ST'.cnt_i = STw.cnt_i /\ ST'.cnt_d = STw.cnt_d
  <2>1. STw \in STs
    BY Entries
  <2>2. ST' \in STs /\ ST'.cnt_i = STw.cnt_i /\ ST'.cnt_d = STw.cnt_d
    BY <1>2, <1>3, <2>1 DEF STs
  <2>3. Known'
    BY <2>2, EntryIs DEF Known
  <2> QED  BY <1>1, <2>2, <2>3 DEF STw, Saved
<1>5. Fields' /\ hist'.keys = hist.keys + 1 /\ hist'.dels = hist.dels
  BY <1>1, <1>2 DEF Fields
<1>6. Limits'
  BY <1>1, <1>3, <1>5 DEF Limits
<1>7. Filled'
  BY <1>1, <1>4 DEF Filled
<1>8. Counted'
  BY <1>1, <1>4, <1>5 DEF Counted, Done
<1>9. Writing' /\ Descends'
  BY <1>1, <1>4 DEF Writing, Descends
<1>10. TypeOK'
  BY <1>1, <1>4 DEF TypeOK
<1> QED  BY <1>5, <1>6, <1>7, <1>8, <1>9, <1>10

\* An addition stores its document under a label of the leaf after the last.
LEMMA AddSendDInv == ASSUME DInv, AddSend PROVE DInv'
<1> USE DEF DInv
<1> DEFINE K == IF Known THEN ST.K ELSE hist.keys + 1
           c == STw.cnt_i + 1
           new == [K |-> K, cnt_i |-> c, cnt_d |-> STw.cnt_d, sn |-> getSn(c), lastL |-> Leaf(c, K)]
           e == [c |-> Doc(id), d |-> [h |-> c, to |-> STw.lastL]]
<1>1. /\ UNCHANGED <<id, db, ins, sent, OD_del, OD_tree>> /\ pc = "addSend" /\ pc' = "ready"
      /\ ST' = new /\ EDB' = Put(EDB, Leaf(c, K), e)
      /\ hist' = [hist EXCEPT !.keys = IF Known THEN @ ELSE K,
                              !.docs = Append(SubSeq(@, 1, c - 1), id),
                              !.mixed = @ \/ hist.deleted # {},
                              !.reused = @ \/ \E i \in hist.deleted : OD_del[i] = c]
  BY DEF AddSend
<1>2. PICK n \in 0..MaxIds : /\ DOMAIN OD_del = 1..n
                             /\ STw.cnt_i <= n /\ Saved.cnt_i <= n /\ STw.cnt_i < n
  BY <1>1 DEF Filled
<1>3. /\ STw \in STs /\ (Known => ST \in STs) /\ NoLabel \in Labels
      /\ MaxIds \in 1..N /\ N \in Nat /\ MaxKeys \in Nat /\ MaxDeletes \in Nat
  BY Entries, NewEntry, BoundsAssumption, Size
<1>4. K \in 0..MaxKeys
  <2>1. CASE Known
    BY <1>3, <2>1 DEF STs
  <2>2. CASE ~Known
    BY <1>1, <1>3, <2>2 DEF Limits
  <2> QED  BY <2>1, <2>2
<1>5. c \in 1..n /\ c \in 1..N /\ c \in 0..MaxIds
  <2>1. STw.cnt_i \in Nat
    BY <1>3 DEF STs
  <2> QED  BY <1>2, <1>3, <2>1
<1> HIDE DEF K, c
<1>6. getSn(c) \in 0..(2 * N)
  <2>1. getSn(c) \in 1..(2 * N - 1)
    BY <1>5, SnIs
  <2> QED  BY <1>3, <2>1
<1>7. Leaf(c, K) \in Labels
  BY <1>3, <1>4, <1>5 DEF Leaf, Labels
<1>8. new \in STs
  BY <1>3, <1>4, <1>5, <1>6, <1>7 DEF STs
<1>9. Known' /\ STw' = new /\ Saved' = Saved
  BY <1>1, <1>8, EntryIs DEF Known, STw, Saved
<1>10. /\ Fields' /\ hist'.dels = hist.dels
       /\ hist'.keys = IF Known THEN hist.keys ELSE K
  BY <1>1 DEF Fields
<1>11. Limits'
  BY <1>1, <1>4, <1>10 DEF Limits
<1>12. Filled'
  <2>1. new.cnt_i <= n
    BY <1>5
  <2> QED  BY <1>1, <1>2, <1>9, <2>1 DEF Filled
<1>13. Counted'
  <2>1. new.cnt_d <= Done /\ Done' = Done
    BY <1>1, <1>10 DEF Counted, Done
  <2> QED  BY <1>1, <1>9, <1>10, <2>1 DEF Counted
<1>14. Writing'
  BY <1>1, <1>9 DEF Writing
<1>15. e.c \in Cells /\ e.d.to \in Labels
  <2>1. id \in 0..MaxIds /\ STw.lastL \in Labels
    BY <1>3 DEF TypeOK, STs
  <2> QED  BY <2>1 DEF Cells, Doc
<1>16. TypeOK'
  <2>1. \A l \in DOMAIN EDB' : l \in Labels /\ EDB'[l].c \in Cells /\ EDB'[l].d.to \in Labels
    <3> HIDE DEF e
    <3> TAKE l \in DOMAIN EDB'
    <3>1. CASE l = Leaf(c, K)
      BY <1>1, <1>7, <1>15, <3>1 DEF Put
    <3>2. CASE l # Leaf(c, K)
      <4>1. l \in DOMAIN EDB /\ EDB'[l] = EDB[l]
        BY <1>1, <3>2 DEF Put
      <4> QED  BY <4>1 DEF TypeOK
    <3> QED  BY <3>1, <3>2
  <2> HIDE DEF new
  <2> QED  BY <1>1, <1>8, <2>1 DEF TypeOK
<1>17. Descends'
  <2>1. \A l \in DOMAIN EDB' : l[1] > N => l \in DOMAIN EDB /\ EDB'[l] = EDB[l]
    <3>1. ~(Leaf(c, K)[1] > N)
      BY <1>3, <1>5 DEF Leaf
    <3> HIDE DEF e
    <3> QED  BY <1>1, <3>1 DEF Put
  <2> QED  BY <1>1, <2>1 DEF Descends
<1> QED  BY <1>10, <1>11, <1>12, <1>13, <1>14, <1>16, <1>17

LEMMA DelFindDInv == ASSUME DInv, NEW i \in 1..MaxIds, DelFind(i) PROVE DInv'
<1> USE DEF DInv
<1>1. /\ UNCHANGED <<ST, db, ins, sent, OD_del, OD_tree, EDB>> /\ pc = "ready" /\ pc' = "delRead"
      /\ i \in DOMAIN OD_del /\ id' = i /\ hist.dels < MaxDeletes
      /\ hist' = [hist EXCEPT !.deleted = @ \cup {i}, !.dels = @ + 1,
                              !.again = @ \/ i \notin Live(STw.cnt_i)]
  BY DEF DelFind, server
<1>2. MaxIds \in Nat /\ MaxDeletes \in Nat /\ hist.dels \in Nat
  BY BoundsAssumption, Size DEF Limits
<1>3. Fields' /\ hist'.keys = hist.keys /\ hist'.dels = hist.dels + 1
  BY <1>1 DEF Fields
<1>4. UNCHANGED <<STw, Saved, Known>>
  BY <1>1 DEF STw, Saved, Known
<1>5. Done' = Done /\ Done = hist.dels
  BY <1>1, <1>2, <1>3 DEF Done
<1>6. Limits'
  BY <1>1, <1>2, <1>3 DEF Limits
<1>7. Filled'
  BY <1>1, <1>4 DEF Filled
<1>8. Counted'
  <2>1. \A j \in DOMAIN ins : Upto3(ins[j], hist.dels + 1)
    BY <1>2 DEF Counted, Upto3, TypeOK, Links
  <2> QED  BY <1>1, <1>3, <1>4, <1>5, <2>1 DEF Counted, Upto3
<1>9. Writing' /\ Descends'
  BY <1>1 DEF Writing, Descends
<1>10. TypeOK'
  BY <1>1, <1>2 DEF TypeOK
<1> QED  BY <1>3, <1>6, <1>7, <1>8, <1>9, <1>10

\* The nodes OD_tree holds are as a deletion that reads them needs them.
LEMMA TreeIs ==
  ASSUME DInv PROVE TreeOf(Done)
BY DEF DInv, TypeOK, Descends, Counted, TreeOf, Down

\* A deletion works out the nodes it will write, and counts itself in ST.
LEMMA DelReadDInv == ASSUME DInv, DelRead PROVE DInv'
<1> USE DEF DInv
<1> DEFINE leaf == OD_del[id]
           anc == Ancestors(leaf)
           k == Len(anc)
<1>1. /\ UNCHANGED <<id, db, sent, OD_del, OD_tree, EDB, hist>> /\ pc = "delRead" /\ pc' = "del"
      /\ ins' = Written(anc, leaf) /\ anc # <<>>
      /\ ST' = IF k < 2 THEN STw
               ELSE [STw EXCEPT !.cnt_d = @ + 1,
                                !.sn = IF anc[k - 1].Node > @ THEN anc[k - 1].Node ELSE @]
  BY DEF DelRead, server
<1>2. PICK n \in 0..MaxIds : /\ DOMAIN OD_del = 1..n /\ STw.cnt_i <= n /\ Saved.cnt_i <= n
                             /\ id \in 1..n
  BY <1>1 DEF Filled
<1>3. MaxIds \in 1..N /\ N \in Nat /\ MaxDeletes \in Nat /\ leaf \in 1..N
  <2>1. MaxIds \in 1..N /\ N \in Nat /\ MaxDeletes \in Nat
    BY BoundsAssumption, Size
  <2>2. leaf \in 1..MaxIds
    BY <1>2 DEF TypeOK
  <2> QED  BY <2>1, <2>2
<1>4. Done = hist.dels - 1 /\ Done \in Nat /\ Done + 1 <= MaxDeletes /\ Done' = hist.dels /\ hist.dels \in Nat
  BY <1>1, <1>3 DEF Done, Counted, Limits
<1>5. Descent(anc, Done)
  <2> HIDE DEF leaf, DInv
  <2> QED  BY <1>3, <1>4, TreeIs, AncestorsDescend
<1>6. /\ ins' \in Seq(Links) /\ Len(ins') = k
      /\ \A j \in 1..k : Good(ins'[j], hist.dels) /\ (j < k => ins'[j].Num >= 1)
  <2>1. Done + 1 = hist.dels
    BY <1>4
  <2> HIDE DEF leaf, anc, DInv
  <2> QED  BY <1>1, <1>4, <1>5, <2>1, WrittenIs DEF k
<1>7. /\ ST' \in STs /\ ST'.cnt_i = STw.cnt_i /\ ST'.cnt_d <= hist.dels
  <2>1. STw \in STs /\ STw.cnt_d <= Done
    BY Entries DEF Counted
  <2>2. CASE k < 2
    <3>1. STw.cnt_d <= hist.dels
      BY <1>4, <2>1 DEF STs
    <3> QED  BY <1>1, <2>1, <2>2, <3>1
  <2>3. CASE ~(k < 2)
    <3>1. anc[k - 1].Node \in 0..(2 * N)
      <4>1. k - 1 \in 1..k /\ anc \in Seq(Links)
        BY <1>5, <2>3 DEF Descent
      <4>2. anc[k - 1] \in Links
        BY <4>1
      <4> QED  BY <1>3, <4>2 DEF Links
    <3>2. PICK x \in 0..(2 * N) : ST' = [STw EXCEPT !.cnt_d = STw.cnt_d + 1, !.sn = x]
      <4>1. STw.sn \in 0..(2 * N)
        BY <2>1 DEF STs
      <4> QED  BY <1>1, <2>3, <3>1, <4>1
    <3>3. STw.cnt_d + 1 \in 0..MaxDeletes /\ STw.cnt_d + 1 <= hist.dels
      BY <1>3, <1>4, <2>1 DEF STs
    <3> QED  BY <2>1, <3>2, <3>3 DEF STs
  <2> QED  BY <2>2, <2>3
<1> HIDE DEF leaf, anc, k
<1>8. Known' /\ STw' = ST' /\ Saved' = Saved
  BY Zenon, <1>1, <1>7, EntryIs DEF Known, STw, Saved
<1>9. Fields' /\ Limits'
  BY <1>1 DEF Fields, Limits
<1>10. Filled'
  BY <1>1, <1>2, <1>7, <1>8 DEF Filled
<1>11. Counted'
  <2>1. Saved.cnt_d <= hist.dels
    <3>1. Saved \in STs /\ Saved.cnt_d <= Done
      BY Entries DEF Counted
    <3> QED  BY <1>4, <3>1 DEF STs
  <2>2. \A node \in DOMAIN OD_tree : Upto3(OD_tree[node], hist.dels)
    BY <1>4 DEF Counted, Upto3, TypeOK, Links
  <2>3. \A j \in DOMAIN ins' : Upto3(ins'[j], hist.dels)
    BY <1>6 DEF Good
  <2> QED  BY <1>1, <1>4, <1>7, <1>8, <2>1, <2>2, <2>3 DEF Counted, Upto3
<1>12. Writing'
  BY <1>1, <1>6, <1>8 DEF Writing, Good, Down
<1>13. TypeOK'
  <2>1. \A j \in DOMAIN ins' : ins'[j] \in Links
    BY <1>6
  <2> QED  BY Zenon, <1>1, <1>7, <2>1 DEF TypeOK
<1>14. Descends'
  BY <1>1 DEF Descends
<1> QED  BY <1>9, <1>10, <1>11, <1>12, <1>13, <1>14

\* The entry stream stores a node that stays, under a label of it.
LEMMA DelEntryDInv == ASSUME DInv, DelEntry PROVE DInv'
<1> USE DEF DInv
<1> DEFINE j == sent.entry + 1
           x == ins[j]
           l0 == Node(x.Node, x.Num, ST.K)
           e == [c |-> x, d |-> [h |-> 0, to |-> NoLabel]]
<1>1. /\ UNCHANGED <<pc, id, ST, db, ins, OD_del, OD_tree, srv, hist>> /\ pc = "del"
      /\ sent' = [sent EXCEPT !.entry = @ + 1] /\ sent.entry < Len(ins) - 1
      /\ EDB' = Put(EDB, l0, e)
  BY DEF DelEntry
<1>2. UNCHANGED <<STw, Saved, Known, Done>>
  BY <1>1 DEF STw, Saved, Known, Done
<1>3. Fields' /\ Limits' /\ Filled' /\ Counted' /\ Writing'
  BY <1>1, <1>2 DEF Fields, Limits, Filled, Counted, Writing
<1>4. j \in 1..Len(ins) /\ j < Len(ins)
  <2>1. sent.entry \in Nat /\ Len(ins) \in Nat
    BY DEF Fields, Writing
  <2> QED  BY <1>1, <2>1
<1>5. x \in Links /\ Down(x) /\ x.Num >= 1
  BY <1>4 DEF Writing
<1>6. ST.K \in 0..MaxKeys /\ NoLabel \in Labels /\ N \in Nat /\ MaxDeletes \in Nat
  BY <1>1, Entries, NewEntry, Size, BoundsAssumption DEF Writing, STs
<1> HIDE DEF x
<1>7. l0 \in Labels /\ l0[1] = x.Node
  <2>1. x.Node \in 0..(2 * N) /\ x.Num \in 0..(MaxDeletes + 1)
    BY <1>5, <1>6 DEF Links
  <2> QED  BY <1>6, <2>1 DEF Node, Labels
<1>8. e.c = x /\ e.c \in Cells /\ e.d.to \in Labels
  BY <1>5, <1>6 DEF Cells
<1> HIDE DEF e, l0
<1>9. TypeOK'
  <2>1. \A l \in DOMAIN EDB' : l \in Labels /\ EDB'[l].c \in Cells /\ EDB'[l].d.to \in Labels
    <3> TAKE l \in DOMAIN EDB'
    <3>1. CASE l = l0
      BY <1>1, <1>7, <1>8, <3>1 DEF Put
    <3>2. CASE l # l0
      <4>1. l \in DOMAIN EDB /\ EDB'[l] = EDB[l]
        BY <1>1, <3>2 DEF Put
      <4> QED  BY <4>1 DEF TypeOK
    <3> QED  BY <3>1, <3>2
  <2> QED  BY <1>1, <2>1 DEF TypeOK
<1>10. Descends'
  <2>1. \A l \in DOMAIN EDB' : l[1] > N => EDB'[l].c.l < l[1] /\ EDB'[l].c.r < l[1]
    <3> TAKE l \in DOMAIN EDB'
    <3>1. CASE l = l0
      <4>1. EDB'[l].c = x
        BY <1>1, <1>8, <3>1 DEF Put
      <4> QED  BY <1>5, <1>7, <3>1, <4>1 DEF Down
    <3>2. CASE l # l0
      <4>1. l \in DOMAIN EDB /\ EDB'[l] = EDB[l]
        BY <1>1, <3>2 DEF Put
      <4> QED  BY <4>1 DEF Descends
    <3> QED  BY <3>1, <3>2
  <2> QED  BY <1>1, <2>1 DEF Descends
<1> QED  BY <1>3, <1>9, <1>10

\* The tree stream stores a node under its number.
LEMMA DelTreeDInv == ASSUME DInv, DelTree PROVE DInv'
<1> USE DEF DInv
<1> DEFINE j == sent.tree + 1
           x == ins[j]
<1>1. /\ UNCHANGED <<pc, id, ST, db, ins, OD_del, EDB, srv, hist>> /\ pc = "del"
      /\ sent' = [sent EXCEPT !.tree = @ + 1] /\ sent.tree < Len(ins)
      /\ OD_tree' = Put(OD_tree, x.Node, x)
  BY DEF DelTree
<1>2. UNCHANGED <<STw, Saved, Known, Done>> /\ Done = hist.dels
  BY <1>1 DEF STw, Saved, Known, Done
<1>3. Fields' /\ Limits' /\ Filled' /\ Writing'
  BY <1>1, <1>2 DEF Fields, Limits, Filled, Writing
<1>4. j \in 1..Len(ins)
  <2>1. sent.tree \in Nat /\ Len(ins) \in Nat
    BY DEF Fields, Writing
  <2> QED  BY <1>1, <2>1
<1>5. x \in Links /\ Down(x) /\ Upto3(x, Done)
  <2>1. j \in DOMAIN ins
    BY <1>4 DEF Writing
  <2> QED  BY <1>2, <1>4, <2>1 DEF Writing, Counted
<1> HIDE DEF x
<1>6. \A n \in DOMAIN OD_tree' : \/ n = x.Node /\ OD_tree'[n] = x
                                 \/ n \in DOMAIN OD_tree /\ OD_tree'[n] = OD_tree[n]
  BY <1>1 DEF Put
<1>7. Counted'
  <2>1. \A n \in DOMAIN OD_tree' : Upto3(OD_tree'[n], Done)
    BY <1>5, <1>6 DEF Counted
  <2> QED  BY <1>1, <1>2, <2>1 DEF Counted, Upto3
<1>8. TypeOK'
  <2>1. \A n \in DOMAIN OD_tree' : OD_tree'[n] \in Links /\ OD_tree'[n].Node = n
    BY <1>5, <1>6 DEF TypeOK
  <2> QED  BY <1>1, <2>1 DEF TypeOK
<1>9. Descends'
  <2>1. \A n \in DOMAIN OD_tree' : OD_tree'[n].l < n /\ OD_tree'[n].r < n
    BY <1>5, <1>6 DEF Descends, Down
  <2> QED  BY <1>1, <2>1 DEF Descends
<1> QED  BY <1>3, <1>7, <1>8, <1>9

LEMMA NextDInv == DInv /\ [Next]_vars => DInv'
<1> SUFFICES ASSUME DInv, [Next]_vars PROVE DInv'
  OBVIOUS
<1>1. CASE Start \/ Exit \/ Kill \/ SearchEnd \/ Expand \/ TakeLeaf \/ WalkNode \/ WalkLeaf
  BY <1>1, QuietSteps
<1>2. CASE Add
  BY <1>2, AddFindDInv, AddInsertDInv, AddSendDInv DEF Add
<1>3. CASE Del
  BY <1>3, QuietSteps, DelFindDInv, DelReadDInv, DelEntryDInv, DelTreeDInv DEF Del
<1>4. CASE StartSearch
  BY <1>4, StartSearchDInv
<1>5. CASE UNCHANGED vars
  <2>1. UNCHANGED <<pc, id, ST, db, ins, sent, OD_del, OD_tree, EDB, hist>>
    BY <1>5 DEF vars
  <2>2. Fields' /\ Limits' /\ Filled' /\ Counted'
    BY <2>1 DEF DInv, Fields, Limits, Filled, Counted, Known, STw, Saved, Done
  <2>3. Writing' /\ TypeOK' /\ Descends'
    BY <2>1 DEF DInv, Writing, TypeOK, Descends, Known
  <2> QED  BY <2>2, <2>3 DEF DInv
<1> QED  BY <1>1, <1>2, <1>3, <1>4, <1>5 DEF Next, Search

\* For a tree of any depth, every piece of state keeps its shape: in particular
\* the counters of nodes and the numbers of their children stay in the ranges
\* the code computes labels from, however deletions relink the nodes.
THEOREM TypeCorrect == Spec => []TypeOK
<1>1. DInv => TypeOK
  BY DEF DInv
<1> QED  BY <1>1, InitDInv, NextDInv, PTL DEF Spec

\* For a tree of any depth, the children of a node lie below it, in OD_tree and
\* in every entry, whatever deletions, killed processes and sessions came
\* before: the server's search, which follows them, cannot run in circles.
THEOREM LinksDescend == Spec => []Descends
<1>1. DInv => Descends
  BY DEF DInv
<1> QED  BY <1>1, InitDInv, NextDInv, PTL DEF Spec

-----------------------------------------------------------------------------
\* The fields of the record srv.
Locals == srv \in [q : {srv.q}, K : {srv.K}, cnt_i : {srv.cnt_i}, cnt_d : {srv.cnt_d}, k : {srv.k},
                   lln : {srv.lln}, L : {srv.L}, C : {srv.C}, D : {srv.D}, R : {srv.R}]

\* The counter of the database is not ahead, and every update has a document.
Behind == /\ hist.docs \in Seq(0..MaxIds)
          /\ Saved.cnt_i <= STw.cnt_i /\ STw.cnt_i <= Len(hist.docs)

\* Labels are under keys there are; those of nodes have a counter above 0.
Labelled == \A l \in DOMAIN EDB : l[3] <= hist.keys /\ (l[1] > N => l[2] >= 1)

\* What index E has for leaf i under key ks[i]: the document of the update and
\* the link to the leaf before.
LeafIs(i, ks, E, docs) ==
  /\ Leaf(i, ks[i]) \in DOMAIN E
  /\ E[Leaf(i, ks[i])] =
       [c |-> Doc(docs[i]),
        d |-> [h |-> i, to |-> IF i = 1 THEN NoLabel ELSE Leaf(i - 1, ks[i - 1])]]

\* From an entry s of ST the links lead through all its updates.  A leaf that is
\* under the entry's key is one of them.
Chain(s, ks, E, docs) ==
  /\ s.lastL = IF s.cnt_i = 0 THEN NoLabel ELSE Leaf(s.cnt_i, ks[s.cnt_i])
  /\ \A i \in 1..s.cnt_i : LeafIs(i, ks, E, docs) /\ (Leaf(i, s.K) \in DOMAIN E => ks[i] = s.K)
  /\ s.cnt_d = 0 /\ s.cnt_i > 0 => s.sn = getSn(s.cnt_i)

\* The search that counts no deletion and whose newest update is under its key.
Plain == srv.cnt_d = 0 /\ srv.cnt_i > 0 /\ Leaf(srv.cnt_i, srv.K) \in DOMAIN EDB

\* It is about to walk down from the last leaf, or has come to leaf k.
Ahead == srv.q = <<<<getSn(srv.cnt_i), 0>>>> /\ srv.k = 0 /\ srv.R = <<>>
Below(ks) ==
  /\ srv.q = <<>> /\ srv.k \in 0..srv.cnt_i
  /\ srv.k > 0 => srv.L = Leaf(srv.k, ks[srv.k])
  /\ srv.R = [j \in 1..(srv.cnt_i - srv.k) |-> Doc(hist.docs[srv.cnt_i + 1 - j])]
Following(ks) ==
  /\ srv.cnt_i = STw.cnt_i
  /\ Plain => ks[srv.cnt_i] = srv.K /\ srv.lln = 1 /\ (Ahead \/ Below(ks))

Linked == \E ks \in [1..MaxIds -> 0..MaxKeys] :
            /\ Chain(STw, ks, EDB, hist.docs) /\ Chain(Saved, ks, EDB, hist.docs)
            /\ pc = "search" => Following(ks)

\* No entry is under a key still to come.
Keyed == STw.K <= hist.keys /\ Saved.K <= hist.keys

EInv == DInv /\ Locals /\ Behind /\ Labelled /\ Keyed /\ Linked

\* A chain is kept by what leaves its leaves and documents alone.
LEMMA ChainKept ==
  ASSUME NEW s, NEW ks, NEW E, NEW d, Chain(s, ks, E, d), NEW E2, NEW d2,
         \A i \in 1..s.cnt_i : d2[i] = d[i],
         \A i, K : i \in 1..s.cnt_i => /\ Leaf(i, K) \in DOMAIN E2 <=> Leaf(i, K) \in DOMAIN E
                                       /\ Leaf(i, K) \in DOMAIN E => E2[Leaf(i, K)] = E[Leaf(i, K)]
  PROVE  Chain(s, ks, E2, d2)
<1>1. \A i \in 1..s.cnt_i : LeafIs(i, ks, E, d) => LeafIs(i, ks, E2, d2)
  BY DEF LeafIs
<1> QED  BY <1>1 DEF Chain

LEMMA InitEInv == Init => EInv
<1> SUFFICES ASSUME Init PROVE EInv
  OBVIOUS
<1>1. DInv
  BY InitDInv
<1> USE DEF Init
<1>2. Locals
  BY DEF Locals, NoSearch
<1>3. STw = NewST /\ Saved = NewST /\ DOMAIN EDB = {}
  BY DEF STw, Known, Saved
<1>4. Behind /\ Labelled /\ Keyed
  BY <1>3 DEF Behind, Labelled, Keyed, NewST
<1>5. Linked
  <2> DEFINE ks == [i \in 1..MaxIds |-> 0]
  <2>1. ks \in [1..MaxIds -> 0..MaxKeys]
    BY BoundsAssumption
  <2> HIDE DEF ks
  <2>2. Chain(NewST, ks, EDB, hist.docs)
    BY DEF Chain, NewST
  <2> QED  BY <1>3, <2>1, <2>2 DEF Linked
<1> QED  BY <1>1, <1>2, <1>4, <1>5 DEF EInv

\* A step that stores no entry and is not in a search.
LEMMA Unstored ==
  ASSUME EInv, DInv', Locals', EDB' = EDB, hist'.docs = hist.docs, hist'.keys = hist.keys,
         pc' # "search", ST' \in {ST, db}, db' \in {ST, db},
         (ST' = ST /\ db' = db) \/ ST' = db'
  PROVE  EInv'
<1> USE DEF EInv
<1>1. STw \in STs /\ Saved \in STs
  BY Entries DEF DInv
<1>2. /\ STw' \in {STw, Saved} /\ Saved' \in {STw, Saved}
      /\ (STw' = STw /\ Saved' = Saved) \/ STw' = Saved'
  BY DEF STw, Saved, Known
<1>3. Behind'
  <2>1. STw.cnt_i \in Nat /\ Saved.cnt_i \in Nat /\ Len(hist.docs) \in Nat
    BY <1>1 DEF STs, Behind
  <2> QED  BY <1>2, <2>1 DEF Behind
<1>4. Labelled' /\ Keyed'
  BY <1>2 DEF Labelled, Keyed
<1>5. Linked'
  BY <1>2 DEF Linked
<1> QED  BY <1>3, <1>4, <1>5

LEMMA UnstoredSteps ==
  ASSUME EInv, DInv',
         \/ Start \/ Exit \/ Kill \/ DelCrash \/ DelEnd \/ SearchEnd
         \/ AddFind \/ AddInsert \/ DelTree \/ \E i \in 1..MaxIds : DelFind(i)
  PROVE  EInv'
<1>0. Locals /\ Fields
  BY DEF EInv, DInv
<1>1. CASE Start \/ Exit
  BY <1>0, <1>1, Unstored DEF Start, Exit, server, Locals
<1>2. CASE Kill \/ DelCrash
  <2>1. /\ pc' = "off" /\ ST' = db /\ db' = db /\ EDB' = EDB /\ srv' = NoSearch
        /\ hist' = hist \/ hist' = [hist EXCEPT !.kills = @ + 1, !.torn = @ \/ Torn]
    BY <1>2 DEF Kill, DelCrash, Lose, server
  <2>2. Locals' /\ hist'.docs = hist.docs /\ hist'.keys = hist.keys
    BY <1>0, <2>1 DEF Locals, Fields, NoSearch
  <2> QED  BY <2>1, <2>2, Unstored
<1>3. CASE DelEnd
  BY <1>0, <1>3, Unstored DEF DelEnd, server, Locals
<1>4. CASE SearchEnd
  BY <1>0, <1>4, Unstored DEF SearchEnd, server, Locals, NoSearch
<1>5. CASE AddFind \/ AddInsert \/ DelTree
  <2>1. UNCHANGED <<ST, db, EDB, srv, hist>> /\ pc' # "search"
    BY <1>5 DEF AddFind, AddInsert, DelTree, server
  <2> QED  BY <1>0, <2>1, Unstored DEF Locals
<1>6. CASE \E i \in 1..MaxIds : DelFind(i)
  <2>1. PICK i \in 1..MaxIds : DelFind(i)
    BY <1>6
  <2>2. /\ UNCHANGED <<ST, db, EDB, srv>> /\ pc' = "delRead"
        /\ hist' = [hist EXCEPT !.deleted = @ \cup {i}, !.dels = @ + 1,
                                !.again = @ \/ i \notin Live(STw.cnt_i)]
    BY <2>1 DEF DelFind, server
  <2>3. Locals' /\ hist'.docs = hist.docs /\ hist'.keys = hist.keys
    BY <1>0, <2>2 DEF Locals, Fields
  <2> QED  BY <2>2, <2>3, Unstored
<1> QED  BY <1>1, <1>2, <1>3, <1>4, <1>5, <1>6

LEMMA Prefix ==
  ASSUME NEW S, NEW t \in Seq(S), NEW m \in 0..Len(t)
  PROVE  /\ SubSeq(t, 1, m) \in Seq(S) /\ Len(SubSeq(t, 1, m)) = m
         /\ \A i \in 1..m : SubSeq(t, 1, m)[i] = t[i]
<1>1. m \in Int /\ 1 \in Int /\ \A i \in 1..m : t[i] \in S
  OBVIOUS
<1>2. /\ SubSeq(t, 1, m) \in Seq(S)
      /\ Len(SubSeq(t, 1, m)) = IF 1 <= m THEN m - 1 + 1 ELSE 0
      /\ \A i \in 1..(m - 1 + 1) : SubSeq(t, 1, m)[i] = t[1 + i - 1]
  BY <1>1, SubSeqProperties
<1>3. m \in Nat /\ m - 1 + 1 = m /\ \A i \in 1..m : 1 + i - 1 = i
  OBVIOUS
<1> QED  BY <1>2, <1>3

\* An addition extends the chain by a leaf under the entry's key.
LEMMA AddSendEInv == ASSUME EInv, DInv', AddSend PROVE EInv'
<1> USE DEF EInv
<1> DEFINE K == IF Known THEN ST.K ELSE hist.keys + 1
           c == STw.cnt_i + 1
           new == [K |-> K, cnt_i |-> c, cnt_d |-> STw.cnt_d, sn |-> getSn(c), lastL |-> Leaf(c, K)]
           e == [c |-> Doc(id), d |-> [h |-> c, to |-> STw.lastL]]
           docs == Append(SubSeq(hist.docs, 1, c - 1), id)
<1>1. /\ UNCHANGED <<id, db, srv>> /\ pc' = "ready"
      /\ ST' = new /\ EDB' = Put(EDB, Leaf(c, K), e)
      /\ hist' = [hist EXCEPT !.keys = IF Known THEN @ ELSE K,
                              !.docs = Append(SubSeq(@, 1, c - 1), id),
                              !.mixed = @ \/ hist.deleted # {},
                              !.reused = @ \/ \E i \in hist.deleted : OD_del[i] = c]
  BY DEF AddSend
<1>2. hist'.docs = docs /\ hist'.keys = IF Known THEN hist.keys ELSE K
  <2> DEFINE mixed == hist.mixed \/ hist.deleted # {}
             reused == hist.reused \/ \E i \in hist.deleted : OD_del[i] = c
             keys == IF Known THEN hist.keys ELSE K
  <2>1. hist' = [hist EXCEPT !.keys = keys, !.docs = docs, !.mixed = mixed, !.reused = reused]
    BY <1>1
  <2>2. hist \in [docs : {hist.docs}, deleted : {hist.deleted}, dels : {hist.dels}, mixed : {hist.mixed},
                  again : {hist.again}, torn : {hist.torn}, reused : {hist.reused}, keys : {hist.keys}, kills : {hist.kills}]
    BY DEF DInv, Fields
  <2> HIDE DEF docs, mixed, reused, keys
  <2>3. hist'.docs = docs /\ hist'.keys = keys
    BY <2>1, <2>2
  <2> QED  BY <2>3 DEF keys
<1>3. /\ STw \in STs /\ (Known => STw = ST) /\ (~Known => STw = NewST) /\ Saved \in STs
      /\ hist.keys \in Nat /\ MaxIds \in Nat /\ MaxKeys \in Nat
  BY Entries, BoundsAssumption, Size DEF DInv, Limits, STw
<1>4. STw' = new /\ Saved' = Saved /\ new \in STs
  <2>1. new # <<>> /\ new \in STs
    <3>1. ST' \in STs \cup {<<>>} /\ ST' = new
      BY <1>1 DEF DInv, TypeOK
    <3>2. new # <<>>
      <4>1. DOMAIN new = {"K", "cnt_i", "cnt_d", "sn", "lastL"}
        OBVIOUS
      <4>2. DOMAIN <<>> = {}
        OBVIOUS
      <4> QED  BY <4>1, <4>2
    <3> QED  BY <3>1, <3>2
  <2> QED  BY <1>1, <2>1 DEF STw, Known, Saved
<1>5. c \in 1..MaxIds /\ K \in 0..MaxKeys
  <2>1. c \in 0..MaxIds /\ K \in 0..MaxKeys
    BY <1>4 DEF STs
  <2>2. STw.cnt_i \in Nat
    BY <1>3 DEF STs
  <2> QED  BY <2>1, <2>2
<1>6. /\ docs \in Seq(0..MaxIds) /\ Len(docs) = c /\ docs[c] = id
      /\ \A i \in 1..(c - 1) : docs[i] = hist.docs[i]
  <2> DEFINE s == SubSeq(hist.docs, 1, c - 1)
  <2>1. hist.docs \in Seq(0..MaxIds) /\ c - 1 \in 0..Len(hist.docs) /\ id \in 0..MaxIds
    <3>1. c - 1 = STw.cnt_i /\ STw.cnt_i \in Nat
      BY <1>3 DEF STs
    <3> QED  BY <1>3, <3>1 DEF Behind, DInv, TypeOK
  <2> HIDE DEF c
  <2>2. s \in Seq(0..MaxIds) /\ Len(s) = c - 1 /\ \A i \in 1..(c - 1) : s[i] = hist.docs[i]
    <3> DEFINE m == c - 1
    <3>1. m \in 0..Len(hist.docs)
      BY <2>1
    <3> HIDE DEF m
    <3>2. /\ SubSeq(hist.docs, 1, m) \in Seq(0..MaxIds) /\ Len(SubSeq(hist.docs, 1, m)) = m
          /\ \A i \in 1..m : SubSeq(hist.docs, 1, m)[i] = hist.docs[i]
      BY <2>1, <3>1, Prefix
    <3> QED  BY <3>2 DEF m
  <2> HIDE DEF s
  <2> QED  BY <1>5, <2>1, <2>2 DEF s
<1>7. Saved.cnt_i <= STw.cnt_i /\ Saved.cnt_i \in Nat /\ STw.cnt_i = c - 1
  BY <1>3 DEF Behind, STs
<1> HIDE DEF c, K, docs
<1>8. Locals' /\ Behind'
  <2>1. Saved.cnt_i <= c /\ c <= Len(docs) /\ new.cnt_i = c
    BY <1>5, <1>6, <1>7
  <2> QED  BY <1>1, <1>2, <1>4, <1>6, <2>1 DEF Locals, Behind
<1>9. K <= hist'.keys /\ hist.keys <= hist'.keys
  BY <1>2, <1>3, <1>5 DEF Keyed, K
<1>10. Leaf(c, K)[1] = c /\ Leaf(c, K)[3] = K /\ ~(c > N)
  <2>1. MaxIds \in 1..N /\ N \in Nat
    BY BoundsAssumption, Size
  <2> QED  BY <1>5, <2>1 DEF Leaf
<1>11. Labelled'
  <2> SUFFICES ASSUME NEW l \in DOMAIN EDB'
               PROVE  l[3] <= hist'.keys /\ (l[1] > N => l[2] >= 1)
    BY DEF Labelled
  <2>1. CASE l = Leaf(c, K)
    BY <1>9, <1>10, <2>1
  <2>2. CASE l # Leaf(c, K)
    <3>1. l \in DOMAIN EDB
      BY <1>1, <2>2 DEF Put
    <3>2. l \in Labels /\ l[3] <= hist.keys /\ (l[1] > N => l[2] >= 1)
      BY <3>1 DEF Labelled, DInv, TypeOK
    <3>3. l[3] \in Int /\ hist'.keys \in Int
      BY <1>2, <1>3, <1>5, <3>2 DEF Labels
    <3> QED  BY <1>3, <1>9, <3>2, <3>3
  <2> QED  BY <2>1, <2>2
<1>12. Keyed'
  <2>1. Saved.K <= hist'.keys
    <3>1. Saved.K \in Nat /\ Saved.K <= hist.keys /\ hist'.keys \in Int
      BY <1>2, <1>3, <1>5 DEF Keyed, STs
    <3> QED  BY <1>3, <1>9, <3>1
  <2> QED  BY <1>4, <1>9, <2>1 DEF Keyed
<1>13. Linked'
  <2>1. PICK ks \in [1..MaxIds -> 0..MaxKeys] :
          Chain(STw, ks, EDB, hist.docs) /\ Chain(Saved, ks, EDB, hist.docs)
    BY DEF Linked
  <2> DEFINE kt == [ks EXCEPT ![c] = K]
  <2>2. /\ kt \in [1..MaxIds -> 0..MaxKeys] /\ kt[c] = K
        /\ \A i \in 1..(c - 1) : kt[i] = ks[i]
    BY <1>5
  <2>3. \A l : l # Leaf(c, K) => /\ l \in DOMAIN EDB' <=> l \in DOMAIN EDB
                                 /\ l \in DOMAIN EDB => EDB'[l] = EDB[l]
    BY <1>1 DEF Put
  <2>4. Leaf(c, K) \in DOMAIN EDB' /\ EDB'[Leaf(c, K)] = e
    BY <1>1 DEF Put
  <2> HIDE DEF kt, new
  <2>5. ASSUME NEW s, s.cnt_i \in 0..(c - 1), Chain(s, ks, EDB, hist.docs)
        PROVE  Chain(s, kt, EDB', docs)
    <3>1. \A i \in 1..s.cnt_i : i \in 1..(c - 1) /\ i # c /\ kt[i] = ks[i] /\ docs[i] = hist.docs[i]
      BY <1>5, <1>6, <2>2, <2>5
    <3>2. \A i, k : i \in 1..s.cnt_i => Leaf(i, k) # Leaf(c, K)
      BY <3>1 DEF Leaf
    <3>3. Chain(s, ks, EDB', docs)
      BY <2>3, <2>5, <3>1, <3>2, ChainKept
    <3>4. \A i \in 1..s.cnt_i : LeafIs(i, ks, EDB', docs) => LeafIs(i, kt, EDB', docs)
      <4> TAKE i \in 1..s.cnt_i
      <4>1. i # 1 => i - 1 \in 1..s.cnt_i
        BY <2>5
      <4> QED  BY <3>1, <4>1 DEF LeafIs
    <3>5. s.cnt_i # 0 => s.cnt_i \in 1..s.cnt_i
      BY <2>5
    <3> QED  BY <3>1, <3>3, <3>4, <3>5 DEF Chain
  <2>6. Chain(STw, kt, EDB', docs) /\ Chain(Saved, kt, EDB', docs)
    <3>1. STw.cnt_i \in 0..(c - 1) /\ Saved.cnt_i \in 0..(c - 1)
      BY <1>5, <1>7
    <3> QED  BY <2>1, <2>5, <3>1
  <2>7. new.cnt_i = c /\ new.lastL = Leaf(c, K) /\ new.sn = getSn(c) /\ new.K = K
    BY DEF new
  <2>8. LeafIs(c, kt, EDB', docs)
    <3>1. e.c = Doc(docs[c]) /\ e = [c |-> Doc(docs[c]), d |-> [h |-> c, to |-> STw.lastL]]
      BY <1>6
    <3>2. STw.lastL = IF c = 1 THEN NoLabel ELSE Leaf(c - 1, kt[c - 1])
      <4>1. STw.lastL = IF c - 1 = 0 THEN NoLabel ELSE Leaf(c - 1, kt[c - 1])
        BY <1>7, <2>6 DEF Chain
      <4> QED  BY <1>5, <4>1
    <3> HIDE DEF e
    <3> QED  BY <2>2, <2>4, <3>1, <3>2 DEF LeafIs
  <2>9. \A i \in 1..(c - 1) : LeafIs(i, kt, EDB', docs) /\ (Leaf(i, K) \in DOMAIN EDB' => kt[i] = K)
    <3>1. CASE Known
      <4>1. STw.K = K
        BY <1>3, <3>1 DEF K
      <4> QED  BY <1>7, <2>6, <4>1 DEF Chain
    <3>2. CASE ~Known
      <4>1. c = 1
        BY <1>3, <1>7, <3>2, <1>5 DEF NewST
      <4> QED  BY <4>1
    <3> QED  BY <3>1, <3>2
  <2>10. Chain(new, kt, EDB', docs)
    <3>1. \A i \in 1..c : i = c \/ i \in 1..(c - 1)
      BY <1>5
    <3>2. c # 0
      BY <1>5
    <3> QED  BY <2>2, <2>7, <2>8, <2>9, <3>1, <3>2 DEF Chain
  <2>11. pc' # "search"
    BY <1>1
  <2> QED  BY <1>2, <1>4, <2>2, <2>6, <2>10, <2>11 DEF Linked
<1> QED  BY <1>8, <1>11, <1>12, <1>13

\* A deletion that changes the node a search starts from counts itself.
LEMMA DelReadEInv == ASSUME EInv, DInv', DelRead PROVE EInv'
<1> USE DEF EInv
<1> DEFINE anc == Ancestors(OD_del[id])
           k == Len(anc)
<1>1. /\ UNCHANGED <<db, EDB, srv, hist>> /\ pc' = "del"
      /\ ST' = IF k < 2 THEN STw
               ELSE [STw EXCEPT !.cnt_d = @ + 1,
                                !.sn = IF anc[k - 1].Node > @ THEN anc[k - 1].Node ELSE @]
  BY DEF DelRead, server
<1>2. STw \in STs
  BY Entries DEF DInv
<1>3. /\ ST'.K = STw.K /\ ST'.cnt_i = STw.cnt_i /\ ST'.lastL = STw.lastL
      /\ ST'.cnt_d = 0 => ST'.sn = STw.sn /\ STw.cnt_d = 0
  <2>1. STw.cnt_d + 1 # 0
    BY <1>2 DEF STs
  <2> QED  BY <1>1, <1>2, <2>1 DEF STs
<1>4. STw' = ST' /\ Saved' = Saved
  <2>1. Known'
    BY <1>1 DEF DInv, Writing
  <2> QED  BY <1>1, <2>1 DEF STw, Saved
<1>5. Locals' /\ Behind' /\ Labelled' /\ Keyed'
  BY <1>1, <1>3, <1>4 DEF Locals, Behind, Labelled, Keyed
<1>6. Linked'
  <2>1. \A ks : Chain(STw, ks, EDB, hist.docs) => Chain(ST', ks, EDB, hist.docs)
    BY <1>3 DEF Chain
  <2> QED  BY <1>1, <1>4, <2>1 DEF Linked
<1> QED  BY <1>5, <1>6

\* The entry of a node is not a leaf's, and not one a search without deletions
\* asks for.
LEMMA DelEntryEInv == ASSUME EInv, DInv', DelEntry PROVE EInv'
<1> USE DEF EInv
<1> DEFINE j == sent.entry + 1
           x == ins[j]
           l0 == Node(x.Node, x.Num, ST.K)
           e == [c |-> x, d |-> [h |-> 0, to |-> NoLabel]]
<1>1. /\ UNCHANGED <<pc, ST, db, ins, srv, hist>> /\ pc = "del"
      /\ sent.entry < Len(ins) - 1 /\ EDB' = Put(EDB, l0, e)
  BY DEF DelEntry
<1>2. UNCHANGED <<STw, Saved>>
  BY <1>1 DEF STw, Saved, Known
<1>3. j \in 1..Len(ins) /\ j < Len(ins)
  <2>1. sent.entry \in Nat /\ Len(ins) \in Nat
    BY DEF DInv, Fields, Writing
  <2> QED  BY <1>1, <2>1
<1>4. x \in Links /\ x.Num >= 1
  BY <1>3 DEF DInv, Writing
<1>5. STw = ST /\ ST.K <= hist.keys
  BY <1>1 DEF DInv, Writing, STw, Keyed
<1> HIDE DEF x
<1>6. l0[1] = x.Node /\ l0[2] = x.Num /\ l0[3] = ST.K /\ x.Node > N /\ N \in Nat /\ x.Node \in Int
  BY <1>4, Size DEF Node, Links
<1> HIDE DEF e, l0
<1>7. \A l : l # l0 => /\ l \in DOMAIN EDB' <=> l \in DOMAIN EDB
                       /\ l \in DOMAIN EDB => EDB'[l] = EDB[l]
  BY <1>1 DEF Put
<1>8. Locals' /\ Behind' /\ Keyed'
  BY <1>1, <1>2 DEF Locals, Behind, Keyed
<1>9. Labelled'
  BY <1>1, <1>4, <1>5, <1>6, <1>7 DEF Labelled
<1>10. Linked'
  <2>1. MaxIds \in 1..N
    BY BoundsAssumption
  <2>2. \A i, K : i \in 1..MaxIds => Leaf(i, K) # l0
    <3> SUFFICES ASSUME NEW i \in 1..MaxIds, NEW K, Leaf(i, K) = l0 PROVE FALSE
      OBVIOUS
    <3>1. Leaf(i, K)[1] = i
      BY DEF Leaf
    <3> QED  BY <1>6, <2>1, <3>1
  <2>3. \A s, ks : s \in STs /\ Chain(s, ks, EDB, hist.docs) => Chain(s, ks, EDB', hist.docs)
    <3> TAKE s, ks
    <3> HAVE s \in STs /\ Chain(s, ks, EDB, hist.docs)
    <3>1. s.cnt_i \in 0..MaxIds /\ MaxIds \in Nat
      BY <2>1, Size DEF STs
    <3>2. \A i, k : i \in 1..s.cnt_i => Leaf(i, k) # l0
      BY <2>2, <3>1
    <3> QED  BY <1>7, <3>2, ChainKept
  <2>4. STw \in STs /\ Saved \in STs
    BY Entries DEF DInv
  <2> QED  BY <1>1, <1>2, <2>3, <2>4 DEF Linked
<1> QED  BY <1>8, <1>9, <1>10

\* The node a search of c updates starts from covers the leaves from 1 to c.
LEMMA SnCovers ==
  ASSUME NEW c \in 1..N
  PROVE  /\ c = 1 => getSn(c) = 1
         /\ c > 1 => getSn(c) > N
         /\ lln(getSn(c)) = 1 /\ rln(getSn(c)) \in Nat /\ rln(getSn(c)) >= c
<1> DEFINE J == CeilLog2(c)
<1>1. /\ J \in 0..Depth /\ c <= Pow2[J] /\ (c > 1 => J # 0)
      /\ getSn(c) = 1 + (2 * N - Pow2[Depth + 1 - J])
  BY SnIs
<1> HIDE DEF J
<1>2. N \in Nat /\ 2 * N = Pow2[Depth + 1] /\ Depth \in Nat /\ c \in Nat
  BY Size, DepthAssumption
<1>3. J \in Nat /\ Depth - J \in Nat /\ Pow2[J] \in Nat /\ Pow2[Depth - J] \in Nat /\ Pow2[Depth - J] >= 1
  BY <1>1, <1>2, PowAbove
<1>4. lln(getSn(c)) = (1 - 1) * Pow2[J] + 1 /\ rln(getSn(c)) = 1 * Pow2[J]
  <2>1. 1 \in 1..Pow2[Depth - J]
    BY <1>3
  <2> QED  BY <1>1, <2>1, RangeOf
<1>5. c > 1 => getSn(c) > N
  <2>1. CASE c > 1
    <3>1. Depth + 1 - J \in Nat /\ Depth + 1 - J <= Depth
      BY <1>1, <1>2, <2>1
    <3>2. Pow2[Depth + 1 - J] <= N /\ Pow2[Depth + 1 - J] \in Nat
      BY <1>2, <3>1, PowGrows, PowAbove DEF N
    <3> QED  BY <1>1, <1>2, <3>2
  <2> QED  BY <2>1
<1>6. c = 1 => getSn(c) = 1
  <2> SUFFICES ASSUME c = 1 PROVE getSn(1) = 1
    OBVIOUS
  <2>1. CeilLog2(1) = 0
    <3> DEFINE Is(j) == Pow2[j] >= 1 /\ (j = 0 \/ Pow2[j - 1] < 1)
    <3>1. Is(0) /\ 0 \in 0..1
      BY PowStep
    <3>2. \A j \in 0..1 : Is(j) => j = 0
      BY PowStep
    <3>3. CeilLog2(1) = CHOOSE j \in 0..1 : Is(j)
      BY DEF CeilLog2
    <3> HIDE DEF Is
    <3> QED  BY <3>1, <3>2, <3>3
  <2>2. Depth + 1 - 0 = Depth + 1
    BY <1>2
  <2>3. 1 \in 1..N
    OBVIOUS
  <2>4. getSn(1) = 1 + (2 * N - Pow2[Depth + 1 - CeilLog2(1)])
    BY <2>3, SnIs
  <2> QED  BY <1>2, <2>1, <2>2, <2>4
<1> QED  BY <1>1, <1>3, <1>4, <1>5, <1>6

\* A search starts with the key the newest updates may be under.
LEMMA StartSearchEInv == ASSUME EInv, DInv', StartSearch PROVE EInv'
<1> USE DEF EInv
<1>1. /\ UNCHANGED <<db, EDB>> /\ pc' = "search"
      /\ ST' = [STw EXCEPT !.K = hist.keys + 1] /\ hist' = [hist EXCEPT !.keys = @ + 1]
      /\ srv' = [NoSearch EXCEPT !.q = <<<<STw.sn, STw.cnt_d>>>>, !.K = STw.K,
                                 !.cnt_i = STw.cnt_i, !.cnt_d = STw.cnt_d]
  BY DEF StartSearch, server
<1>2. STw \in STs /\ Saved \in STs /\ hist.keys \in Nat
  BY Entries, BoundsAssumption DEF DInv, Limits
<1>3. /\ ST'.K = hist.keys + 1 /\ ST'.cnt_i = STw.cnt_i /\ ST'.lastL = STw.lastL
      /\ ST'.cnt_d = STw.cnt_d /\ ST'.sn = STw.sn
  BY <1>1, <1>2 DEF STs
<1>4. STw' = ST' /\ Saved' = Saved
  <2>1. ST' # <<>>
    <3>1. DOMAIN ST' = {"K", "cnt_i", "cnt_d", "sn", "lastL"}
      BY <1>1, <1>2 DEF STs
    <3>2. DOMAIN <<>> = {}
      OBVIOUS
    <3> QED  BY <3>1, <3>2
  <2> QED  BY <1>1, <2>1 DEF STw, Saved, Known
<1>5. hist'.docs = hist.docs /\ hist'.keys = hist.keys + 1
  BY <1>1 DEF DInv, Fields
<1>6. /\ srv'.q = <<<<STw.sn, STw.cnt_d>>>> /\ srv'.K = STw.K /\ srv'.cnt_i = STw.cnt_i
      /\ srv'.cnt_d = STw.cnt_d /\ srv'.k = 0 /\ srv'.lln = 1 /\ srv'.R = <<>>
      /\ Locals'
  BY <1>1 DEF NoSearch, Locals
<1>7. Behind'
  BY <1>3, <1>4, <1>5 DEF Behind
<1>8. Labelled'
  <2>1. \A l \in DOMAIN EDB : l[3] <= hist.keys + 1
    BY <1>2 DEF Labelled, DInv, TypeOK, Labels
  <2> QED  BY <1>1, <1>5, <2>1 DEF Labelled
<1>9. Keyed'
  BY <1>2, <1>3, <1>4, <1>5 DEF Keyed, STs
<1>10. Linked'
  <2>1. PICK ks \in [1..MaxIds -> 0..MaxKeys] :
          Chain(STw, ks, EDB, hist.docs) /\ Chain(Saved, ks, EDB, hist.docs)
    BY DEF Linked
  <2>2. \A i : Leaf(i, hist.keys + 1) \notin DOMAIN EDB
    <3> SUFFICES ASSUME NEW i, Leaf(i, hist.keys + 1) \in DOMAIN EDB PROVE FALSE
      OBVIOUS
    <3>1. Leaf(i, hist.keys + 1)[3] <= hist.keys /\ Leaf(i, hist.keys + 1)[3] = hist.keys + 1
      BY DEF Labelled, Leaf
    <3> QED  BY <1>2, <3>1
  <2>3. Chain(ST', ks, EDB, hist.docs)
    BY <1>3, <2>1, <2>2 DEF Chain
  <2>4. Following(ks)'
    <3> SUFFICES ASSUME Plain' PROVE ks[srv'.cnt_i] = srv'.K /\ Ahead'
      BY <1>3, <1>4, <1>6 DEF Following
    <3>1. STw.cnt_d = 0 /\ STw.cnt_i > 0 /\ Leaf(STw.cnt_i, STw.K) \in DOMAIN EDB
      BY <1>1, <1>6 DEF Plain
    <3>2. STw.cnt_i \in 1..STw.cnt_i
      BY <1>2, <3>1 DEF STs
    <3>3. STw.sn = getSn(STw.cnt_i) /\ ks[STw.cnt_i] = STw.K
      BY <2>1, <3>1, <3>2 DEF Chain
    <3> QED  BY <1>6, <3>1, <3>3 DEF Ahead
  <2> QED  BY <1>1, <1>4, <1>5, <2>1, <2>3, <2>4 DEF Linked
<1> QED  BY <1>6, <1>7, <1>8, <1>9, <1>10

\* A step of the search keeps what it says of the chain.
LEMMA SearchStep ==
  ASSUME EInv, DInv', Locals', UNCHANGED <<ST, db, EDB, hist>>, pc' = "search",
         srv'.K = srv.K, srv'.cnt_i = srv.cnt_i, srv'.cnt_d = srv.cnt_d,
         \A ks : /\ Chain(STw, ks, EDB, hist.docs) /\ STw.cnt_i = srv.cnt_i /\ Plain
                 /\ ks[srv.cnt_i] = srv.K /\ srv.lln = 1 /\ (Ahead \/ Below(ks))
                 => srv'.lln = 1 /\ Below(ks)',
         pc = "search"
  PROVE  EInv'
<1> USE DEF EInv
<1>1. UNCHANGED <<STw, Saved>>
  BY DEF STw, Saved, Known
<1>2. Behind' /\ Labelled' /\ Keyed'
  BY <1>1 DEF Behind, Labelled, Keyed
<1>3. PICK ks \in [1..MaxIds -> 0..MaxKeys] :
        /\ Chain(STw, ks, EDB, hist.docs) /\ Chain(Saved, ks, EDB, hist.docs)
        /\ Following(ks)
  BY DEF Linked
<1>4. Following(ks)'
  <2>1. Plain' <=> Plain
    BY DEF Plain
  <2>2. Plain => srv'.lln = 1 /\ Below(ks)'
    BY <1>3 DEF Following
  <2> QED  BY <1>1, <1>3, <2>1, <2>2 DEF Following
<1>5. Linked'
  BY <1>1, <1>3, <1>4 DEF Linked
<1> QED  BY <1>2, <1>5

\* Without deletions the loop takes the one leaf, or walks the chain of them.
LEMMA ExpandEInv == ASSUME EInv, DInv', Expand PROVE EInv'
<1> USE DEF EInv
<1> DEFINE C == EDB[HeadLabel].c
           right == IF lln(C.r) <= srv.cnt_i THEN <<<<C.r, C.rNum>>>> ELSE <<>>
<1>1. /\ UNCHANGED <<ST, db, EDB, hist, pc>> /\ pc = "search" /\ srv.q # <<>>
      /\ srv.q[1][1] > N /\ HeadLabel \in DOMAIN EDB
      /\ srv' = [srv EXCEPT !.q = Tail(srv.q) \o <<<<C.l, C.lNum>>>> \o right, !.C = C]
  BY DEF Expand, server, Turn
<1>2. Locals' /\ srv'.K = srv.K /\ srv'.cnt_i = srv.cnt_i /\ srv'.cnt_d = srv.cnt_d
  <2> HIDE DEF C, right
  <2> QED  BY <1>1 DEF Locals
<1>3. ~Ahead
  <2> SUFFICES ASSUME Ahead PROVE FALSE
    OBVIOUS
  <2>1. srv.q[1][2] = 0
    BY DEF Ahead
  <2>2. HeadLabel[1] = srv.q[1][1] /\ HeadLabel[2] = 0
    BY <2>1 DEF HeadLabel, Node
  <2>3. HeadLabel[2] >= 1
    BY <1>1, <2>2 DEF Labelled
  <2> QED  BY <2>2, <2>3
<1>4. \A ks : ~Below(ks)
  BY <1>1 DEF Below
<1> QED  BY <1>1, <1>2, <1>3, <1>4, SearchStep

LEMMA TakeLeafEInv == ASSUME EInv, DInv', TakeLeaf PROVE EInv'
<1> USE DEF EInv
<1> DEFINE C == Read(Leaf(srv.q[1][1], srv.K), [c |-> srv.C]).c
<1>1. /\ UNCHANGED <<ST, db, EDB, hist, pc>> /\ pc = "search" /\ srv.q # <<>>
      /\ srv.q[1][1] <= N
      /\ srv' = [srv EXCEPT !.q = Tail(srv.q), !.C = C, !.R = Append(srv.R, C)]
  BY DEF TakeLeaf, server, Turn
<1>2. /\ Locals' /\ srv'.K = srv.K /\ srv'.cnt_i = srv.cnt_i /\ srv'.cnt_d = srv.cnt_d
      /\ srv'.k = srv.k /\ srv'.lln = srv.lln /\ srv'.q = Tail(srv.q) /\ srv'.R = Append(srv.R, C)
  <2> HIDE DEF C
  <2> QED  BY <1>1 DEF Locals
<1>3. ASSUME NEW ks, Chain(STw, ks, EDB, hist.docs), STw.cnt_i = srv.cnt_i, Plain,
             ks[srv.cnt_i] = srv.K, srv.lln = 1, Ahead \/ Below(ks)
      PROVE  srv'.lln = 1 /\ Below(ks)'
  <2>1. Ahead
    BY <1>1, <1>3 DEF Below
  <2>2. srv.cnt_i \in 1..N
    <3>1. STw \in STs /\ MaxIds \in 1..N
      BY Entries, BoundsAssumption DEF DInv
    <3> QED  BY <1>3, <3>1, Size DEF STs, Plain
  <2>3. srv.q[1][1] = getSn(srv.cnt_i)
    BY <2>1 DEF Ahead
  <2>4. srv.cnt_i = 1 /\ srv.q[1][1] = 1
    <3>1. getSn(srv.cnt_i) \in Int /\ N \in Nat
      BY <2>2, SnIs, Size
    <3>2. ~(srv.cnt_i > 1)
      BY <1>1, <2>2, <2>3, <3>1, SnCovers
    <3>3. srv.cnt_i = 1
      BY <2>2, <3>2
    <3> QED  BY <2>2, <2>3, <3>3, SnCovers
  <2>5. C = Doc(hist.docs[1])
    <3>1. LeafIs(1, ks, EDB, hist.docs)
      BY <1>3, <2>4 DEF Chain
    <3> QED  BY <1>3, <2>4, <3>1 DEF LeafIs, Read
  <2>6. srv'.q = <<>> /\ srv'.R = <<Doc(hist.docs[1])>>
    BY <1>2, <2>1, <2>5 DEF Ahead
  <2>7. srv'.R = [j \in 1..(1 - 0) |-> Doc(hist.docs[1 + 1 - j])]
    <3>1. \A j \in 1..(1 - 0) : j = 1 /\ 1 + 1 - j = 1
      OBVIOUS
    <3> QED  BY <2>6, <3>1
  <2>8. srv'.k = 0 /\ hist' = hist /\ srv'.cnt_i = 1
    BY <1>1, <1>2, <2>1, <2>4 DEF Ahead
  <2> HIDE DEF C
  <2>9. srv'.R = [j \in 1..(srv'.cnt_i - srv'.k) |-> Doc(hist'.docs[srv'.cnt_i + 1 - j])]
    BY <2>7, <2>8
  <2>10. srv'.k \in 0..srv'.cnt_i /\ ~(srv'.k > 0)
    BY <2>8
  <2>11. srv'.lln = 1
    BY <1>2, <1>3
  <2> QED  BY <2>6, <2>9, <2>10, <2>11 DEF Below
<1> QED  BY <1>1, <1>2, <1>3, SearchStep

LEMMA WalkNodeEInv == ASSUME EInv, DInv', WalkNode PROVE EInv'
<1> USE DEF EInv
<1> DEFINE n == srv.q[1][1]
           k == IF srv.cnt_i < rln(n) THEN srv.cnt_i ELSE rln(n)
<1>1. /\ UNCHANGED <<ST, db, EDB, hist, pc>> /\ pc = "search" /\ srv.q # <<>>
      /\ n > N
      /\ srv' = [srv EXCEPT !.q = Tail(srv.q), !.k = k, !.lln = lln(n), !.L = Leaf(k, srv.K)]
  BY DEF WalkNode, server, Turn
<1>2. /\ Locals' /\ srv'.K = srv.K /\ srv'.cnt_i = srv.cnt_i /\ srv'.cnt_d = srv.cnt_d
      /\ srv'.k = k /\ srv'.lln = lln(n) /\ srv'.q = Tail(srv.q) /\ srv'.L = Leaf(k, srv.K)
      /\ srv'.R = srv.R
  <2> HIDE DEF k, n
  <2> QED  BY <1>1 DEF Locals
<1>3. ASSUME NEW ks, Chain(STw, ks, EDB, hist.docs), STw.cnt_i = srv.cnt_i, Plain,
             ks[srv.cnt_i] = srv.K, srv.lln = 1, Ahead \/ Below(ks)
      PROVE  srv'.lln = 1 /\ Below(ks)'
  <2>1. Ahead
    BY <1>1, <1>3 DEF Below
  <2>2. srv.cnt_i \in 1..N
    <3>1. STw \in STs /\ MaxIds \in 1..N
      BY Entries, BoundsAssumption DEF DInv
    <3> QED  BY <1>3, <3>1, Size DEF STs, Plain
  <2>3. n = getSn(srv.cnt_i)
    BY <2>1 DEF Ahead
  <2> HIDE DEF n
  <2>4. lln(n) = 1 /\ rln(n) \in Nat /\ rln(n) >= srv.cnt_i
    BY <2>2, <2>3, SnCovers
  <2>5. k = srv.cnt_i
    BY <2>2, <2>4
  <2>6. srv'.q = <<>> /\ srv'.R = <<>>
    BY <1>2, <2>1 DEF Ahead
  <2> DEFINE c == srv.cnt_i
  <2>7. c - c = 0 /\ 1..0 = {} /\ c \in 0..c
    BY <2>2, Size
  <2>8. srv'.R = [j \in 1..(c - c) |-> Doc(hist.docs[c + 1 - j])]
    BY <2>6, <2>7
  <2>9. srv'.k = c /\ srv'.cnt_i = c /\ hist' = hist /\ srv'.L = Leaf(c, ks[c])
    BY <1>1, <1>2, <1>3, <2>5
  <2> HIDE DEF c
  <2> QED  BY <1>2, <1>3, <2>4, <2>6, <2>7, <2>8, <2>9 DEF Below
<1> QED  BY <1>1, <1>2, <1>3, SearchStep

LEMMA WalkLeafEInv == ASSUME EInv, DInv', WalkLeaf PROVE EInv'
<1> USE DEF EInv
<1> DEFINE e == Read(srv.L, [c |-> srv.C, d |-> srv.D])
<1>1. /\ UNCHANGED <<ST, db, EDB, hist, pc>> /\ pc = "search" /\ srv.k >= srv.lln
      /\ srv' = [srv EXCEPT !.C = e.c, !.D = e.d, !.R = Append(srv.R, e.c),
                            !.k = srv.k - 1, !.L = Follow(e.d, srv.k)]
  BY DEF WalkLeaf, server, Walking
<1>2. /\ Locals' /\ srv'.K = srv.K /\ srv'.cnt_i = srv.cnt_i /\ srv'.cnt_d = srv.cnt_d
      /\ srv'.k = srv.k - 1 /\ srv'.lln = srv.lln /\ srv'.q = srv.q /\ srv'.L = Follow(e.d, srv.k)
      /\ srv'.R = Append(srv.R, e.c)
  <2> HIDE DEF e
  <2> QED  BY <1>1 DEF Locals
<1>3. ASSUME NEW ks, Chain(STw, ks, EDB, hist.docs), STw.cnt_i = srv.cnt_i, Plain,
             ks[srv.cnt_i] = srv.K, srv.lln = 1, Ahead \/ Below(ks)
      PROVE  srv'.lln = 1 /\ Below(ks)'
  <2> DEFINE c == srv.cnt_i
             k == srv.k
             docs == hist.docs
  <2>0. c \in Nat
    <3>1. STw \in STs
      BY Entries DEF DInv
    <3> QED  BY <1>3, <3>1, Size, BoundsAssumption DEF STs
  <2>1. Below(ks) /\ k \in 1..c
    BY <1>1, <1>3, <2>0 DEF Ahead, Below
  <2>2. LeafIs(k, ks, EDB, docs) /\ srv.L = Leaf(k, ks[k])
    BY <1>3, <2>1 DEF Chain, Below
  <2>3. e.c = Doc(docs[k]) /\ e.d = [h |-> k, to |-> IF k = 1 THEN NoLabel ELSE Leaf(k - 1, ks[k - 1])]
    BY <2>2 DEF LeafIs, Read
  <2> HIDE DEF e
  <2>4. k - 1 > 0 => srv'.L = Leaf(k - 1, ks[k - 1])
    BY <1>2, <2>1, <2>3 DEF Follow
  <2>5. srv.R = [j \in 1..(c - k) |-> Doc(docs[c + 1 - j])]
    BY <2>1 DEF Below
  <2> HIDE DEF c, k, docs
  <2>6. srv'.R = [j \in 1..(c - (k - 1)) |-> Doc(docs[c + 1 - j])]
    <3> DEFINE m == c - k
               f == [j \in 1..(m + 1) |-> Doc(docs[c + 1 - j])]
               g == [j \in 1..m |-> Doc(docs[c + 1 - j])]
    <3>1. m \in Nat /\ c - (k - 1) = m + 1 /\ c + 1 - (m + 1) = k
      BY <2>0, <2>1
    <3>2. Append(g, Doc(docs[k])) = f
      <4> HIDE DEF m
      <4>1. Len(g) = m
        BY <3>1
      <4>2. Append(g, Doc(docs[k])) = [j \in 1..(m + 1) |-> IF j = m + 1 THEN Doc(docs[k]) ELSE g[j]]
        BY <3>1, <4>1
      <4>3. \A j \in 1..(m + 1) : (IF j = m + 1 THEN Doc(docs[k]) ELSE g[j]) = Doc(docs[c + 1 - j])
        BY <3>1
      <4> QED  BY <4>2, <4>3
    <3> QED  BY <1>2, <2>3, <2>5, <3>1, <3>2
  <2>7. k - 1 \in 0..c /\ srv'.k = k - 1 /\ srv'.cnt_i = c /\ hist'.docs = docs /\ srv'.q = <<>>
    <3>1. srv.q = <<>>
      BY <2>1 DEF Below
    <3> QED  BY <1>1, <1>2, <2>0, <2>1, <3>1 DEF k, c, docs
  <2> QED  BY <1>2, <1>3, <2>4, <2>6, <2>7 DEF Below
<1> QED  BY <1>1, <1>2, <1>3, SearchStep

LEMMA NextEInv == EInv /\ [Next]_vars => EInv'
<1> SUFFICES ASSUME EInv, [Next]_vars PROVE EInv'
  OBVIOUS
<1>0. DInv'
  BY NextDInv DEF EInv
<1>1. CASE Start \/ Exit \/ Kill
  BY <1>0, <1>1, UnstoredSteps
<1>2. CASE Add
  BY <1>0, <1>2, UnstoredSteps, AddSendEInv DEF Add
<1>3. CASE Del
  BY <1>0, <1>3, UnstoredSteps, DelReadEInv, DelEntryEInv DEF Del
<1>4. CASE StartSearch
  BY <1>0, <1>4, StartSearchEInv
<1>5. CASE Search
  BY <1>0, <1>5, UnstoredSteps, ExpandEInv, TakeLeafEInv, WalkNodeEInv, WalkLeafEInv DEF Search
<1>6. CASE UNCHANGED vars
  <2>1. UNCHANGED <<pc, ST, db, EDB, srv, hist, STw, Saved>>
    BY <1>6 DEF vars, STw, Saved, Known
  <2>2. Locals' /\ Behind' /\ Labelled' /\ Keyed'
    BY <2>1 DEF EInv, Locals, Behind, Labelled, Keyed
  <2>3. Linked'
    BY <2>1 DEF EInv, Linked, Following, Plain, Ahead, Below
  <2> QED  BY <1>0, <2>2, <2>3 DEF EInv
<1> QED  BY <1>1, <1>2, <1>3, <1>4, <1>5, <1>6 DEF Next

LEMMA EInvExact == EInv => ExactWithoutDeletes
<1> SUFFICES ASSUME EInv, Answered, Plain
             PROVE  srv.R = [j \in 1..srv.cnt_i |-> Doc(hist.docs[srv.cnt_i + 1 - j])]
  BY DEF ExactWithoutDeletes, Plain
<1>1. PICK ks : Following(ks)
  BY DEF EInv, Linked, Answered
<1>2. Below(ks) /\ srv.lln = 1
  BY <1>1 DEF Following, Answered, Ahead
<1>3. srv.cnt_i \in Nat
  <2>1. STw \in STs
    BY Entries DEF EInv, DInv
  <2> QED  BY <1>1, <2>1, BoundsAssumption, Size DEF Following, STs
<1>4. srv.k = 0
  BY <1>2, <1>3 DEF Answered, Walking, Below
<1>5. srv.cnt_i - 0 = srv.cnt_i
  BY <1>3
<1> QED  BY <1>2, <1>4, <1>5 DEF Below

\* For a tree of any depth and any number of keys: without deletions a search
\* returns every update once, the newest first, as long as the newest was
\* stored under the token's key.  The links lead through the updates of all
\* earlier keys, and no killed process or earlier session breaks the chain.
THEOREM ExactSearch == Spec => []ExactWithoutDeletes
<1> QED  BY InitEInv, NextEInv, EInvExact, PTL DEF Spec

-----------------------------------------------------------------------------
\* The nodes, those above the leaves, the leaves under a node, and a node's
\* being over another.
Nodes == 1..(2 * N - 1)
Inner == (N + 1)..(2 * N - 1)
Under(i, n) == lln(n) <= i /\ i <= rln(n)
Over(m, n) == lln(m) <= lln(n) /\ rln(n) <= rln(m)

\* The node of level j above leaf i, its level and the leaves under it.
LEMMA NumberOf ==
  ASSUME NEW i \in 1..N, NEW j \in 0..Depth
  PROVE  /\ CeilDiv(i, Pow2[j]) \in 1..Pow2[Depth - j]
         /\ NodeAt(i, j) = CeilDiv(i, Pow2[j]) + (2 * N - Pow2[Depth + 1 - j])
         /\ get_h(NodeAt(i, j)) = j + 1
         /\ lln(NodeAt(i, j)) = (CeilDiv(i, Pow2[j]) - 1) * Pow2[j] + 1
         /\ rln(NodeAt(i, j)) = CeilDiv(i, Pow2[j]) * Pow2[j]
         /\ Pow2[j] * (CeilDiv(i, Pow2[j]) - 1) < i /\ i <= Pow2[j] * CeilDiv(i, Pow2[j])
<1>1. /\ j \in Nat /\ Depth - j \in Nat /\ i \in Nat \ {0} /\ j \in 0..(Depth + 1)
      /\ Pow2[j] \in Nat \ {0} /\ Pow2[Depth - j] \in Nat
  BY DepthAssumption, Size, PowAbove
<1>2. i <= Pow2[j] * Pow2[Depth - j]
  BY Size
<1>3. CeilDiv(i, Pow2[j]) \in 1..Pow2[Depth - j]
  <2>1. CeilDiv(i, Pow2[j]) \in Nat \ {0} /\ CeilDiv(i, Pow2[j]) <= Pow2[Depth - j]
    BY <1>1, <1>2, Ceil
  <2> QED  BY <1>1, <2>1
<1>4. NodeAt(i, j) = CeilDiv(i, Pow2[j]) + (2 * N - Pow2[Depth + 1 - j])
  BY <1>1, OffsetIs DEF NodeAt
<1>5. Pow2[j] * (CeilDiv(i, Pow2[j]) - 1) < i /\ i <= Pow2[j] * CeilDiv(i, Pow2[j])
  BY <1>1, Ceil
<1> QED  BY <1>3, <1>4, <1>5, RangeOf

\* Every number up to the root's is a node of some level.
LEMMA Place ==
  ASSUME NEW n \in Nodes
  PROVE  \E j \in 0..Depth : \E m \in 1..Pow2[Depth - j] : n = m + (2 * N - Pow2[Depth + 1 - j])
<1> DEFINE S == {j \in 0..Depth : n <= 2 * N - Pow2[Depth - j]}
<1>1. Depth \in Nat /\ N \in Nat /\ 2 * N = Pow2[Depth + 1] /\ n \in Nat /\ n >= 1 /\ n <= 2 * N - 1
  BY DepthAssumption, Size DEF Nodes
<1>2. Depth \in S
  BY <1>1, PowStep
<1>3. PICK j \in S : \A k \in S : j <= k
  <2>1. S \in SUBSET Nat
    OBVIOUS
  <2> HIDE DEF S
  <2> QED  BY <1>2, <2>1, LeastElement
<1>4. j \in 0..Depth /\ n <= 2 * N - Pow2[Depth - j]
  OBVIOUS
<1>5. Depth - j \in Nat /\ Depth + 1 - j = (Depth - j) + 1
  BY <1>1, <1>4
<1>6. Pow2[Depth - j] \in Nat /\ Pow2[Depth + 1 - j] = 2 * Pow2[Depth - j]
  BY <1>5, PowAbove, PowStep
<1>7. n > 2 * N - Pow2[Depth + 1 - j]
  <2>1. CASE j = 0
    BY <1>1, <2>1
  <2>2. CASE j # 0
    <3>1. j - 1 \in 0..Depth /\ j - 1 \notin S /\ Depth - (j - 1) = Depth + 1 - j
      BY <1>1, <1>3, <1>4, <2>2
    <3> QED  BY <1>1, <1>6, <3>1
  <2> QED  BY <2>1, <2>2
<1> DEFINE m == n - (2 * N - Pow2[Depth + 1 - j])
<1>8. m \in 1..Pow2[Depth - j] /\ n = m + (2 * N - Pow2[Depth + 1 - j])
  BY <1>1, <1>4, <1>6, <1>7
<1> QED  BY <1>4, <1>8

\* The leaves under a node are a run of leaves, and the node is the one of its
\* level above each of them.
LEMMA Path ==
  ASSUME NEW n \in Nodes
  PROVE  /\ lln(n) \in 1..N /\ rln(n) \in 1..N /\ lln(n) <= rln(n)
         /\ \E j \in 0..Depth : \A i \in 1..N : Under(i, n) => n = NodeAt(i, j)
<1>1. PICK j \in 0..Depth : \E m \in 1..Pow2[Depth - j] : n = m + (2 * N - Pow2[Depth + 1 - j])
  BY Place
<1>2. PICK m \in 1..Pow2[Depth - j] : n = m + (2 * N - Pow2[Depth + 1 - j])
  BY <1>1
<1> DEFINE P == Pow2[j]
           Q == Pow2[Depth - j]
<1>3. lln(n) = (m - 1) * P + 1 /\ rln(n) = m * P
  BY <1>2, RangeOf
<1>4. P \in Nat \ {0} /\ Q \in Nat /\ N = P * Q /\ N \in Nat /\ j \in 0..(Depth + 1)
  BY DepthAssumption, PowAbove, Size
<1> HIDE DEF P, Q
<1>5. m \in Nat /\ m >= 1 /\ m <= Q
  BY <1>4 DEF Q
<1>6. lln(n) \in 1..N /\ rln(n) \in 1..N /\ lln(n) <= rln(n)
  <2>1. (m - 1) * P = m * P - P /\ m * P \in Nat /\ (m - 1) * P \in Nat
    BY <1>4, <1>5
  <2>2. m * P <= P * Q
    <3>1. \A a, b, c \in Nat : a <= b => a * c <= c * b
      OBVIOUS
    <3> QED  BY <1>4, <1>5, <3>1
  <2> QED  BY <1>3, <1>4, <2>1, <2>2
<1>7. ASSUME NEW i \in 1..N, Under(i, n) PROVE n = NodeAt(i, j)
  <2>1. (m - 1) * P < i /\ i <= m * P
    <3>1. (m - 1) * P \in Int /\ i \in Int
      BY <1>4, <1>5
    <3> QED  BY <1>3, <1>7, <3>1 DEF Under
  <2> DEFINE q == CeilDiv(i, P)
  <2>2. q \in Nat /\ q >= 1 /\ P * (q - 1) < i /\ i <= P * q
    BY <1>4, NumberOf DEF P
  <2> HIDE DEF q
  <2>3. q = m
    <3>1. \A a, b, c, x \in Nat : a >= 1 /\ a * (b - 1) < x /\ x <= a * c => b - 1 < c
      <4>1. \A a, b, c \in Nat : c <= b - 1 => a * c <= a * (b - 1)
        OBVIOUS
      <4>2. \A a, b, c \in Nat : a * (b - 1) \in Int /\ a * c \in Int
        OBVIOUS
      <4> TAKE a, b, c, x \in Nat
      <4> DEFINE u == a * (b - 1)
                 v == a * c
      <4>3. u \in Int /\ v \in Int /\ (c <= b - 1 => v <= u)
        BY <4>1, <4>2
      <4> HIDE DEF u, v
      <4>4. u < x /\ x <= v => ~(c <= b - 1)
        BY <4>3
      <4> QED  BY <4>4 DEF u, v
    <3>2. P * (m - 1) < i /\ i <= P * m
      <4>1. P * (m - 1) = (m - 1) * P /\ P * m = m * P
        BY <1>4, <1>5
      <4> QED  BY <2>1, <4>1
    <3>3. i \in Nat
      BY <1>4
    <3>4. q - 1 < m
      BY <1>4, <1>5, <2>2, <3>1, <3>2, <3>3
    <3>5. m - 1 < q
      BY <1>4, <1>5, <2>2, <3>1, <3>2, <3>3
    <3> QED  BY <1>5, <2>2, <3>4, <3>5
  <2>4. NodeAt(i, j) = q + (2 * N - Pow2[Depth + 1 - j])
    BY NumberOf DEF q, P
  <2> QED  BY <1>2, <2>3, <2>4
<1> QED  BY <1>6, <1>7

\* A leaf is under its ancestors.
LEMMA OnPath ==
  ASSUME NEW i \in 1..N, NEW j \in 0..Depth
  PROVE  NodeAt(i, j) \in Nodes /\ Under(i, NodeAt(i, j))
<1> DEFINE P == Pow2[j]
           q == CeilDiv(i, P)
<1>1. /\ q \in Nat /\ q >= 1 /\ P * (q - 1) < i /\ i <= P * q /\ P \in Nat /\ N \in Nat
      /\ lln(NodeAt(i, j)) = (q - 1) * P + 1 /\ rln(NodeAt(i, j)) = q * P
  <2>1. Pow2[Depth - j] \in Nat /\ P \in Nat
    BY DepthAssumption, PowAbove
  <2> QED  BY <2>1, NumberOf, Size
<1>2. NodeAt(i, j) \in Nodes
  <2>1. CASE j = 0
    BY <1>1, <2>1, LeafLevel, Size DEF Nodes
  <2>2. CASE j # 0
    <3>1. j \in 1..Depth
      BY <2>2, DepthAssumption
    <3> QED  BY <1>1, <3>1, InnerNode DEF Nodes
  <2> QED  BY <2>1, <2>2
<1> HIDE DEF P, q
<1>3. P * (q - 1) = (q - 1) * P /\ P * q = q * P /\ (q - 1) * P \in Int /\ i \in Int
  BY <1>1
<1>4. Under(i, NodeAt(i, j))
  BY <1>1, <1>3 DEF Under
<1> QED  BY <1>2, <1>4

\* Of two ancestors of a leaf the higher one is over the other.
LEMMA Nested ==
  ASSUME NEW i \in 1..N, NEW j \in 0..Depth, NEW k \in 0..Depth, j <= k
  PROVE  Over(NodeAt(i, k), NodeAt(i, j))
<1> DEFINE P == Pow2[j]
           R == Pow2[k]
           f == Pow2[k - j]
           q == CeilDiv(i, P)
           p == CeilDiv(i, R)
<1>1. /\ P \in Nat /\ R \in Nat /\ f \in Nat /\ R = P * f /\ P >= 1 /\ f >= 1 /\ i \in Nat
  <2>1. j \in Nat /\ k - j \in Nat /\ k = j + (k - j) /\ k \in Nat
    BY DepthAssumption
  <2>2. R = P * f
    BY <2>1, PowSum
  <2>3. P \in Nat /\ R \in Nat /\ f \in Nat /\ P >= 1 /\ f >= 1
    BY <2>1, PowAbove
  <2> QED  BY <2>2, <2>3, Size
<1>2. /\ q \in Nat /\ q >= 1 /\ P * (q - 1) < i /\ i <= P * q
      /\ lln(NodeAt(i, j)) = (q - 1) * P + 1 /\ rln(NodeAt(i, j)) = q * P
  <2>1. Pow2[Depth - j] \in Nat
    BY DepthAssumption, PowAbove
  <2> QED  BY <2>1, NumberOf
<1>3. /\ p \in Nat /\ p >= 1 /\ R * (p - 1) < i /\ i <= R * p
      /\ lln(NodeAt(i, k)) = (p - 1) * R + 1 /\ rln(NodeAt(i, k)) = p * R
  <2>1. Pow2[Depth - k] \in Nat
    BY DepthAssumption, PowAbove
  <2> QED  BY <2>1, NumberOf
<1> HIDE DEF P, R, f, q, p
<1>4. \A a, b, c \in Nat, x \in Int : a * b < x /\ x <= a * c => b < c
  <2>1. \A a, b, c \in Nat : c <= b => a * c <= a * b
    OBVIOUS
  <2> TAKE a, b, c \in Nat, x \in Int
  <2> DEFINE u == a * b
             v == a * c
  <2>2. u \in Int /\ v \in Int /\ (c <= b => v <= u)
    BY <2>1
  <2> HIDE DEF u, v
  <2>3. u < x /\ x <= v => ~(c <= b)
    BY <2>2
  <2> QED  BY <2>3 DEF u, v
<1>5. R * (p - 1) = P * (f * (p - 1)) /\ R * p = P * (f * p)
  BY <1>1, <1>3
<1>6. /\ p - 1 \in Nat /\ q - 1 \in Nat /\ f * (p - 1) \in Nat /\ f * p \in Nat
  BY <1>1, <1>2, <1>3
<1>7. f * (p - 1) < q
  BY <1>1, <1>2, <1>3, <1>4, <1>5, <1>6
<1>8. q - 1 < f * p
  BY <1>1, <1>2, <1>3, <1>4, <1>5, <1>6
<1>9. f * (p - 1) <= q - 1 /\ q <= f * p
  BY <1>2, <1>6, <1>7, <1>8
<1>10. \A a, b, c \in Nat : a <= b => c * a <= b * c
  OBVIOUS
<1>11. P * (f * (p - 1)) <= (q - 1) * P
  BY <1>1, <1>6, <1>9, <1>10
<1>12. q * P <= P * (f * p)
  <2>1. P * q <= (f * p) * P
    BY <1>1, <1>2, <1>6, <1>9, <1>10
  <2>2. P * q = q * P /\ (f * p) * P = P * (f * p)
    BY <1>1, <1>2, <1>6
  <2> QED  BY <2>1, <2>2
<1>13. R * (p - 1) = (p - 1) * R /\ R * p = p * R /\ (p - 1) * R \in Int /\ (q - 1) * P \in Int
  BY <1>1, <1>2, <1>3
<1> QED  BY <1>2, <1>3, <1>5, <1>11, <1>12, <1>13 DEF Over

\* Of two nodes over the same leaf the one with the larger number is over the
\* other.
LEMMA Laminar ==
  ASSUME NEW m \in Nodes, NEW n \in Nodes, NEW i \in 1..N, Under(i, m), Under(i, n), m <= n
  PROVE  Over(n, m)
<1>1. PICK j \in 0..Depth : m = NodeAt(i, j)
  BY Path
<1>2. PICK k \in 0..Depth : n = NodeAt(i, k)
  BY Path
<1>3. CASE j <= k
  BY <1>1, <1>2, <1>3, Nested
<1>4. CASE ~(j <= k)
  <2>1. k < j /\ k \in 0..Depth /\ j \in 0..Depth
    BY <1>4, DepthAssumption
  <2>2. NodeAt(i, k) < NodeAt(i, j)
    BY <2>1, LevelsGrow
  <2>3. m \in Int /\ n \in Int
    BY DEF Nodes
  <2> QED  BY <1>1, <1>2, <2>2, <2>3
<1> QED  BY <1>3, <1>4

\* A leaf is a node with nothing under it but itself.
LEMMA LeafSpan == \A i \in 1..N : i \in Nodes /\ lln(i) = i /\ rln(i) = i
<1> TAKE i \in 1..N
<1>1. 0 \in 0..Depth /\ NodeAt(i, 0) = i /\ Pow2[0] = 1 /\ Depth - 0 \in Nat
  BY DepthAssumption, LeafLevel, PowStep
<1>2. /\ CeilDiv(i, 1) \in 1..Pow2[Depth - 0]
      /\ lln(i) = (CeilDiv(i, 1) - 1) * 1 + 1 /\ rln(i) = CeilDiv(i, 1) * 1
      /\ 1 * (CeilDiv(i, 1) - 1) < i /\ i <= 1 * CeilDiv(i, 1)
  BY <1>1, NumberOf
<1>3. CeilDiv(i, 1) \in Int /\ i \in 1..N /\ N \in Nat
  <2>1. Pow2[Depth - 0] \in Nat
    BY <1>1, PowAbove
  <2> QED  BY <1>2, <2>1, Size
<1> QED  BY <1>2, <1>3 DEF Nodes

\* An ancestor of a leaf and its sibling halve the leaves under the next one,
\* and no node is between.
LEMMA Kids ==
  ASSUME NEW i \in 1..N, NEW j \in 0..(Depth - 1), NEW x, NEW y,
         x = NodeAt(i, j), y = NodeAt(i, j + 1)
  PROVE  /\ LeftOf(x) \in Nodes /\ RightOf(x) \in Nodes
         /\ lln(LeftOf(x)) = lln(y) /\ rln(RightOf(x)) = rln(y)
         /\ lln(RightOf(x)) = rln(LeftOf(x)) + 1
         /\ get_h(LeftOf(x)) = j + 1 /\ get_h(RightOf(x)) = j + 1 /\ get_h(y) = j + 2
         /\ LeftOf(x) = (2 * CeilDiv(i, Pow2[j + 1]) - 1) + (2 * N - Pow2[Depth + 1 - j])
         /\ RightOf(x) = 2 * CeilDiv(i, Pow2[j + 1]) + (2 * N - Pow2[Depth + 1 - j])
<1>1. /\ j \in Nat /\ j \in 0..Depth /\ j + 1 \in 0..Depth /\ Depth - j \in Nat /\ Depth - (j + 1) \in Nat
      /\ Depth - j = (Depth - (j + 1)) + 1 /\ Depth + 1 - (j + 1) = Depth - j
      /\ Depth + 1 - j = (Depth - j) + 1
  BY DepthAssumption
<1> DEFINE P == Pow2[j]
           H == Pow2[Depth - (j + 1)]
           q == CeilDiv(i, P)
           p == CeilDiv(i, Pow2[j + 1])
<1>2. /\ P \in Nat /\ H \in Nat /\ P >= 1 /\ H >= 1 /\ Pow2[j + 1] = 2 * P
      /\ Pow2[Depth - j] = 2 * H /\ Pow2[Depth + 1 - j] = 4 * H /\ N \in Nat /\ i \in Int
  BY <1>1, PowAbove, PowStep, Size
<1>3. q \in 1..(2 * H) /\ x = q + (2 * N - 4 * H) /\ P * (q - 1) < i /\ i <= P * q
  BY <1>1, <1>2, NumberOf
<1>4. /\ p \in 1..H /\ (2 * P) * (p - 1) < i /\ i <= (2 * P) * p
      /\ lln(y) = (p - 1) * (2 * P) + 1 /\ rln(y) = p * (2 * P) /\ get_h(y) = (j + 1) + 1
  BY <1>1, <1>2, NumberOf
<1> HIDE DEF P, H, q, p
<1>5. q \in Nat /\ p \in Nat /\ q >= 1 /\ p >= 1 /\ q <= 2 * H /\ p <= H
  BY <1>2, <1>3, <1>4
<1>6. q \in {2 * p - 1, 2 * p}
  <2>1. \A a, b, c \in Nat : a * b < i /\ i <= a * c => b < c
    <3>1. \A a, b, c \in Nat : c <= b => a * c <= a * b
      OBVIOUS
    <3> TAKE a, b, c \in Nat
    <3> DEFINE u == a * b
               v == a * c
    <3>2. u \in Int /\ v \in Int /\ (c <= b => v <= u)
      BY <3>1
    <3> HIDE DEF u, v
    <3>3. u < i /\ i <= v => ~(c <= b)
      BY <1>2, <3>2
    <3> QED  BY <3>3 DEF u, v
  <2>2. (2 * P) * (p - 1) = P * (2 * p - 2) /\ (2 * P) * p = P * (2 * p)
    BY <1>2, <1>5
  <2>3. 2 * p - 2 \in Nat /\ 2 * p \in Nat /\ q - 1 \in Nat
    BY <1>5
  <2>4. 2 * p - 2 < q
    BY <1>2, <1>3, <1>4, <1>5, <2>1, <2>2, <2>3
  <2>5. q - 1 < 2 * p
    BY <1>2, <1>3, <1>4, <1>5, <2>1, <2>2, <2>3
  <2> QED  BY <1>5, <2>4, <2>5
<1> DEFINE L == (2 * p - 1) + (2 * N - 4 * H)
           R == 2 * p + (2 * N - 4 * H)
<1>7. LeftOf(x) = L /\ RightOf(x) = R
  BY <1>2, <1>3, <1>5, <1>6 DEF LeftOf, RightOf
<1>8. 2 * p - 1 \in 1..Pow2[Depth - j] /\ 2 * p \in 1..Pow2[Depth - j]
  BY <1>2, <1>5
<1>9. /\ get_h(L) = j + 1 /\ lln(L) = ((2 * p - 1) - 1) * P + 1 /\ rln(L) = (2 * p - 1) * P
      /\ get_h(R) = j + 1 /\ lln(R) = (2 * p - 1) * P + 1 /\ rln(R) = (2 * p) * P
  BY <1>1, <1>2, <1>8, RangeOf DEF P
<1>10. ((2 * p - 1) - 1) * P = (p - 1) * (2 * P) /\ (2 * p) * P = p * (2 * P)
  BY <1>2, <1>5
<1>11. L \in Nodes /\ R \in Nodes
  <2>1. LeftOf(x) \in 1..(NodeAt(i, j + 1) - 1) /\ RightOf(x) \in 1..(NodeAt(i, j + 1) - 1)
    BY ChildrenBelow
  <2>2. NodeAt(i, j + 1) \in (N + 1)..(2 * N - 1)
    <3>1. j + 1 \in 1..Depth
      BY <1>1
    <3> QED  BY <3>1, InnerNode
  <2> QED  BY <1>2, <1>7, <2>1, <2>2 DEF Nodes
<1>13. /\ L = (2 * CeilDiv(i, Pow2[j + 1]) - 1) + (2 * N - Pow2[Depth + 1 - j])
       /\ R = 2 * CeilDiv(i, Pow2[j + 1]) + (2 * N - Pow2[Depth + 1 - j])
  BY <1>2 DEF p
<1> HIDE DEF L, R
<1>12. (j + 1) + 1 = j + 2
  BY <1>1
<1> QED  BY <1>4, <1>7, <1>9, <1>10, <1>11, <1>12, <1>13

\* Above a leaf the level of a node decides its number.
LEMMA ByLevel ==
  ASSUME NEW i \in 1..N, NEW m \in Nodes, Under(i, m)
  PROVE  get_h(m) \in 1..(Depth + 1) /\ m = NodeAt(i, get_h(m) - 1)
<1>1. PICK j \in 0..Depth : m = NodeAt(i, j)
  BY Path
<1>2. get_h(m) = j + 1 /\ (j + 1) - 1 = j
  BY <1>1, NumberOf, DepthAssumption
<1> QED  BY <1>1, <1>2, DepthAssumption

\* No node is between one of those two and the next ancestor.
LEMMA NoneBetween ==
  ASSUME NEW i \in 1..N, NEW j \in 0..(Depth - 1),
         NEW c \in {LeftOf(NodeAt(i, j)), RightOf(NodeAt(i, j))}, NEW m \in Nodes,
         c < m, m < NodeAt(i, j + 1), Over(m, c)
  PROVE  FALSE
<1> DEFINE x == NodeAt(i, j)
           y == NodeAt(i, j + 1)
<1>1. /\ c \in Nodes /\ Over(y, c) /\ get_h(c) = j + 1 /\ get_h(y) = j + 2
      /\ lln(RightOf(x)) = rln(LeftOf(x)) + 1 /\ y \in Nodes
  <2>1. j + 1 \in 0..Depth
    BY DepthAssumption
  <2>2. y \in Nodes
    BY <2>1, OnPath
  <2>3. /\ LeftOf(x) \in Nodes /\ RightOf(x) \in Nodes
        /\ lln(LeftOf(x)) = lln(y) /\ rln(RightOf(x)) = rln(y)
        /\ lln(RightOf(x)) = rln(LeftOf(x)) + 1
        /\ get_h(LeftOf(x)) = j + 1 /\ get_h(RightOf(x)) = j + 1 /\ get_h(y) = j + 2
    BY Kids
  <2> HIDE DEF x, y
  <2>4. /\ lln(LeftOf(x)) \in 1..N /\ rln(LeftOf(x)) \in 1..N /\ lln(LeftOf(x)) <= rln(LeftOf(x))
        /\ lln(RightOf(x)) \in 1..N /\ rln(RightOf(x)) \in 1..N /\ lln(RightOf(x)) <= rln(RightOf(x))
    BY <2>3, Path
  <2>5. Over(y, LeftOf(x)) /\ Over(y, RightOf(x))
    BY <2>3, <2>4, Size DEF Over
  <2> QED  BY <2>2, <2>3, <2>5 DEF x
<1> HIDE DEF x, y
<1> DEFINE a == lln(c)
<1>2. a \in 1..N /\ lln(c) <= a /\ a <= rln(c)
  BY <1>1, Path, Size
<1>3. /\ lln(m) \in Int /\ rln(m) \in Int /\ lln(y) \in Int /\ rln(y) \in Int /\ rln(c) \in Int /\ a \in Int
  BY <1>1, Path, Size
<1>4. Under(a, c) /\ Under(a, m) /\ Under(a, y)
  BY <1>1, <1>2, <1>3 DEF Under, Over
<1>5. /\ get_h(m) \in 1..(Depth + 1) /\ m = NodeAt(a, get_h(m) - 1)
      /\ c = NodeAt(a, get_h(c) - 1) /\ y = NodeAt(a, get_h(y) - 1)
  BY <1>1, <1>2, <1>4, ByLevel
<1> DEFINE k == get_h(m) - 1
<1>6. k \in 0..Depth /\ m = NodeAt(a, k) /\ c = NodeAt(a, j) /\ y = NodeAt(a, j + 1)
      /\ j \in 0..Depth /\ j + 1 \in 0..Depth
  BY <1>1, <1>5, DepthAssumption
<1> HIDE DEF a, k
<1>7. c \in Int /\ m \in Int /\ y \in Int
  BY <1>1 DEF Nodes
<1>8. k # j /\ k # j + 1
  BY <1>6, <1>7 DEF y
<1>9. CASE k < j
  <2>1. m < c
    BY <1>2, <1>6, <1>9, LevelsGrow
  <2> QED  BY <1>7, <2>1
<1>10. CASE k > j + 1
  <2>1. y < m
    BY <1>2, <1>6, <1>10, LevelsGrow
  <2> QED  BY <1>7, <2>1 DEF y
<1> QED  BY <1>6, <1>8, <1>9, <1>10

-----------------------------------------------------------------------------
\* Every leaf under a node that is not gone is under one of its two children.
Covering(x, gone) ==
  /\ x.l \in Nodes /\ x.r \in Nodes
  /\ \A i \in 1..N : Under(i, x.Node) => i \in gone \/ Under(i, x.l) \/ Under(i, x.r)

\* A child c hangs from x: it is still there, and all nodes between are removed.
Removed(F, n) == n \in DOMAIN F /\ F[n].Num = -1
Hung(x, c, F) ==
  /\ Over(x.Node, c) /\ ~Removed(F, c)
  /\ \A m \in Inner : c < m /\ m < x.Node /\ Over(m, c) => Removed(F, m)

\* The links of x lead to all that is left under it.
Sound(x, F, gone) ==
  Covering(x, gone) /\ Hung(x, x.l, F) /\ Hung(x, x.r, F) /\ rln(x.l) < lln(x.r)

\* The nodes over one of a tree are of the tree, too.
Closed(F) == /\ DOMAIN F \subseteq Inner
             /\ \A n \in DOMAIN F, m \in Inner : n < m /\ Over(m, n) => m \in DOMAIN F

\* A tree of links F with the leaves gone: what is not removed is sound.
Tree(F, gone) ==
  /\ Closed(F)
  /\ \A n \in DOMAIN F : F[n].Node = n /\ (F[n].Num # -1 => Sound(F[n], F, gone))

\* The tree a deletion that writes w leaves.
Wrote(w, n) == \E j \in DOMAIN w : w[j].Node = n
Overlay(T, w) ==
  [n \in DOMAIN T \cup {w[j].Node : j \in DOMAIN w} |->
     IF Wrote(w, n) THEN w[CHOOSE j \in DOMAIN w : w[j].Node = n] ELSE T[n]]

LEMMA InnerIs == Inner \subseteq Nodes /\ Inner \subseteq Int /\ Nodes \subseteq Int /\ \A n \in Inner : n > N
BY Size DEF Inner, Nodes

\* What is under a node is under those over it.
LEMMA UnderOver ==
  ASSUME NEW m \in Nodes, NEW n \in Nodes, NEW i \in 1..N, Under(i, n), Over(m, n)
  PROVE  Under(i, m)
<1>1. lln(m) \in Int /\ rln(m) \in Int /\ lln(n) \in Int /\ rln(n) \in Int /\ i \in Int
  BY Path, Size
<1> QED  BY <1>1 DEF Under, Over

LEMMA OverOver ==
  ASSUME NEW m \in Nodes, NEW n \in Nodes, NEW k \in Nodes, Over(m, n), Over(n, k)
  PROVE  Over(m, k)
<1>1. /\ lln(m) \in Int /\ rln(m) \in Int /\ lln(n) \in Int /\ rln(n) \in Int
      /\ lln(k) \in Int /\ rln(k) \in Int
  BY Path, Size
<1> QED  BY <1>1 DEF Over

\* Every node is over some leaf.
LEMMA SomeLeaf == \A n \in Nodes : lln(n) \in 1..N /\ Under(lln(n), n)
BY Path, Size DEF Under

\* A node no deletion has touched is sound: its children halve its leaves.
LEMMA FreshSound ==
  ASSUME NEW leaf \in 1..N, NEW d \in 1..Depth, NEW F, Closed(F),
         InternalNodes(leaf)[d] \notin DOMAIN F, NEW gone
  PROVE  Sound(Fresh(leaf, d), F, gone)
<1>1. /\ Depth - d \in 0..(Depth - 1) /\ (Depth - d) + 1 = Depth + 1 - d /\ Depth + 1 - d \in 1..Depth
      /\ d # Depth => d + 1 \in 1..Depth /\ Depth + 1 - (d + 1) = Depth - d
      /\ d = Depth => Depth - d = 0
  BY DepthAssumption
<1> DEFINE x == NodeAt(leaf, Depth - d)
           y == NodeAt(leaf, (Depth - d) + 1)
           f == Fresh(leaf, d)
<1>2. InternalNodes(leaf)[d] = y
  BY <1>1 DEF InternalNodes
<1>3. (IF d = Depth THEN leaf ELSE InternalNodes(leaf)[d + 1]) = x
  BY <1>1, LeafLevel DEF InternalNodes
<1>4. f.Node = y /\ f.l = LeftOf(x) /\ f.r = RightOf(x)
  BY <1>2, <1>3 DEF Fresh
<1>5. /\ LeftOf(x) \in Nodes /\ RightOf(x) \in Nodes
      /\ lln(LeftOf(x)) = lln(y) /\ rln(RightOf(x)) = rln(y)
      /\ lln(RightOf(x)) = rln(LeftOf(x)) + 1
  BY <1>1, Kids
<1>6. LeftOf(x) < y /\ RightOf(x) < y /\ y \in Inner /\ y \in Nodes
  <2>1. LeftOf(x) \in 1..(y - 1) /\ RightOf(x) \in 1..(y - 1)
    BY <1>1, ChildrenBelow
  <2>2. y \in Inner
    BY <1>1, InnerNode DEF Inner
  <2> HIDE DEF x, y
  <2>3. y \in Nodes /\ y \in Int
    BY <2>2, InnerIs
  <2> QED  BY <2>1, <2>2, <2>3
<1>7. \A c \in {LeftOf(x), RightOf(x)}, m \in Nodes : c < m /\ m < y /\ Over(m, c) => FALSE
  BY <1>1, NoneBetween
<1> HIDE DEF x, y, f
<1> DEFINE L == LeftOf(x)
           R == RightOf(x)
<1>8. /\ lln(L) \in 1..N /\ rln(L) \in 1..N /\ lln(L) <= rln(L)
      /\ lln(R) \in 1..N /\ rln(R) \in 1..N /\ lln(R) <= rln(R) /\ N \in Nat
  BY <1>5, Path, Size
<1> HIDE DEF L, R
<1>9. f.l = L /\ f.r = R /\ L \in Nodes /\ R \in Nodes /\ L < y /\ R < y
      /\ lln(L) = lln(y) /\ rln(R) = rln(y) /\ lln(R) = rln(L) + 1
  BY <1>4, <1>5, <1>6 DEF L, R
<1>10. Over(y, L) /\ Over(y, R) /\ rln(L) < lln(R)
  BY <1>8, <1>9 DEF Over
<1>11. Covering(f, gone)
  BY <1>4, <1>8, <1>9 DEF Covering, Under
<1>12. \A c \in {L, R} : Hung(f, c, F)
  <2> TAKE c \in {L, R}
  <2>1. ~Removed(F, c)
    <3>1. c \in DOMAIN F => y \in DOMAIN F
      BY <1>6, <1>9, <1>10 DEF Closed
    <3> QED  BY <1>2, <3>1 DEF Removed, y
  <2>2. \A m \in Inner : c < m /\ m < y /\ Over(m, c) => FALSE
    BY <1>7, InnerIs DEF L, R
  <2> QED  BY <1>4, <1>10, <2>1, <2>2 DEF Hung
<1> QED  BY <1>4, <1>9, <1>10, <1>11, <1>12 DEF Sound, f

\* What a deletion finds at the ancestors of a leaf.
LEMMA AtIs ==
  ASSUME NEW leaf \in 1..N, NEW gone, Tree(OD_tree, gone), NEW d \in 1..Depth
  PROVE  /\ At(leaf)[d].Node = InternalNodes(leaf)[d]
         /\ InternalNodes(leaf)[d] \in Inner /\ Under(leaf, InternalNodes(leaf)[d])
         /\ At(leaf)[d].Num = -1 <=> Removed(OD_tree, InternalNodes(leaf)[d])
         /\ At(leaf)[d].Num # -1 => Sound(At(leaf)[d], OD_tree, gone)
<1> DEFINE n == InternalNodes(leaf)[d]
<1>1. n = NodeAt(leaf, Depth + 1 - d) /\ Depth + 1 - d \in 1..Depth /\ Depth + 1 - d \in 0..Depth
  BY DepthAssumption DEF InternalNodes
<1>2. n \in Inner /\ Under(leaf, n)
  BY <1>1, InnerNode, OnPath DEF Inner
<1>3. CASE n \in DOMAIN OD_tree
  <2>1. At(leaf)[d] = OD_tree[n]
    BY <1>3 DEF At
  <2> QED  BY <1>2, <1>3, <2>1 DEF Tree, Removed
<1>4. CASE n \notin DOMAIN OD_tree
  <2>1. At(leaf)[d] = Fresh(leaf, d)
    BY <1>4 DEF At
  <2>2. Fresh(leaf, d).Node = n /\ Fresh(leaf, d).Num = 0
    BY FreshIs
  <2>3. Sound(Fresh(leaf, d), OD_tree, gone)
    BY <1>4, FreshSound DEF Tree
  <2> QED  BY <1>2, <1>4, <2>1, <2>2, <2>3 DEF Removed
<1> QED  BY <1>3, <1>4

\* A deletion works on exactly the ancestors of its leaf that are not removed.
LEMMA AncestorsAre ==
  ASSUME NEW leaf \in 1..N, NEW gone, Tree(OD_tree, gone), NEW a, a = Ancestors(leaf)
  PROVE  /\ \A j \in 1..Len(a) : /\ a[j].Node \in Inner /\ Under(leaf, a[j].Node)
                                 /\ ~Removed(OD_tree, a[j].Node) /\ Sound(a[j], OD_tree, gone)
         /\ \A n \in Inner : Under(leaf, n) /\ ~Removed(OD_tree, n)
                             => \E j \in 1..Len(a) : a[j].Node = n
<1> DEFINE K == Left(leaf)
<1>1. Depth \in Nat /\ K \in SUBSET (1..Depth)
  BY DepthAssumption DEF Left
<1>2. /\ Cardinality(K) \in Nat
      /\ \A j \in 1..Cardinality(K) : \E d \in K : Cardinality(K \cap 1..d) = j
      /\ \A d, e \in K : d < e => Cardinality(K \cap 1..d) < Cardinality(K \cap 1..e)
  <2> HIDE DEF K
  <2> QED  BY <1>1, Ranks
<1>3. \A j \in 1..Cardinality(K) : Nth(leaf, j) \in K /\ Cardinality(K \cap 1..Nth(leaf, j)) = j
  BY <1>2 DEF Nth
<1>4. a = [j \in 1..Cardinality(K) |-> At(leaf)[Nth(leaf, j)]]
  BY AncestorsBy
<1>5. Len(a) = Cardinality(K)
  BY <1>2, <1>4
<1>6. \A d \in K : d \in 1..Depth /\ At(leaf)[d].Num # -1
  BY DEF Left
<1>7. \A d \in 1..Depth : At(leaf)[d].Num # -1 => d \in K
  BY DEF Left
<1> HIDE DEF K
<1>8. ASSUME NEW j \in 1..Len(a)
      PROVE  /\ a[j].Node \in Inner /\ Under(leaf, a[j].Node)
             /\ ~Removed(OD_tree, a[j].Node) /\ Sound(a[j], OD_tree, gone)
  <2>1. Nth(leaf, j) \in 1..Depth /\ At(leaf)[Nth(leaf, j)].Num # -1 /\ a[j] = At(leaf)[Nth(leaf, j)]
    BY <1>3, <1>4, <1>5, <1>6
  <2> QED  BY <2>1, AtIs
<1>9. ASSUME NEW n \in Inner, Under(leaf, n), ~Removed(OD_tree, n)
      PROVE  \E j \in 1..Len(a) : a[j].Node = n
  <2>1. PICK l \in 0..Depth : n = NodeAt(leaf, l)
    BY <1>9, Path, InnerIs
  <2>2. l # 0
    BY <2>1, LeafLevel, InnerIs, Size
  <2> DEFINE d == Depth + 1 - l
  <2>3. d \in 1..Depth /\ Depth + 1 - d = l
    BY <1>1, <2>1, <2>2
  <2>4. InternalNodes(leaf)[d] = n
    BY <2>1, <2>3 DEF InternalNodes
  <2>5. d \in K
    BY <1>7, <1>9, <2>3, <2>4, AtIs
  <2> DEFINE j == Cardinality(K \cap 1..d)
  <2> HIDE DEF d
  <2>6. j \in 1..Cardinality(K)
    <3>1. K \cap 1..d \subseteq K /\ IsFiniteSet(K) /\ IsFiniteSet(K \cap 1..d) /\ d \in K \cap 1..d
      <4>1. IsFiniteSet(1..Depth)
        BY <1>1, FS_Interval
      <4>2. IsFiniteSet(K)
        BY <1>1, <4>1, FS_Subset
      <4>3. K \cap 1..d \subseteq K
        OBVIOUS
      <4>4. IsFiniteSet(K \cap 1..d)
        BY <4>2, <4>3, FS_Subset
      <4>5. d \in 1..d
        BY <1>1, <2>3
      <4> QED  BY <2>5, <4>2, <4>3, <4>4, <4>5
    <3>2. j <= Cardinality(K) /\ j \in Nat
      BY <3>1, FS_Subset, FS_CardinalityType
    <3>3. j # 0
      BY <3>1, FS_EmptySet
    <3> HIDE DEF j
    <3> QED  BY <1>2, <3>2, <3>3
  <2>7. Nth(leaf, j) = d
    <3> DEFINE e == Nth(leaf, j)
    <3>1. e \in K /\ Cardinality(K \cap 1..e) = j /\ e \in Int /\ d \in Int /\ j \in Int
      <4> HIDE DEF j
      <4>1. e \in K /\ Cardinality(K \cap 1..e) = j
        BY <1>3, <2>6
      <4> HIDE DEF e
      <4> QED  BY <1>1, <1>2, <2>5, <2>6, <4>1
    <3> HIDE DEF e
    <3>2. e < d => Cardinality(K \cap 1..e) < j
      BY <1>2, <2>5, <3>1
    <3>3. d < e => j < Cardinality(K \cap 1..e)
      BY <1>2, <2>5, <3>1
    <3> HIDE DEF j
    <3>4. e = d
      BY <3>1, <3>2, <3>3
    <3> QED  BY <3>4 DEF e
  <2>8. a[j] = At(leaf)[d]
    BY <1>4, <2>6, <2>7
  <2>9. a[j].Node = n
    BY <2>3, <2>4, <2>8, AtIs
  <2> QED  BY <1>5, <2>6, <2>9
<1> QED  BY <1>8, <1>9

\* The links a deletion writes: its last node's parent gets the sibling of the
\* leaf in that node's place, the others keep their children.
LinksAre(a, w, k, s) ==
  /\ DOMAIN w = 1..k
  /\ k >= 1 => w[k].Num = -1
  /\ \A j \in 1..k : j < k - 1 => w[j].l = a[j].l /\ w[j].r = a[j].r
  /\ k >= 2 => /\ w[k - 1].l = IF a[k - 1].l = a[k].Node THEN s ELSE a[k - 1].l
               /\ w[k - 1].r = IF a[k - 1].l = a[k].Node THEN a[k - 1].r ELSE s

LEMMA WrittenLinks ==
  ASSUME NEW a \in Seq(Links), NEW leaf, NEW k, k = Len(a)
  PROVE  LinksAre(a, Written(a, leaf), k, Sibling(a[k], leaf).n)
<1> DEFINE w == Written(a, leaf)
           g == Relink(a[k - 1], a[k], Sibling(a[k], leaf))
           b == IF k < 2 THEN a ELSE [a EXCEPT ![k - 1] = g]
<1>1. k \in Nat /\ DOMAIN a = 1..k /\ \A j \in 1..k : a[j] \in Links
  OBVIOUS
<1>2. w = [j \in 1..k |-> IF j = k THEN [b[k] EXCEPT !.Num = -1] ELSE Bump(b[j], a[j + 1])]
  BY DEF Written
<1>3. \A x, y : x \in Links => Bump(x, y).l = x.l /\ Bump(x, y).r = x.r
  BY DEF Links, Bump
<1>4. \A j \in 1..k : j # k - 1 => b[j] = a[j]
  BY <1>1
<1>5. k >= 1 => w[k].Num = -1
  <2>1. k >= 1 => b[k] = a[k] /\ k \in 1..k
    BY <1>1, <1>4
  <2> HIDE DEF b
  <2>2. \A x \in Links : [x EXCEPT !.Num = -1].Num = -1
    BY DEF Links
  <2> QED  BY <1>1, <1>2, <2>1, <2>2
<1>6. \A j \in 1..k : j < k - 1 => w[j].l = a[j].l /\ w[j].r = a[j].r
  <2> HIDE DEF b
  <2> TAKE j \in 1..k
  <2> HAVE j < k - 1
  <2>1. j # k /\ j # k - 1
    BY <1>1
  <2>2. w[j] = Bump(a[j], a[j + 1])
    BY <1>2, <1>4, <2>1
  <2> QED  BY <1>1, <1>3, <2>2
<1>7. ASSUME k >= 2
      PROVE  /\ w[k - 1].l = IF a[k - 1].l = a[k].Node THEN Sibling(a[k], leaf).n ELSE a[k - 1].l
             /\ w[k - 1].r = IF a[k - 1].l = a[k].Node THEN a[k - 1].r ELSE Sibling(a[k], leaf).n
  <2>1. k - 1 \in 1..k /\ k - 1 # k
    BY <1>1, <1>7
  <2>2. b[k - 1] = g
    BY <1>1, <1>7, <2>1
  <2> HIDE DEF b, g
  <2>3. w[k - 1] = Bump(g, a[(k - 1) + 1])
    BY <1>2, <2>1, <2>2
  <2>4. w[k - 1].l = g.l /\ w[k - 1].r = g.r
    <3>1. \A y : DOMAIN Bump(g, y) = DOMAIN g /\ Bump(g, y).l = g.l /\ Bump(g, y).r = g.r
      <4>1. "l" \in DOMAIN g /\ "r" \in DOMAIN g
        BY <1>1, <2>1 DEF g, Relink, Links
      <4> QED  BY <4>1 DEF Bump
    <3> QED  BY <2>3, <3>1
  <2>5. /\ g.l = IF a[k - 1].l = a[k].Node THEN Sibling(a[k], leaf).n ELSE a[k - 1].l
        /\ g.r = IF a[k - 1].l = a[k].Node THEN a[k - 1].r ELSE Sibling(a[k], leaf).n
    BY <1>1, <2>1 DEF g, Relink, Links
  <2> QED  BY <2>4, <2>5
<1>8. DOMAIN w = 1..k
  BY <1>2
<1> HIDE DEF w
<1> QED  BY <1>5, <1>6, <1>7, <1>8 DEF LinksAre, w

\* The tree that is left has the nodes written, and else the ones it had.
Falling(w, k) ==
  /\ k \in Nat /\ DOMAIN w = 1..k
  /\ \A i, j \in 1..k : i < j => w[j].Node < w[i].Node
  /\ \A j \in 1..k : w[j].Node \in Int
Overlaid(T, w, k, F) ==
  /\ \A n : n \in DOMAIN F <=> n \in DOMAIN T \/ Wrote(w, n)
  /\ \A j \in 1..k : F[w[j].Node] = w[j]
  /\ \A n \in DOMAIN T : ~Wrote(w, n) => F[n] = T[n]

LEMMA OverlayIs ==
  ASSUME NEW T, NEW w, NEW k, Falling(w, k)
  PROVE  Overlaid(T, w, k, Overlay(T, w))
<1> USE DEF Falling
<1>1. ASSUME NEW j \in 1..k PROVE (CHOOSE i \in DOMAIN w : w[i].Node = w[j].Node) = j
  <2>1. ASSUME NEW i \in 1..k, w[i].Node = w[j].Node PROVE i = j
    BY <2>1
  <2> QED  BY <2>1
<1>2. ASSUME NEW j \in 1..k PROVE Overlay(T, w)[w[j].Node] = w[j]
  <2>1. Wrote(w, w[j].Node)
    BY DEF Wrote
  <2> QED  BY <1>1, <2>1 DEF Overlay
<1>3. \A n : n \in DOMAIN Overlay(T, w) <=> n \in DOMAIN T \/ Wrote(w, n)
  BY DEF Overlay, Wrote
<1>4. \A n \in DOMAIN T : ~Wrote(w, n) => Overlay(T, w)[n] = T[n]
  BY DEF Overlay
<1> QED  BY <1>2, <1>3, <1>4 DEF Overlaid

\* The child over the leaf is the next ancestor that is not removed, or the
\* leaf itself.
LEMMA NextDown ==
  ASSUME NEW leaf \in 1..N, NEW gone, Tree(OD_tree, gone), NEW a, a = Ancestors(leaf),
         NEW e, Descent(a, e), NEW j \in 1..Len(a), NEW c \in {a[j].l, a[j].r}, Under(leaf, c)
  PROVE  c = IF j = Len(a) THEN leaf ELSE a[j + 1].Node
<1>1. /\ \A i \in 1..Len(a) : /\ a[i].Node \in Inner /\ Under(leaf, a[i].Node)
                              /\ ~Removed(OD_tree, a[i].Node) /\ Sound(a[i], OD_tree, gone)
      /\ \A n \in Inner : Under(leaf, n) /\ ~Removed(OD_tree, n)
                          => \E i \in 1..Len(a) : a[i].Node = n
  BY AncestorsAre
<1>2. c \in Nodes /\ c \in Int /\ c < a[j].Node /\ Hung(a[j], c, OD_tree) /\ Len(a) \in Nat
  <2>1. a[j] \in Links /\ Down(a[j]) /\ Len(a) \in Nat
    BY DEF Descent
  <2>2. c \in Nodes /\ Hung(a[j], c, OD_tree)
    BY <1>1 DEF Sound, Covering
  <2> QED  BY <2>1, <2>2, InnerIs DEF Down
<1>3. ASSUME j # Len(a), c < a[j + 1].Node PROVE FALSE
  <2>1. j + 1 \in 1..Len(a) /\ j < j + 1
    BY <1>2, <1>3
  <2> DEFINE m == a[j + 1].Node
  <2>2. m \in Inner /\ Under(leaf, m) /\ ~Removed(OD_tree, m) /\ m < a[j].Node
    BY <1>1, <2>1 DEF Descent
  <2> HIDE DEF m
  <2>3. m \in Nodes /\ m \in Int /\ c < m
    BY <1>3, <2>2, InnerIs DEF m
  <2>4. Over(m, c)
    BY <1>2, <2>2, <2>3, Laminar
  <2> QED  BY <1>2, <2>2, <2>3, <2>4 DEF Hung
<1>4. CASE c <= N
  <2>1. c \in 1..N
    BY <1>2, <1>4, Size DEF Nodes
  <2>2. c = leaf
    BY <2>1, LeafSpan, Size DEF Under
  <2>3. j = Len(a)
    <3> SUFFICES ASSUME j # Len(a) PROVE FALSE
      OBVIOUS
    <3>1. j + 1 \in 1..Len(a)
      BY <1>2
    <3>2. a[j + 1].Node > N /\ a[j + 1].Node \in Int
      BY <1>1, <3>1, InnerIs
    <3> QED  BY <1>2, <1>3, <1>4, <3>2, Size
  <2> QED  BY <2>2, <2>3
<1>5. CASE ~(c <= N)
  <2>1. c \in Inner
    BY <1>2, <1>5, Size DEF Nodes, Inner
  <2>2. PICK i \in 1..Len(a) : a[i].Node = c
    BY <1>1, <1>2, <2>1 DEF Hung
  <2>3. j < i
    <3>1. i < j => a[j].Node < a[i].Node
      BY DEF Descent
    <3>2. a[j].Node \in Int
      BY <1>1, InnerIs
    <3> QED  BY <1>2, <2>2, <3>1, <3>2
  <2>4. j + 1 \in 1..Len(a) /\ j # Len(a)
    BY <1>2, <2>3
  <2>5. i = j + 1
    <3>1. j + 1 < i => a[i].Node < a[j + 1].Node
      BY <2>4 DEF Descent
    <3> QED  BY <1>2, <1>3, <2>2, <2>3, <2>4, <3>1
  <2> QED  BY <2>2, <2>4, <2>5
<1> QED  BY <1>4, <1>5

\* When p is removed with one of its children, the leaf, its parent g is sound
\* with the other child in its place.
LEMMA Spliced ==
  ASSUME NEW F, NEW F2, NEW gone, NEW leaf \in 1..N, leaf \notin gone,
         NEW g, Sound(g, F, gone), g.Node \in Inner, Under(leaf, g.Node),
         NEW p, Sound(p, F, gone), p.Node \in Inner, Under(leaf, p.Node), p.Node < g.Node,
         p.l < p.Node, p.r < p.Node,
         \A c \in {g.l, g.r} : Under(leaf, c) => c = p.Node,
         \A c \in {p.l, p.r} : Under(leaf, c) => c = leaf,
         \A n : Removed(F2, n) <=> Removed(F, n) \/ n = p.Node,
         NEW s, s = IF p.l = leaf THEN p.r ELSE p.l,
         NEW x, x.Node = g.Node,
         x.l = IF g.l = p.Node THEN s ELSE g.l,
         x.r = IF g.l = p.Node THEN g.r ELSE s
  PROVE  Sound(x, F2, gone \cup {leaf})
<1>1. /\ g.Node \in Nodes /\ p.Node \in Nodes /\ g.Node \in Int /\ p.Node \in Int
      /\ g.l \in Nodes /\ g.r \in Nodes /\ p.l \in Nodes /\ p.r \in Nodes
      /\ \A n \in Nodes : lln(n) \in Int /\ rln(n) \in Int /\ lln(n) <= rln(n) /\ n \in Int
  <2>1. \A n \in Nodes : lln(n) \in Int /\ rln(n) \in Int /\ lln(n) <= rln(n) /\ n \in Int
    <3> TAKE n \in Nodes
    <3>1. lln(n) \in 1..N /\ rln(n) \in 1..N /\ lln(n) <= rln(n)
      BY Path
    <3> QED  BY <3>1, InnerIs
  <2>2. g.l \in Nodes /\ g.r \in Nodes /\ p.l \in Nodes /\ p.r \in Nodes
    BY DEF Sound, Covering
  <2>3. g.Node \in Nodes /\ p.Node \in Nodes
    BY InnerIs
  <2> QED  BY <2>1, <2>2, <2>3
<1>2. s \in Nodes /\ s \in Int /\ s < p.Node /\ Hung(p, s, F)
  BY <1>1 DEF Sound
<1>3. \A i \in 1..N : Under(i, p.Node) => i \in gone \/ i = leaf \/ Under(i, s)
  <2> TAKE i \in 1..N
  <2> HAVE Under(i, p.Node)
  <2>1. i \in gone \/ Under(i, p.l) \/ Under(i, p.r)
    BY DEF Sound, Covering
  <2>2. Under(leaf, p.l) \/ Under(leaf, p.r)
    BY DEF Sound, Covering
  <2>3. leaf \in {p.l, p.r}
    BY <2>2
  <2>4. Under(i, leaf) => i = leaf
    <3>1. i \in Int /\ leaf \in Int /\ lln(leaf) = leaf /\ rln(leaf) = leaf
      BY LeafSpan, Size
    <3> QED  BY <3>1 DEF Under
  <2> QED  BY <2>1, <2>3, <2>4
<1>4. p.Node \in {g.l, g.r} /\ g.l # g.r
  <2>1. Under(leaf, g.l) \/ Under(leaf, g.r)
    BY DEF Sound, Covering
  <2>2. rln(g.l) < lln(g.r)
    BY DEF Sound
  <2> QED  BY <1>1, <2>1, <2>2
<1> DEFINE o == IF g.l = p.Node THEN g.r ELSE g.l
<1>5. o \in Nodes /\ o # p.Node /\ Hung(g, o, F) /\ Hung(g, p.Node, F) /\ {x.l, x.r} = {s, o}
  BY <1>1, <1>4 DEF Sound
<1>6. \A i \in 1..N : Under(i, g.Node) => i \in gone \/ Under(i, p.Node) \/ Under(i, o)
  BY <1>4 DEF Sound, Covering
<1> HIDE DEF o
<1>7. Covering(x, gone \cup {leaf})
  <2>1. x.l \in Nodes /\ x.r \in Nodes
    BY <1>2, <1>5
  <2>2. \A i \in 1..N : Under(i, g.Node) => i \in gone \cup {leaf} \/ Under(i, s) \/ Under(i, o)
    BY <1>3, <1>6
  <2> QED  BY <1>5, <2>1, <2>2 DEF Covering
<1>8. Hung(x, o, F2)
  BY <1>5 DEF Hung
<1>9. Hung(x, s, F2)
  <2>1. Over(p.Node, s) /\ Over(g.Node, p.Node) /\ ~Removed(F, s)
    BY <1>2, <1>5 DEF Hung
  <2>2. Over(g.Node, s)
    BY <1>1, <1>2, <2>1, OverOver
  <2>3. ~Removed(F2, s)
    BY <1>1, <1>2, <2>1
  <2>4. ASSUME NEW m \in Inner, s < m, m < g.Node, Over(m, s) PROVE Removed(F2, m)
    <3>1. m \in Int /\ m \in Nodes
      BY InnerIs
    <3>2. CASE m < p.Node
      BY <1>2, <2>4, <3>2 DEF Hung
    <3>3. CASE m = p.Node
      BY <3>3
    <3>4. CASE p.Node < m
      <4>1. lln(s) \in 1..N /\ Under(lln(s), s)
        BY <1>2, SomeLeaf
      <4>2. Under(lln(s), m) /\ Under(lln(s), p.Node)
        BY <1>1, <1>2, <2>1, <2>4, <3>1, <4>1, UnderOver
      <4>3. Over(m, p.Node)
        BY <1>1, <3>1, <3>4, <4>1, <4>2, Laminar
      <4> QED  BY <1>5, <2>4, <3>4, <4>3 DEF Hung
    <3> QED  BY <1>1, <3>1, <3>2, <3>3, <3>4
  <2> QED  BY <2>2, <2>3, <2>4 DEF Hung
<1>10. rln(x.l) < lln(x.r)
  <2>1. Over(p.Node, s)
    BY <1>2 DEF Hung
  <2>2. rln(g.l) < lln(g.r)
    BY DEF Sound
  <2>3. rln(s) <= rln(p.Node) /\ lln(p.Node) <= lln(s)
    BY <2>1 DEF Over
  <2>4. CASE g.l = p.Node
    <3>1. x.l = s /\ x.r = g.r
      BY <2>4
    <3>2. rln(s) \in Int /\ rln(p.Node) \in Int /\ lln(g.r) \in Int /\ rln(p.Node) < lln(g.r)
      BY <1>1, <1>2, <2>2, <2>4
    <3> QED  BY <2>3, <3>1, <3>2
  <2>5. CASE g.l # p.Node
    <3>1. x.l = g.l /\ x.r = s /\ g.r = p.Node
      BY <1>4, <2>5
    <3>2. lln(s) \in Int /\ lln(p.Node) \in Int /\ rln(g.l) \in Int /\ rln(g.l) < lln(p.Node)
      BY <1>1, <1>2, <2>2, <3>1
    <3> QED  BY <2>3, <3>1, <3>2
  <2> QED  BY <2>4, <2>5
<1> QED  BY <1>5, <1>7, <1>8, <1>9, <1>10 DEF Sound

\* A node is sound as long as no child of it is removed.
LEMMA StaysSound ==
  ASSUME NEW F, NEW F2, NEW gone, NEW gone2, gone \subseteq gone2, NEW x, Sound(x, F, gone),
         NEW y, y.Node = x.Node, y.l = x.l, y.r = x.r,
         \A n : Removed(F, n) => Removed(F2, n),
         ~Removed(F2, x.l), ~Removed(F2, x.r)
  PROVE  Sound(y, F2, gone2)
<1>1. Covering(y, gone2)
  BY DEF Sound, Covering
<1>2. Hung(y, x.l, F2) /\ Hung(y, x.r, F2)
  BY DEF Sound, Hung
<1> QED  BY <1>1, <1>2 DEF Sound

\* A deletion leaves a tree that still leads to all that is left.
LEMMA WrittenTree ==
  ASSUME NEW leaf \in 1..N, NEW gone, leaf \notin gone, Tree(OD_tree, gone),
         NEW a, a = Ancestors(leaf), a # <<>>, NEW e \in Nat, Descent(a, e), e + 1 <= MaxDeletes,
         NEW w, w = Written(a, leaf)
  PROVE  Tree(Overlay(OD_tree, w), gone \cup {leaf})
<1> DEFINE k == Len(a)
           F == OD_tree
           G == Overlay(OD_tree, w)
           p == a[k]
<1>1. a \in Seq(Links) /\ k \in Nat /\ k >= 1 /\ k \in 1..k
  BY DEF Descent
<1>2. /\ \A j \in 1..k : /\ a[j].Node \in Inner /\ Under(leaf, a[j].Node)
                         /\ ~Removed(F, a[j].Node) /\ Sound(a[j], F, gone)
      /\ \A n \in Inner : Under(leaf, n) /\ ~Removed(F, n) => \E j \in 1..k : a[j].Node = n
  BY AncestorsAre
<1>3. /\ DOMAIN w = 1..k /\ w[k].Num = -1
      /\ \A j \in 1..k : j < k - 1 => w[j].l = a[j].l /\ w[j].r = a[j].r
      /\ k >= 2 =>
           /\ w[k - 1].l = IF a[k - 1].l = a[k].Node THEN Sibling(a[k], leaf).n ELSE a[k - 1].l
           /\ w[k - 1].r = IF a[k - 1].l = a[k].Node THEN a[k - 1].r ELSE Sibling(a[k], leaf).n
  <2>1. LinksAre(a, w, k, Sibling(a[k], leaf).n)
    BY <1>1, WrittenLinks
  <2> QED  BY <1>1, <2>1 DEF LinksAre
<1>4. \A j \in 1..k : w[j].Node = a[j].Node /\ (j < k => w[j].Num >= 1)
  BY <1>1, WrittenIs
<1>5. \A i, j \in 1..k : i < j => a[j].Node < a[i].Node
  BY DEF Descent
<1>6. \A j \in 1..k : \A c \in {a[j].l, a[j].r} :
         Under(leaf, c) => c = IF j = k THEN leaf ELSE a[j + 1].Node
  BY NextDown
<1>7. \A j \in 1..k : a[j].l < a[j].Node /\ a[j].r < a[j].Node /\ a[j].Node \in Int
  BY <1>2, InnerIs DEF Descent, Down
<1>8. /\ \A n : n \in DOMAIN G <=> n \in DOMAIN F \/ \E j \in 1..k : a[j].Node = n
      /\ \A j \in 1..k : G[a[j].Node] = w[j]
      /\ \A n \in DOMAIN F : (\A j \in 1..k : a[j].Node # n) => G[n] = F[n]
  <2>1. \A i, j \in 1..k : i < j => w[j].Node < w[i].Node
    BY <1>4, <1>5
  <2>2. \A j \in 1..k : w[j].Node \in Int
    BY <1>4, <1>7
  <2>3. /\ \A n : n \in DOMAIN G <=> n \in DOMAIN F \/ Wrote(w, n)
        /\ \A j \in 1..k : G[w[j].Node] = w[j]
        /\ \A n \in DOMAIN F : ~Wrote(w, n) => G[n] = F[n]
    <3>1. Falling(w, k)
      BY <1>1, <1>3, <2>1, <2>2 DEF Falling
    <3> HIDE DEF k, p, F
    <3>2. G = Overlay(F, w)
      BY DEF F
    <3>3. Overlaid(F, w, k, G)
      BY <3>1, <3>2, OverlayIs
    <3> QED  BY <3>3 DEF Overlaid
  <2>4. \A n : Wrote(w, n) <=> \E j \in 1..k : a[j].Node = n
    BY <1>3, <1>4 DEF Wrote
  <2> HIDE DEF k, G
  <2> QED  BY <1>4, <2>3, <2>4
<1> HIDE DEF k, G
<1>9. \A n : Removed(G, n) <=> Removed(F, n) \/ n = p.Node
  <2> TAKE n
  <2>1. CASE \E j \in 1..k : a[j].Node = n
    <3>1. PICK j \in 1..k : a[j].Node = n
      BY <2>1
    <3>2. G[n] = w[j] /\ n \in DOMAIN G /\ ~Removed(F, n)
      BY <1>2, <1>8, <3>1
    <3>3. j = k => w[j].Num = -1
      BY <1>3
    <3>4. j # k => w[j].Num # -1 /\ a[k].Node < a[j].Node
      <4>1. j # k => j < k
        BY <1>1
      <4>2. j < k => w[j].Num >= 1 /\ a[k].Node < a[j].Node
        BY <1>1, <1>4, <1>5
      <4> QED  BY <4>1, <4>2
    <3>5. a[j].Node \in Int /\ a[k].Node \in Int
      BY <1>1, <1>7
    <3> QED  BY <3>1, <3>2, <3>3, <3>4, <3>5 DEF Removed
  <2>2. CASE ~\E j \in 1..k : a[j].Node = n
    <3>1. n \in DOMAIN G <=> n \in DOMAIN F
      BY <1>8, <2>2
    <3>2. n \in DOMAIN F => G[n] = F[n]
      BY <1>8, <2>2
    <3> QED  BY <1>1, <2>2, <3>1, <3>2 DEF Removed
  <2> QED  BY <2>1, <2>2
<1>10. Closed(G)
  <2>1. DOMAIN G \subseteq Inner
    BY <1>2, <1>8 DEF Tree, Closed
  <2>2. ASSUME NEW n \in DOMAIN G, NEW m \in Inner, n < m, Over(m, n) PROVE m \in DOMAIN G
    <3>1. CASE n \in DOMAIN F
      BY <1>8, <2>2, <3>1 DEF Tree, Closed
    <3>2. CASE n \notin DOMAIN F
      <4>1. Under(leaf, n)
        BY <1>2, <1>8, <3>2
      <4>2. Under(leaf, m)
        BY <2>1, <2>2, <4>1, InnerIs, UnderOver
      <4>3. CASE Removed(F, m)
        BY <1>8, <4>3 DEF Removed
      <4>4. CASE ~Removed(F, m)
        BY <1>2, <1>8, <4>2, <4>4
      <4> QED  BY <4>3, <4>4
    <3> QED  BY <3>1, <3>2
  <2> QED  BY <2>1, <2>2 DEF Closed
<1>11. \A n \in DOMAIN G : G[n].Node = n
  <2> TAKE n \in DOMAIN G
  <2>1. CASE \E j \in 1..k : a[j].Node = n
    BY <1>4, <1>8, <2>1
  <2>2. CASE ~\E j \in 1..k : a[j].Node = n
    BY <1>8, <2>2 DEF Tree
  <2> QED  BY <2>1, <2>2
<1>12. ASSUME NEW n \in DOMAIN G, G[n].Num # -1 PROVE Sound(G[n], G, gone \cup {leaf})
  <2>1. CASE \E j \in 1..k : a[j].Node = n
    <3>1. PICK j \in 1..k : a[j].Node = n
      BY <2>1
    <3>2. G[n] = w[j] /\ w[j].Node = a[j].Node
      BY <1>4, <1>8, <3>1
    <3>3. j < k
      BY <1>1, <1>3, <1>12, <3>2
    <3>4. CASE j < k - 1
      <4>1. w[j].l = a[j].l /\ w[j].r = a[j].r
        BY <1>3, <3>4
      <4>2. \A c \in {a[j].l, a[j].r} : ~Removed(G, c)
        <5> TAKE c \in {a[j].l, a[j].r}
        <5>1. ~Removed(F, c)
          BY <1>2 DEF Sound, Hung
        <5>2. c # p.Node
          <6>1. j # k /\ j + 1 \in 1..k /\ j + 1 < k
            BY <1>1, <3>4
          <6>2. Under(leaf, c) => c = a[j + 1].Node
            BY <1>6, <6>1
          <6>3. a[k].Node < a[j + 1].Node /\ a[k].Node \in Int /\ a[j + 1].Node \in Int
            BY <1>1, <1>5, <1>7, <6>1
          <6>4. Under(leaf, p.Node)
            BY <1>1, <1>2
          <6> QED  BY <6>2, <6>3, <6>4
        <5> QED  BY <1>9, <5>1, <5>2
      <4>3. Sound(a[j], F, gone)
        BY <1>2
      <4>4. Sound(w[j], G, gone \cup {leaf})
        <5> DEFINE x == a[j]
                   y == w[j]
        <5>1. /\ Sound(x, F, gone) /\ y.Node = x.Node /\ y.l = x.l /\ y.r = x.r
              /\ ~Removed(G, x.l) /\ ~Removed(G, x.r)
          BY <3>2, <4>1, <4>2, <4>3
        <5>2. \A m : Removed(F, m) => Removed(G, m)
          BY <1>9
        <5> HIDE DEF x, y, F, p
        <5>3. Sound(y, G, gone \cup {leaf})
          BY <5>1, <5>2, StaysSound
        <5> QED  BY <5>3 DEF y
      <4> QED  BY <3>2, <4>4
    <3>5. CASE ~(j < k - 1)
      <4>1. k >= 2 /\ j = k - 1 /\ j + 1 = k /\ j # k
        BY <1>1, <3>3, <3>5
      <4> DEFINE g == a[j]
                 s == IF p.l = leaf THEN p.r ELSE p.l
                 x == w[j]
      <4>2. Sibling(p, leaf).n = s
        BY DEF Sibling
      <4>3. /\ x.l = IF g.l = p.Node THEN s ELSE g.l
            /\ x.r = IF g.l = p.Node THEN g.r ELSE s
            /\ x.Node = g.Node
        BY <1>3, <3>2, <4>1, <4>2
      <4>4. /\ Sound(g, F, gone) /\ g.Node \in Inner /\ Under(leaf, g.Node)
            /\ Sound(p, F, gone) /\ p.Node \in Inner /\ Under(leaf, p.Node)
            /\ p.Node < g.Node /\ p.l < p.Node /\ p.r < p.Node
        BY <1>1, <1>2, <1>5, <1>7, <3>3
      <4>5. /\ \A c \in {g.l, g.r} : Under(leaf, c) => c = p.Node
            /\ \A c \in {p.l, p.r} : Under(leaf, c) => c = leaf
        BY <1>1, <1>6, <4>1
      <4> HIDE DEF F, g, s, x, p
      <4>6. Sound(x, G, gone \cup {leaf})
        BY <1>9, <4>3, <4>4, <4>5, Spliced DEF s
      <4> QED  BY <3>2, <4>6 DEF x
    <3> QED  BY <3>4, <3>5
  <2>2. CASE ~\E j \in 1..k : a[j].Node = n
    <3>1. n \in DOMAIN F /\ G[n] = F[n] /\ n \in Inner
      BY <1>8, <1>10, <2>2 DEF Closed
    <3>2. Sound(F[n], F, gone) /\ F[n].Node = n /\ ~Removed(F, n)
      BY <1>12, <3>1 DEF Tree, Removed
    <3>3. ~Under(leaf, n)
      BY <1>2, <2>2, <3>1, <3>2
    <3>4. \A c \in {F[n].l, F[n].r} : ~Removed(G, c)
      <4> TAKE c \in {F[n].l, F[n].r}
      <4>1. Hung(F[n], c, F) /\ c \in Nodes
        BY <3>2 DEF Sound, Covering
      <4>2. c # p.Node
        <5>1. Under(leaf, c) => Under(leaf, n)
          <6>1. n \in Nodes
            BY <3>1, InnerIs
          <6> QED  BY <3>2, <4>1, <6>1, UnderOver DEF Hung
        <5>2. Under(leaf, p.Node)
          BY <1>1, <1>2
        <5> QED  BY <3>3, <5>1, <5>2
      <4> QED  BY <1>9, <4>1, <4>2 DEF Hung
    <3>5. \A m : Removed(F, m) => Removed(G, m)
      BY <1>9
    <3> DEFINE x == F[n]
    <3>6. Sound(x, F, gone) /\ ~Removed(G, x.l) /\ ~Removed(G, x.r)
      BY <3>2, <3>4
    <3> HIDE DEF x, F, p
    <3>7. Sound(x, G, gone \cup {leaf})
      BY <3>5, <3>6, StaysSound
    <3> QED  BY <3>1, <3>7 DEF x
  <2> QED  BY <2>1, <2>2
<1> QED  BY <1>10, <1>11, <1>12 DEF Tree, G

-----------------------------------------------------------------------------
\* No deletion was cut short, no document deleted that was not there, and no
\* leaf of a deleted document went to another.
Sane == ~hist.torn /\ ~hist.again /\ ~hist.reused

\* The leaves of the deletions that have been worked out.
Gone == {OD_del[x] : x \in hist.deleted \ (IF pc = "delRead" THEN {id} ELSE {})}

\* OD_del knows every document asked for, and the leaf of every update counted.
Mapped ==
  /\ hist.deleted \subseteq DOMAIN OD_del
  /\ \A j \in 1..STw.cnt_i : hist.docs[j] \in DOMAIN OD_del /\ OD_del[hist.docs[j]] = j
  /\ pc = "addSend" => id \in DOMAIN OD_del /\ OD_del[id] = STw.cnt_i + 1

\* The update at a deleted document's leaf is that document; the deletion under
\* way is of an update that is still there.
Owned ==
  /\ \A x \in hist.deleted : OD_del[x] <= STw.cnt_i => hist.docs[OD_del[x]] \in hist.deleted
  /\ pc = "delRead" => id \in hist.deleted /\ OD_del[id] <= STw.cnt_i /\ OD_del[id] \notin Gone

\* A search starts from a node over all updates.
Rooted(s) == s.cnt_i > 0 => s.sn \in Nodes /\ lln(s.sn) = 1 /\ s.cnt_i <= rln(s.sn)

\* How far the nodes of a deletion have arrived.
Arriving ==
  /\ pc # "del" => ins = <<>> /\ sent = [tree |-> 0, entry |-> 0]
  /\ sent.tree <= Len(ins)
  /\ \A i, j \in 1..Len(ins) : i < j => ins[j].Node < ins[i].Node
  /\ \A j \in 1..sent.tree : ins[j].Node \in DOMAIN OD_tree /\ OD_tree[ins[j].Node] = ins[j]

\* The tree a deletion leaves leads to all that is left, and so does the one it
\* found while none of its nodes has arrived.
Trees == /\ Tree(Overlay(OD_tree, ins), Gone)
         /\ sent = [tree |-> 0, entry |-> 0] => Tree(OD_tree, Gone)

\* Every entry of a node, of whatever deletion and under whatever key, leads to
\* all that is left under the node.
Whole == \A l \in DOMAIN EDB : l[1] > N =>
           EDB[l].c \in Links /\ EDB[l].c.Node = l[1] /\ Covering(EDB[l].c, Gone)

\* The updates a search counts are chained under its key.
Straight ==
  \A i \in 1..srv.cnt_i :
    EDB[Leaf(i, srv.K)] = [c |-> Doc(hist.docs[i]),
                           d |-> [h |-> i, to |-> IF i = 1 THEN NoLabel ELSE Leaf(i - 1, srv.K)]]

\* Update i has been returned, or is under a node of the queue, or is still
\* ahead on the walk under way.
Pending(i) ==
  \/ \E j \in 1..Len(srv.R) : srv.R[j] = Doc(hist.docs[i])
  \/ \E j \in 1..Len(srv.q) : Under(i, srv.q[j][1])
  \/ srv.lln <= i /\ i <= srv.k

\* The search has lost nothing that is left.
Answering ==
  /\ srv.q \in Seq(Int \X Int) /\ srv.R \in Seq(Cells) /\ srv.C \in Cells
  /\ srv.cnt_i = STw.cnt_i
  /\ SameKey /\ srv.cnt_i > 0 =>
       /\ Straight
       /\ \A j \in 1..Len(srv.q) : srv.q[j][1] \in Nodes
       /\ srv.lln \in Int /\ srv.k \in Int
       /\ Walking => srv.lln >= 1 /\ srv.k \in 1..srv.cnt_i /\ srv.L = Leaf(srv.k, srv.K)
       /\ \A i \in (1..srv.cnt_i) \ Gone : Pending(i)

Leading == Owned /\ Rooted(STw) /\ Rooted(Saved) /\ Trees /\ Whole /\ (pc = "search" => Answering)
LInv == EInv /\ Mapped /\ Arriving /\ (Sane => Leading)

\* Trees that agree on every node.
LEMMA TreeLike ==
  ASSUME NEW F, NEW G, DOMAIN G = DOMAIN F, \A n \in DOMAIN F : G[n] = F[n],
         NEW gone, Tree(F, gone)
  PROVE  Tree(G, gone)
<1>1. \A n : Removed(G, n) <=> Removed(F, n)
  BY DEF Removed
<1>2. \A x : Sound(x, F, gone) => Sound(x, G, gone)
  BY <1>1 DEF Sound, Hung
<1> QED  BY <1>2 DEF Tree, Closed

\* A tree leads to what is left when more is gone.
LEMMA TreeGrows ==
  ASSUME NEW F, NEW gone, NEW gone2, gone \subseteq gone2, Tree(F, gone)
  PROVE  Tree(F, gone2)
<1>1. \A x : Sound(x, F, gone) => Sound(x, F, gone2)
  BY DEF Sound, Covering
<1> QED  BY <1>1 DEF Tree

\* Nothing is written over a tree that has it already.
LEMMA OverlaySame ==
  ASSUME NEW T, NEW w, NEW k, Falling(w, k),
         \A j \in 1..k : w[j].Node \in DOMAIN T /\ T[w[j].Node] = w[j]
  PROVE  DOMAIN Overlay(T, w) = DOMAIN T /\ \A n \in DOMAIN T : Overlay(T, w)[n] = T[n]
<1>1. Overlaid(T, w, k, Overlay(T, w))
  BY OverlayIs
<1>2. \A n : Wrote(w, n) <=> \E j \in 1..k : w[j].Node = n
  BY DEF Wrote, Falling
<1>3. \A n : n \in DOMAIN Overlay(T, w) <=> n \in DOMAIN T
  BY <1>1, <1>2 DEF Overlaid
<1>4. \A n \in DOMAIN T : Overlay(T, w)[n] = T[n]
  BY <1>1, <1>2 DEF Overlaid
<1> HIDE DEF Overlay
<1> QED  BY <1>3, <1>4

LEMMA NothingWritten ==
  ASSUME NEW T, NEW gone
  PROVE  Tree(Overlay(T, <<>>), gone) <=> Tree(T, gone)
<1>1. Falling(<<>>, 0)
  BY DEF Falling
<1>2. DOMAIN Overlay(T, <<>>) = DOMAIN T /\ \A n \in DOMAIN T : Overlay(T, <<>>)[n] = T[n]
  BY <1>1, OverlaySame
<1> HIDE DEF Overlay
<1> QED  BY <1>2, TreeLike

\* The nodes of a deletion, from the root down.
LEMMA InsFall == ASSUME LInv PROVE Falling(ins, Len(ins))
<1>1. ins \in Seq(Links)
  BY DEF LInv, EInv, DInv, Writing
<1>2. \A j \in 1..Len(ins) : ins[j].Node \in Int
  <2> TAKE j \in 1..Len(ins)
  <2>1. ins[j] \in Links
    BY <1>1
  <2>2. ins[j].Node \in (N + 1)..(2 * N - 1)
    BY <2>1 DEF Links
  <2> QED  BY <2>2, Size
<1> QED  BY <1>1, <1>2 DEF LInv, Arriving, Falling

LEMMA InitLInv == Init => LInv
<1> SUFFICES ASSUME Init PROVE LInv
  OBVIOUS
<1>1. EInv
  BY InitEInv
<1> USE DEF Init
<1>2. STw = NewST /\ Saved = NewST /\ DOMAIN EDB = {} /\ DOMAIN OD_tree = {} /\ hist.deleted = {} /\ Len(ins) = 0
  BY DEF STw, Known, Saved
<1>3. Mapped
  BY <1>2 DEF Mapped, NewST
<1>4. Arriving
  BY <1>2 DEF Arriving
<1>5. Owned
  BY <1>2 DEF Owned
<1>6. Rooted(STw) /\ Rooted(Saved)
  BY <1>2 DEF Rooted, NewST
<1>7. Tree(OD_tree, Gone)
  BY <1>2 DEF Tree, Closed
<1>8. Trees
  BY <1>7, NothingWritten DEF Trees
<1>9. Whole
  BY <1>2 DEF Whole
<1> QED  BY <1>1, <1>3, <1>4, <1>5, <1>6, <1>8, <1>9 DEF LInv, Leading

\* A step that ends what was under way, and moves ST between memory and the
\* database.
LEMMA SettledLInv ==
  ASSUME LInv, EInv', UNCHANGED <<id, OD_del, OD_tree, EDB>>, pc' \in {"off", "ready"},
         ST' \in {ST, db}, db' \in {ST, db}, (ST' = ST /\ db' = db) \/ ST' = db',
         ins' = <<>>, sent' = [tree |-> 0, entry |-> 0],
         hist'.docs = hist.docs, hist'.deleted = hist.deleted,
         Sane' => Sane /\ (sent = [tree |-> 0, entry |-> 0] \/ sent.tree = Len(ins))
  PROVE  LInv'
<1> USE DEF LInv
<1>1. STw \in STs /\ Saved \in STs
  BY Entries DEF EInv, DInv
<1>2. STw' \in {STw, Saved} /\ Saved' \in {STw, Saved}
  BY DEF STw, Saved, Known
<1>3. STw.cnt_i \in Nat /\ STw'.cnt_i \in Nat /\ STw'.cnt_i <= STw.cnt_i
  BY <1>1, <1>2, Size, BoundsAssumption DEF STs, EInv, Behind
<1>4. Mapped'
  BY <1>3 DEF Mapped
<1>5. Arriving'
  <2>1. Len(ins') = 0 /\ sent'.tree = 0 /\ pc' # "del"
    OBVIOUS
  <2> QED  BY <2>1 DEF Arriving
<1>6. ASSUME Sane' PROVE Leading'
  <2> USE DEF Leading
  <2>1. Sane /\ Leading
    BY <1>6
  <2>2. Gone \subseteq Gone'
    BY DEF Gone
  <2>3. Owned'
    <3>1. \A x \in hist.deleted : OD_del[x] \in Int
      BY Size, BoundsAssumption DEF Mapped, EInv, DInv, TypeOK
    <3>2. \A x \in hist.deleted : OD_del[x] <= STw'.cnt_i => OD_del[x] <= STw.cnt_i
      BY <1>3, <3>1
    <3> QED  BY <2>1, <3>2 DEF Owned
  <2>4. Rooted(STw)' /\ Rooted(Saved)'
    BY <1>2, <2>1 DEF Rooted
  <2>5. Tree(OD_tree, Gone)
    <3>1. CASE sent = [tree |-> 0, entry |-> 0]
      BY <2>1, <3>1 DEF Trees
    <3>2. CASE sent.tree = Len(ins)
      <4>1. Falling(ins, Len(ins))
        BY InsFall
      <4>2. \A j \in 1..Len(ins) : ins[j].Node \in DOMAIN OD_tree /\ OD_tree[ins[j].Node] = ins[j]
        BY <3>2 DEF Arriving
      <4>3. /\ DOMAIN Overlay(OD_tree, ins) = DOMAIN OD_tree
            /\ \A n \in DOMAIN OD_tree : Overlay(OD_tree, ins)[n] = OD_tree[n]
        BY <4>1, <4>2, OverlaySame
      <4>4. Tree(Overlay(OD_tree, ins), Gone)
        BY <2>1 DEF Trees
      <4> HIDE DEF Overlay
      <4> QED  BY <4>3, <4>4, TreeLike
    <3> QED  BY <1>6, <3>1, <3>2
  <2>6. Trees'
    <3>1. Tree(OD_tree', Gone')
      BY <2>2, <2>5, TreeGrows
    <3>2. Tree(Overlay(OD_tree', <<>>), Gone')
      BY <3>1, NothingWritten
    <3> QED  BY <3>1, <3>2 DEF Trees
  <2>7. Whole'
    BY <2>1, <2>2 DEF Whole, Covering
  <2> QED  BY <2>3, <2>4, <2>6, <2>7
<1> QED  BY <1>4, <1>5, <1>6

\* Between operations no stream of a deletion is under way.
LEMMA SettledSteps ==
  ASSUME LInv, EInv', Start \/ Exit \/ Kill \/ DelCrash \/ DelEnd \/ SearchEnd
  PROVE  LInv'
<1>1. pc # "del" => ins = <<>> /\ sent = [tree |-> 0, entry |-> 0]
  BY DEF LInv, Arriving
<1>2. CASE Start
  BY <1>1, <1>2, SettledLInv DEF Start, Sane, server
<1>3. CASE Exit
  BY <1>1, <1>3, SettledLInv DEF Exit, Sane, server
<1>4. CASE DelCrash
  BY <1>1, <1>4, SettledLInv DEF DelCrash, Lose, Sane, server
<1>5. CASE DelEnd
  BY <1>5, SettledLInv DEF DelEnd, Sane, server
<1>6. CASE SearchEnd
  BY <1>1, <1>6, SettledLInv DEF SearchEnd, Answered, Sane, server
<1>7. CASE Kill
  <2>1. /\ hist'.docs = hist.docs /\ hist'.deleted = hist.deleted /\ hist'.again = hist.again
        /\ hist'.reused = hist.reused /\ hist'.torn = (hist.torn \/ Torn)
    BY <1>7 DEF Kill, Lose, LInv, EInv, DInv, Fields
  <2>2. Sane' => Sane /\ sent = [tree |-> 0, entry |-> 0]
    BY <1>1, <2>1 DEF Sane, Torn
  <2> QED  BY <1>7, <2>1, <2>2, SettledLInv DEF Kill, Lose, server
<1> QED  BY <1>2, <1>3, <1>4, <1>5, <1>6, <1>7

LEMMA AddFindLInv == ASSUME LInv, EInv', AddFind PROVE LInv'
<1> USE DEF LInv, AddFind
<1>2. UNCHANGED <<OD_del, OD_tree, EDB, hist, ins, sent, ST, db>> /\ pc' = "addInsert" /\ pc = "ready"
  BY DEF server
<1>1a. Gone' = Gone
  BY <1>2 DEF Gone
<1>1. Gone' = Gone /\ STw' = STw /\ Saved' = Saved
  BY <1>2, <1>1a DEF STw, Saved, Known
<1>3. Mapped'
  BY <1>1, <1>2 DEF Mapped
<1>4. Arriving'
  BY <1>2 DEF Arriving
<1>5. ASSUME Sane' PROVE Leading'
  <2>1. Sane /\ Leading
    BY <1>2, <1>5 DEF Sane
  <2>2. Owned' /\ Rooted(STw)' /\ Rooted(Saved)'
    BY <1>1, <1>2, <2>1 DEF Owned, Rooted, Leading
  <2>3. Trees' /\ Whole'
    BY <1>1, <1>2, <2>1 DEF Trees, Whole, Leading
  <2> QED  BY <1>2, <2>2, <2>3 DEF Leading
<1> QED  BY <1>3, <1>4, <1>5

\* The document an addition registers is not one of those deleted.
LEMMA AddInsertLInv == ASSUME LInv, EInv', AddInsert PROVE LInv'
<1> USE DEF LInv
<1>1. PICK n \in 0..MaxIds : /\ DOMAIN OD_del = 1..n /\ id = n + 1 /\ STw.cnt_i <= n
  BY DEF AddInsert, EInv, DInv, Filled
<1>2. /\ UNCHANGED <<OD_tree, EDB, hist, ins, sent, ST, db, id>> /\ pc' = "addSend" /\ pc = "addInsert"
      /\ OD_del' = Put(OD_del, id, STw.cnt_i + 1)
  BY DEF AddInsert
<1>3. STw' = STw /\ Saved' = Saved
  BY <1>2 DEF STw, Saved, Known
<1>4. n \in Nat /\ id \notin DOMAIN OD_del
  BY <1>1, Size, BoundsAssumption
<1>5. /\ DOMAIN OD_del' = DOMAIN OD_del \cup {id} /\ OD_del'[id] = STw.cnt_i + 1
      /\ \A x \in DOMAIN OD_del : OD_del'[x] = OD_del[x]
  BY <1>2, <1>4 DEF Put
<1>6. Mapped
  OBVIOUS
<1>7. Mapped'
  BY <1>2, <1>3, <1>5, <1>6 DEF Mapped
<1>8. Gone' = Gone
  BY <1>2, <1>5, <1>6 DEF Gone, Mapped
<1>9. Arriving'
  BY <1>2 DEF Arriving
<1>10. ASSUME Sane' PROVE Leading'
  <2>1. Sane /\ Leading
    BY <1>2, <1>10 DEF Sane
  <2>2. Owned' /\ Rooted(STw)' /\ Rooted(Saved)'
    BY <1>2, <1>3, <1>5, <1>6, <2>1 DEF Owned, Rooted, Leading, Mapped
  <2>3. Trees' /\ Whole'
    BY <1>2, <1>8, <2>1 DEF Trees, Whole, Leading
  <2> QED  BY <1>2, <2>2, <2>3 DEF Leading
<1> QED  BY <1>7, <1>9, <1>10

\* An addition takes the leaf after the last, which no deleted document has.
LEMMA AddSendLInv == ASSUME LInv, EInv', AddSend PROVE LInv'
<1> USE DEF LInv
<1> DEFINE c == STw.cnt_i + 1
           K == IF Known THEN ST.K ELSE hist.keys + 1
<1>1. /\ STw.cnt_i \in Nat /\ c \in 1..N
      /\ STw.cnt_i <= Len(hist.docs) /\ hist.docs \in Seq(0..MaxIds)
  <2>1. STw.cnt_i \in Nat
    BY Entries DEF EInv, DInv, STs
  <2>2. PICK n \in 0..MaxIds : STw.cnt_i < n
    BY DEF AddSend, EInv, DInv, Filled
  <2> QED  BY <2>1, <2>2, Size, BoundsAssumption DEF EInv, Behind
<1>2. /\ UNCHANGED <<OD_del, OD_tree, ins, sent, db, id>> /\ pc = "addSend" /\ pc' = "ready"
      /\ ST'.cnt_i = c /\ ST'.sn = getSn(c) /\ ST' # <<>>
      /\ EDB' = Put(EDB, Leaf(c, K), [c |-> Doc(id), d |-> [h |-> c, to |-> STw.lastL]])
  BY DEF AddSend
<1>3. STw' = ST' /\ Saved' = Saved
  BY <1>2 DEF STw, Saved, Known
<1>4. /\ hist'.docs = Append(SubSeq(hist.docs, 1, c - 1), id)
      /\ hist'.deleted = hist.deleted /\ hist'.torn = hist.torn /\ hist'.again = hist.again
      /\ hist'.reused = (hist.reused \/ \E i \in hist.deleted : OD_del[i] = c)
  <2> DEFINE docs == Append(SubSeq(hist.docs, 1, c - 1), id)
             mixed == hist.mixed \/ hist.deleted # {}
             reused == hist.reused \/ \E i \in hist.deleted : OD_del[i] = c
             keys == IF Known THEN hist.keys ELSE K
  <2>1. hist' = [hist EXCEPT !.keys = keys, !.docs = docs, !.mixed = mixed, !.reused = reused]
    BY DEF AddSend
  <2>2. Fields
    BY DEF EInv, DInv
  <2>3. hist \in [docs : {hist.docs}, deleted : {hist.deleted}, dels : {hist.dels}, mixed : {hist.mixed},
                  again : {hist.again}, torn : {hist.torn}, reused : {hist.reused}, keys : {hist.keys}, kills : {hist.kills}]
    BY <2>2 DEF Fields
  <2> HIDE DEF docs, mixed, reused, keys
  <2>4. /\ hist'.docs = docs /\ hist'.deleted = hist.deleted /\ hist'.torn = hist.torn
        /\ hist'.again = hist.again /\ hist'.reused = reused
    BY <2>1, <2>3
  <2> QED  BY <2>4 DEF docs, reused
<1>5. hist'.docs[c] = id /\ \A j \in 1..STw.cnt_i : hist'.docs[j] = hist.docs[j]
  <2>1. c - 1 = STw.cnt_i /\ STw.cnt_i \in 0..Len(hist.docs)
    BY <1>1
  <2>2. /\ SubSeq(hist.docs, 1, c - 1) \in Seq(0..MaxIds) /\ Len(SubSeq(hist.docs, 1, c - 1)) = STw.cnt_i
        /\ \A i \in 1..STw.cnt_i : SubSeq(hist.docs, 1, c - 1)[i] = hist.docs[i]
    <3>1. /\ SubSeq(hist.docs, 1, STw.cnt_i) \in Seq(0..MaxIds)
          /\ Len(SubSeq(hist.docs, 1, STw.cnt_i)) = STw.cnt_i
          /\ \A i \in 1..STw.cnt_i : SubSeq(hist.docs, 1, STw.cnt_i)[i] = hist.docs[i]
      BY <1>1, <2>1, Prefix
    <3> HIDE DEF c
    <3> QED  BY <2>1, <3>1
  <2>3. id \in 0..MaxIds
    BY DEF EInv, DInv, TypeOK
  <2> HIDE DEF c
  <2> QED  BY <1>1, <1>4, <2>1, <2>2, <2>3
<1>6. Mapped'
  <2>1. \A j \in 1..c : hist'.docs[j] \in DOMAIN OD_del /\ OD_del[hist'.docs[j]] = j
    BY <1>1, <1>2, <1>5 DEF Mapped
  <2> QED  BY <1>2, <1>3, <1>4, <2>1 DEF Mapped
<1>7. Arriving'
  BY <1>2 DEF Arriving
<1>8. ASSUME Sane' PROVE Leading'
  <2>1. Sane /\ Leading /\ \A x \in hist.deleted : OD_del[x] # c
    BY <1>4, <1>8 DEF Sane
  <2>2. Gone' = Gone
    BY <1>2, <1>4 DEF Gone
  <2>3. Owned'
    <3>1. \A x \in hist.deleted : OD_del[x] \in Nat \ {0}
      BY BoundsAssumption, Size DEF Mapped, EInv, DInv, TypeOK
    <3>2. \A x \in hist.deleted : OD_del[x] <= c => hist'.docs[OD_del[x]] \in hist.deleted
      <4> TAKE x \in hist.deleted
      <4> HAVE OD_del[x] <= c
      <4>1. OD_del[x] \in 1..STw.cnt_i
        BY <1>1, <2>1, <3>1
      <4> HIDE DEF c
      <4> QED  BY <1>5, <2>1, <4>1 DEF Leading, Owned
    <3> QED  BY <1>2, <1>3, <1>4, <3>2 DEF Owned
  <2>4. Rooted(STw)' /\ Rooted(Saved)'
    <3>1. getSn(c) \in Nodes /\ lln(getSn(c)) = 1 /\ c <= rln(getSn(c))
      BY <1>1, SnIs, SnCovers DEF Nodes
    <3> QED  BY <1>2, <1>3, <2>1, <3>1 DEF Rooted, Leading
  <2>5. Trees'
    BY <1>2, <2>1, <2>2 DEF Trees, Leading
  <2>6. Whole'
    <3>1. \A l \in DOMAIN EDB' : l[1] > N => l \in DOMAIN EDB /\ EDB'[l] = EDB[l]
      BY <1>1, <1>2, Size DEF Put, Leaf
    <3> QED  BY <2>1, <2>2, <3>1 DEF Whole, Leading
  <2> QED  BY <1>2, <2>3, <2>4, <2>5, <2>6 DEF Leading
<1> QED  BY <1>6, <1>7, <1>8

\* A document that is still there has a leaf of its own.
LEMMA DelFindLInv == ASSUME LInv, EInv', NEW i \in 1..MaxIds, DelFind(i) PROVE LInv'
<1> USE DEF LInv
<1>1. /\ UNCHANGED <<OD_del, OD_tree, EDB, ins, sent, ST, db>> /\ pc = "ready" /\ pc' = "delRead" /\ id' = i
      /\ i \in DOMAIN OD_del
  BY DEF DelFind, server
<1>2. /\ hist'.docs = hist.docs /\ hist'.deleted = hist.deleted \cup {i}
      /\ hist'.torn = hist.torn /\ hist'.reused = hist.reused
      /\ hist'.again = (hist.again \/ i \notin Live(STw.cnt_i))
  BY DEF DelFind, EInv, DInv, Fields
<1>3. STw' = STw /\ Saved' = Saved
  BY <1>1 DEF STw, Saved, Known
<1>4. Mapped'
  BY <1>1, <1>2, <1>3 DEF Mapped
<1>5. Arriving'
  BY <1>1 DEF Arriving
<1>6. ASSUME Sane' PROVE Leading'
  <2>1. Sane /\ Leading /\ i \in Live(STw.cnt_i)
    BY <1>2, <1>6 DEF Sane
  <2>2. i \notin hist.deleted /\ \E j \in 1..STw.cnt_i : hist.docs[j] = i
    <3>1. STw.cnt_i \in 0..Len(hist.docs) /\ hist.docs \in Seq(0..MaxIds)
      BY Entries DEF EInv, DInv, STs, Behind
    <3> DEFINE s == SubSeq(hist.docs, 1, STw.cnt_i)
    <3>2. /\ s \in Seq(0..MaxIds) /\ Len(s) = STw.cnt_i
          /\ \A j \in 1..STw.cnt_i : s[j] = hist.docs[j]
      BY <3>1, Prefix
    <3>3. i \notin hist.deleted /\ i \in Docs(s)
      BY <2>1 DEF Live
    <3> HIDE DEF s
    <3>4. \E j \in 1..STw.cnt_i : s[j] = i
      BY <3>2, <3>3 DEF Docs
    <3> QED  BY <3>2, <3>3, <3>4
  <2>3. OD_del[i] \in 1..STw.cnt_i /\ hist.docs[OD_del[i]] = i
    BY <2>2 DEF Mapped
  <2>4. Gone' = Gone
    BY <1>1, <1>2, <2>2 DEF Gone
  <2>5. OD_del[i] \notin Gone
    <3>1. STw.cnt_i \in Nat
      BY Entries DEF EInv, DInv, STs
    <3>2. ASSUME NEW x \in hist.deleted, OD_del[x] = OD_del[i] PROVE FALSE
      BY <2>1, <2>2, <2>3, <3>1, <3>2 DEF Leading, Owned
    <3> QED  BY <1>1, <3>2 DEF Gone
  <2>6. Owned'
    BY <1>1, <1>2, <1>3, <2>1, <2>3, <2>4, <2>5 DEF Owned, Leading
  <2>7. Rooted(STw)' /\ Rooted(Saved)'
    BY <1>3, <2>1 DEF Rooted, Leading
  <2>8. Trees' /\ Whole'
    BY <1>1, <2>1, <2>4 DEF Trees, Whole, Leading
  <2> QED  BY <1>1, <2>6, <2>7, <2>8 DEF Leading
<1> QED  BY <1>4, <1>5, <1>6

\* The nodes a deletion will write make a tree without its leaf, and the node a
\* search starts from moves up to one that is still over all updates.
LEMMA DelReadLInv == ASSUME LInv, EInv', DelRead PROVE LInv'
<1> USE DEF LInv
<1> DEFINE leaf == OD_del[id]
           a == Ancestors(leaf)
           w == Written(a, leaf)
           k == Len(a)
           e == hist.dels - 1
<1>1. /\ UNCHANGED <<OD_del, OD_tree, EDB, hist, sent, db, id>> /\ pc = "delRead" /\ pc' = "del"
      /\ ins' = w /\ a # <<>>
      /\ ST' = IF k < 2 THEN STw
               ELSE [STw EXCEPT !.cnt_d = @ + 1, !.sn = IF a[k - 1].Node > @ THEN a[k - 1].Node ELSE @]
  BY DEF DelRead, server
<1>2. /\ STw \in STs /\ Saved' = Saved /\ STw' = ST'
  BY Zenon, <1>1, Entries DEF EInv, DInv, Saved, STw, Known, Writing
<1>3. STw'.cnt_i = STw.cnt_i /\ STw.cnt_i \in Nat /\ STw.sn \in Int
  BY <1>1, <1>2 DEF STs
<1>4. leaf \in 1..N /\ id \in DOMAIN OD_del
  <2>1. id \in DOMAIN OD_del
    BY <1>1 DEF EInv, DInv, Filled
  <2> QED  BY <2>1, Size, BoundsAssumption DEF EInv, DInv, TypeOK
<1>5. e \in Nat /\ e + 1 <= MaxDeletes /\ e + 1 \in Nat /\ TreeOf(e)
  <2>1. Done = e /\ hist.dels \in 0..MaxDeletes /\ Done >= 0
    BY <1>1 DEF Done, EInv, DInv, Limits, Counted
  <2>2. TreeOf(Done)
    BY TreeIs DEF EInv
  <2> QED  BY <2>1, <2>2, BoundsAssumption
<1>6. Descent(a, e)
  <2> HIDE DEF leaf, e
  <2> QED  BY <1>4, <1>5, AncestorsDescend
<1>7. /\ w \in Seq(Links) /\ Len(w) = k /\ k \in Nat
      /\ \A j \in 1..k : w[j].Node = a[j].Node
  <2>1. a \in Seq(Links)
    BY <1>6 DEF Descent
  <2> HIDE DEF leaf, e, a
  <2>2. w \in Seq(Links) /\ Len(w) = Len(a) /\ \A j \in 1..Len(a) : w[j].Node = a[j].Node
    BY <1>5, <1>6, WrittenIs
  <2> QED  BY <2>1, <2>2
<1>8. Mapped'
  BY <1>1, <1>3 DEF Mapped
<1> HIDE DEF w
<1>9. Arriving'
  <2>1. \A i, j \in 1..k : i < j => w[j].Node < w[i].Node
    BY <1>6, <1>7 DEF Descent
  <2>2. sent'.tree = 0
    BY <1>1 DEF Arriving
  <2> QED  BY <1>1, <1>7, <2>1, <2>2 DEF Arriving
<1>10. ASSUME Sane' PROVE Leading'
  <2>1. Sane /\ Leading
    BY <1>1, <1>10 DEF Sane
  <2>2. id \in hist.deleted /\ leaf <= STw.cnt_i /\ leaf \notin Gone
    BY <1>1, <2>1 DEF Leading, Owned
  <2>3. Gone' = Gone \cup {leaf}
    BY <1>1, <2>2 DEF Gone
  <2>4. Tree(OD_tree, Gone)
    BY <1>1, <2>1 DEF Leading, Trees, Arriving
  <2>5. Tree(Overlay(OD_tree, w), Gone \cup {leaf})
    <3> HIDE DEF a, leaf, e
    <3>1. a = Ancestors(leaf) /\ w = Written(a, leaf)
      BY DEF a, w
    <3> QED  BY <1>1, <1>4, <1>5, <1>6, <2>2, <2>4, <3>1, WrittenTree
  <2>6. Trees'
    <3>1. Tree(OD_tree, Gone \cup {leaf})
      BY <2>4, TreeGrows
    <3> QED  BY <1>1, <2>3, <2>5, <3>1 DEF Trees
  <2>7. Owned'
    BY <1>1, <1>3, <2>1 DEF Owned, Leading
  <2>8. Whole'
    BY <1>1, <2>1, <2>3 DEF Whole, Leading, Covering
  <2>9. Rooted(STw)' /\ Rooted(Saved)'
    <3>1. CASE k < 2 \/ ~(a[k - 1].Node > STw.sn)
      <4>1. STw'.sn = STw.sn
        BY <1>1, <1>2, <3>1 DEF STs
      <4> QED  BY <1>2, <1>3, <2>1, <4>1 DEF Rooted, Leading
    <3>2. CASE k >= 2 /\ a[k - 1].Node > STw.sn
      <4> DEFINE m == a[k - 1].Node
      <4>1. STw'.sn = m
        BY <1>1, <1>2, <1>7, <3>2 DEF STs
      <4>2. k - 1 \in 1..k
        BY <1>7, <3>2
      <4>3. m \in Inner /\ Under(leaf, m)
        <5> HIDE DEF leaf
        <5>1. a = Ancestors(leaf)
          OBVIOUS
        <5> HIDE DEF a
        <5> QED  BY <1>4, <2>4, <4>2, <5>1, AncestorsAre
      <4>4. STw.cnt_i > 0 /\ STw.sn \in Nodes /\ lln(STw.sn) = 1 /\ STw.cnt_i <= rln(STw.sn)
        BY <1>3, <1>4, <2>1, <2>2 DEF Leading, Rooted
      <4>5. /\ lln(m) \in Int /\ rln(m) \in Int /\ lln(m) >= 1
            /\ rln(STw.sn) \in Int
        <5> HIDE DEF m
        <5>1. m \in Nodes
          BY <4>3, InnerIs
        <5>2. lln(m) \in 1..N /\ rln(m) \in 1..N /\ rln(STw.sn) \in 1..N
          BY <4>4, <5>1, Path
        <5> QED  BY <5>2, Size
      <4>6. Under(leaf, STw.sn)
        BY <1>3, <1>4, <2>2, <4>4, <4>5 DEF Under
      <4>7. Over(m, STw.sn)
        <5>1. m > STw.sn
          BY <3>2
        <5> HIDE DEF leaf, m
        <5>2. m \in Nodes /\ m \in Int
          BY <4>3, InnerIs
        <5>3. STw.sn <= m
          BY <1>3, <5>1, <5>2
        <5> QED  BY <1>4, <4>3, <4>4, <4>6, <5>2, <5>3, Laminar
      <4>8. m \in Nodes /\ lln(m) = 1 /\ STw.cnt_i <= rln(m)
        <5> HIDE DEF m
        <5> QED  BY <1>3, <4>3, <4>4, <4>5, <4>7, InnerIs DEF Over
      <4> QED  BY <1>2, <1>3, <2>1, <4>1, <4>8 DEF Rooted, Leading
    <3> QED  BY <1>3, <1>7, <3>1, <3>2
  <2> QED  BY <1>1, <2>6, <2>7, <2>8, <2>9 DEF Leading
<1> QED  BY <1>8, <1>9, <1>10

\* The entry of a node leads to all that is left under it.
LEMMA DelEntryLInv == ASSUME LInv, EInv', DelEntry PROVE LInv'
<1> USE DEF LInv
<1> DEFINE x == ins[sent.entry + 1]
           lab == Node(x.Node, x.Num, ST.K)
<1>1. /\ UNCHANGED <<pc, id, ST, db, ins, OD_del, OD_tree, hist>> /\ pc = "del" /\ sent.entry < Len(ins) - 1
      /\ EDB' = Put(EDB, lab, [c |-> x, d |-> [h |-> 0, to |-> NoLabel]])
      /\ sent' = [sent EXCEPT !.entry = @ + 1]
  BY DEF DelEntry
<1>2. sent'.tree = sent.tree /\ sent' # [tree |-> 0, entry |-> 0] /\ sent.entry + 1 \in 1..Len(ins) /\ sent.entry \in Nat
  <2>1. sent.entry \in Nat /\ sent.tree \in Nat
    BY DEF EInv, DInv, Fields
  <2>2. sent'.entry = sent.entry + 1 /\ sent'.tree = sent.tree
    BY <1>1 DEF EInv, DInv, Fields
  <2> QED  BY <1>1, <2>1, <2>2 DEF EInv, DInv, Writing
<1>3. Gone' = Gone /\ STw' = STw /\ Saved' = Saved
  <2>1. Gone' = Gone
    BY <1>1 DEF Gone
  <2> QED  BY <1>1, <2>1 DEF STw, Saved, Known
<1>4. Mapped'
  BY <1>1, <1>3 DEF Mapped
<1>5. Arriving'
  BY <1>1, <1>2 DEF Arriving
<1>6. ASSUME Sane' PROVE Leading'
  <2>1. Sane /\ Leading
    BY <1>1, <1>6 DEF Sane
  <2>2. Owned' /\ Rooted(STw)' /\ Rooted(Saved)'
    BY <1>1, <1>3, <2>1 DEF Owned, Rooted, Leading
  <2>3. Trees'
    BY <1>1, <1>2, <1>3, <2>1 DEF Trees, Leading
  <2>4. x \in Links /\ x.Num # -1 /\ x.Node \in Int
    <3>1. x \in Links
      BY <1>2 DEF EInv, DInv, Writing
    <3>2. x.Num >= 1
      BY <1>1, <1>2 DEF EInv, DInv, Writing
    <3>3. x.Node \in (N + 1)..(2 * N - 1)
      BY <3>1 DEF Links
    <3> QED  BY <3>1, <3>2, <3>3, Size
  <2>5. Covering(x, Gone)
    <3>1. Falling(ins, Len(ins))
      BY InsFall
    <3> DEFINE F == Overlay(OD_tree, ins)
    <3>2. Overlaid(OD_tree, ins, Len(ins), F)
      BY <3>1, OverlayIs
    <3>3. Tree(F, Gone)
      BY <2>1 DEF Leading, Trees
    <3> HIDE DEF F
    <3>4. x.Node \in DOMAIN F /\ F[x.Node] = x
      <4>1. Wrote(ins, x.Node)
        BY <1>2 DEF Wrote, EInv, DInv, Writing
      <4> QED  BY <1>2, <3>2, <4>1 DEF Overlaid
    <3>5. Sound(x, F, Gone)
      BY <2>4, <3>3, <3>4 DEF Tree
    <3> QED  BY <3>5 DEF Sound
  <2>6. Whole'
    <3>1. \A l \in DOMAIN EDB' : /\ l = lab => EDB'[l].c = x
                                 /\ l # lab => l \in DOMAIN EDB /\ EDB'[l] = EDB[l]
      BY <1>1 DEF Put
    <3>2. lab[1] = x.Node
      BY DEF Node
    <3> HIDE DEF x, lab
    <3> QED  BY <1>3, <2>1, <2>4, <2>5, <3>1, <3>2 DEF Whole, Leading
  <2> QED  BY <1>1, <2>2, <2>3, <2>6 DEF Leading
<1> QED  BY <1>4, <1>5, <1>6

\* A node that arrives is the one the tree was to have.
LEMMA DelTreeLInv == ASSUME LInv, EInv', DelTree PROVE LInv'
<1> USE DEF LInv
<1> DEFINE t == sent.tree + 1
           x == ins[t]
<1>1. /\ UNCHANGED <<pc, id, ST, db, ins, OD_del, EDB, hist>> /\ pc = "del" /\ sent.tree < Len(ins)
      /\ OD_tree' = Put(OD_tree, x.Node, x)
      /\ sent' = [sent EXCEPT !.tree = @ + 1]
  BY DEF DelTree
<1>2. sent'.tree = t /\ sent' # [tree |-> 0, entry |-> 0] /\ t \in 1..Len(ins) /\ sent.tree \in Nat /\ Len(ins) \in Nat
  <2>1. sent.tree \in Nat
    BY DEF EInv, DInv, Fields
  <2>2. sent'.tree = t
    BY <1>1 DEF EInv, DInv, Fields
  <2>3. Len(ins) \in Nat
    BY DEF EInv, DInv, Writing
  <2> QED  BY <1>1, <2>1, <2>2, <2>3
<1>3. Gone' = Gone /\ STw' = STw /\ Saved' = Saved
  <2>1. Gone' = Gone
    BY <1>1 DEF Gone
  <2> QED  BY <1>1, <2>1 DEF STw, Saved, Known
<1>4. Mapped'
  BY <1>1, <1>3 DEF Mapped
<1>5. Falling(ins, Len(ins)) /\ DOMAIN ins = 1..Len(ins)
  BY InsFall DEF EInv, DInv, Writing
<1>6. /\ DOMAIN OD_tree' = DOMAIN OD_tree \cup {x.Node} /\ OD_tree'[x.Node] = x
      /\ \A n \in DOMAIN OD_tree : n # x.Node => OD_tree'[n] = OD_tree[n]
  BY <1>1 DEF Put
<1> HIDE DEF x
<1>7. Arriving'
  <2>1. \A j \in 1..t : ins[j].Node \in DOMAIN OD_tree' /\ OD_tree'[ins[j].Node] = ins[j]
    <3> TAKE j \in 1..t
    <3>1. CASE j = t
      BY <1>6, <3>1 DEF x
    <3>2. CASE j # t
      <4>1. j \in 1..sent.tree /\ j \in 1..Len(ins) /\ j < t
        BY <1>2, <3>2
      <4>2. x.Node < ins[j].Node /\ x.Node \in Int /\ ins[j].Node \in Int
        BY <1>2, <1>5, <4>1 DEF Falling, x
      <4>3. ins[j].Node # x.Node
        BY <4>2
      <4> QED  BY <1>6, <4>1, <4>3 DEF Arriving
    <3> QED  BY <3>1, <3>2
  <2> HIDE DEF t
  <2>2. sent'.tree <= Len(ins)
    BY <1>2
  <2> QED  BY <1>1, <1>2, <2>1, <2>2 DEF Arriving
<1>8. ASSUME Sane' PROVE Leading'
  <2>1. Sane /\ Leading
    BY <1>1, <1>8 DEF Sane
  <2>2. Owned' /\ Rooted(STw)' /\ Rooted(Saved)'
    BY <1>1, <1>3, <2>1 DEF Owned, Rooted, Leading
  <2>3. Trees'
    <3> DEFINE F == Overlay(OD_tree, ins)
               G == Overlay(OD_tree', ins)
    <3>1. Overlaid(OD_tree, ins, Len(ins), F) /\ Overlaid(OD_tree', ins, Len(ins), G)
      BY <1>5, OverlayIs
    <3>2. Tree(F, Gone)
      BY <2>1 DEF Leading, Trees
    <3>3. G = Overlay(OD_tree, ins)'
      BY <1>1
    <3> HIDE DEF F, G
    <3>4. \A n : Wrote(ins, n) <=> \E j \in 1..Len(ins) : ins[j].Node = n
      BY <1>5 DEF Wrote
    <3>5. Wrote(ins, x.Node)
      BY <1>2, <3>4 DEF x
    <3>6. \A n : n \in DOMAIN G <=> n \in DOMAIN F
      BY <1>6, <3>1, <3>5 DEF Overlaid
    <3>7. \A n \in DOMAIN F : G[n] = F[n]
      <4> TAKE n \in DOMAIN F
      <4>1. CASE Wrote(ins, n)
        BY <3>1, <3>4, <4>1 DEF Overlaid
      <4>2. CASE ~Wrote(ins, n)
        BY <1>6, <3>1, <3>5, <4>2 DEF Overlaid
      <4> QED  BY <4>1, <4>2
    <3>8. Tree(G, Gone)
      <4>1. DOMAIN G = DOMAIN F
        BY <3>6
      <4> QED  BY <3>2, <3>7, <4>1, TreeLike
    <3> QED  BY <1>1, <1>2, <1>3, <3>8, <3>3 DEF Trees
  <2>4. Whole'
    BY <1>1, <1>3, <2>1 DEF Whole, Leading
  <2> QED  BY <1>1, <2>2, <2>3, <2>4 DEF Leading
<1> QED  BY <1>4, <1>7, <1>8

\* A search starts above all updates, and if all are under its key, it can
\* follow them.
LEMMA StartSearchLInv == ASSUME LInv, EInv', StartSearch PROVE LInv'
<1> USE DEF LInv
<1>1. /\ UNCHANGED <<id, db, ins, sent, OD_del, OD_tree, EDB>> /\ pc = "ready" /\ pc' = "search"
      /\ ST' = [STw EXCEPT !.K = hist.keys + 1]
      /\ srv'.q = <<<<STw.sn, STw.cnt_d>>>> /\ srv'.K = STw.K /\ srv'.cnt_i = STw.cnt_i
      /\ srv'.k = 0 /\ srv'.lln = 1 /\ srv'.C = Doc(0) /\ srv'.R = <<>>
  BY DEF StartSearch, server, NoSearch
<1>2. /\ hist'.docs = hist.docs /\ hist'.deleted = hist.deleted
      /\ hist'.torn = hist.torn /\ hist'.again = hist.again /\ hist'.reused = hist.reused
  BY DEF StartSearch, EInv, DInv, Fields
<1>3. STw \in STs /\ STw.cnt_i \in Nat /\ STw.sn \in Int /\ STw.cnt_d \in Int /\ STw.cnt_i <= N
  <2>1. STw \in STs
    BY Entries DEF EInv, DInv
  <2>2. STw.cnt_i \in 0..MaxIds /\ STw.sn \in 0..(2 * N) /\ STw.cnt_d \in 0..MaxDeletes
    BY <2>1 DEF STs
  <2> QED  BY <2>1, <2>2, Size, BoundsAssumption
<1>4. Known' /\ STw' = ST' /\ Saved' = Saved /\ STw'.cnt_i = STw.cnt_i /\ STw'.sn = STw.sn
  <2>1. ST' # <<>>
    BY <1>1, <1>3 DEF STs
  <2> QED  BY <1>1, <1>3, <2>1 DEF STw, Saved, Known, STs
<1>5. Gone' = Gone
  BY <1>1, <1>2 DEF Gone
<1>6. Mapped'
  BY <1>1, <1>2, <1>4 DEF Mapped
<1>7. Arriving'
  BY <1>1 DEF Arriving
<1>8. ASSUME Sane' PROVE Leading'
  <2>1. Sane /\ Leading
    BY <1>2, <1>8 DEF Sane
  <2>2. Owned'
    BY <1>1, <1>2, <1>4, <2>1 DEF Owned, Leading
  <2>3. Rooted(STw)' /\ Rooted(Saved)'
    BY <1>4, <2>1 DEF Rooted, Leading
  <2>4. Trees' /\ Whole'
    BY <1>1, <1>5, <2>1 DEF Trees, Whole, Leading
  <2>5. Answering'
    <3>1. srv'.q \in Seq(Int \X Int) /\ srv'.R \in Seq(Cells) /\ srv'.C \in Cells
      BY <1>1, <1>3, BoundsAssumption, Size DEF Cells, Doc
    <3>2. ASSUME SameKey', srv'.cnt_i > 0
          PROVE  /\ Straight'
                 /\ \A j \in 1..Len(srv'.q) : srv'.q[j][1] \in Nodes
                 /\ srv'.lln \in Int /\ srv'.k \in Int /\ ~Walking'
                 /\ \A i \in 1..srv'.cnt_i : Pending(i)'
      <4>1. STw.sn \in Nodes /\ lln(STw.sn) = 1 /\ STw.cnt_i <= rln(STw.sn)
        BY <1>1, <2>1, <3>2 DEF Rooted, Leading
      <4>2. Straight'
        <5>1. PICK ks \in [1..MaxIds -> 0..MaxKeys] : Chain(STw, ks, EDB, hist.docs)
          BY DEF EInv, Linked
        <5>2. \A i \in 1..STw.cnt_i : ks[i] = STw.K /\ LeafIs(i, ks, EDB, hist.docs)
          BY <1>1, <3>2, <5>1 DEF Chain, SameKey
        <5>3. ASSUME NEW i \in 1..STw.cnt_i
              PROVE  EDB[Leaf(i, STw.K)] = [c |-> Doc(hist.docs[i]),
                           d |-> [h |-> i, to |-> IF i = 1 THEN NoLabel ELSE Leaf(i - 1, STw.K)]]
          <6>1. i = 1 \/ i - 1 \in 1..STw.cnt_i
            BY <1>3
          <6>2. i = 1 \/ ks[i - 1] = STw.K
            BY <5>2, <6>1
          <6> QED  BY <5>2, <6>2 DEF LeafIs
        <5> QED  BY <1>1, <1>2, <5>3 DEF Straight
      <4>3. Len(srv'.q) = 1 /\ srv'.q[1][1] = STw.sn
        BY <1>1
      <4>4. \A i \in 1..STw.cnt_i : Under(i, STw.sn)
        <5>1. rln(STw.sn) \in 1..N
          BY <4>1, Path
        <5> QED  BY <1>3, <4>1, <5>1, Size DEF Under
      <4>5. \A i \in 1..STw.cnt_i : Pending(i)'
        BY <4>3, <4>4 DEF Pending
      <4>6. ~Walking'
        BY <1>1 DEF Walking
      <4> QED  BY <1>1, <4>1, <4>2, <4>3, <4>5, <4>6
    <3> QED  BY <1>1, <1>4, <3>1, <3>2 DEF Answering
  <2> QED  BY <2>2, <2>3, <2>4, <2>5 DEF Leading
<1> QED  BY <1>6, <1>7, <1>8

\* A step of the server's loop that keeps what it says of the updates.
LEMMA LoopLInv ==
  ASSUME LInv, EInv', pc = "search",
         UNCHANGED <<pc, id, ST, db, ins, sent, server, hist>>, (Sane /\ Leading) => Answering'
  PROVE  LInv'
<1> USE DEF LInv
<1>1. UNCHANGED <<OD_del, OD_tree, EDB>> /\ STw' = STw /\ Saved' = Saved
  BY DEF server, STw, Saved, Known
<1>2. Gone' = Gone
  BY <1>1 DEF Gone
<1>3. Mapped'
  BY <1>1 DEF Mapped
<1>4. Arriving'
  BY <1>1 DEF Arriving
<1>5. ASSUME Sane' PROVE Leading'
  <2>1. Sane /\ Leading
    BY <1>5 DEF Sane
  <2>2. Owned' /\ Rooted(STw)' /\ Rooted(Saved)'
    BY <1>1, <1>2, <2>1 DEF Owned, Rooted, Leading
  <2>3. Trees' /\ Whole'
    BY <1>1, <1>2, <2>1 DEF Trees, Whole, Leading
  <2> QED  BY <2>1, <2>2, <2>3 DEF Leading
<1> QED  BY <1>3, <1>4, <1>5

\* The queue without its head.
LEMMA Rest ==
  ASSUME NEW S, NEW q \in Seq(S), q # <<>>
  PROVE  /\ Len(q) \in Nat /\ Len(q) >= 1 /\ q[1] \in S /\ Tail(q) \in Seq(S) /\ Len(Tail(q)) = Len(q) - 1
         /\ \A j \in 1..Len(q) : j = 1 \/ (j - 1 \in 1..Len(Tail(q)) /\ Tail(q)[j - 1] = q[j])
         /\ \A j \in 1..Len(Tail(q)) : j + 1 \in 1..Len(q) /\ Tail(q)[j] = q[j + 1]
  OBVIOUS

\* A sequence t that is s with x behind it.
More(S, s, x, t) ==
  /\ t \in Seq(S)
  /\ \A j \in 1..Len(s) : j \in 1..Len(t) /\ t[j] = s[j]
  /\ \E j \in 1..Len(t) : t[j] = x
  /\ \A j \in 1..Len(t) : t[j] = x \/ \E i \in 1..Len(s) : t[j] = s[i]

LEMMA Pushed ==
  ASSUME NEW S, NEW s \in Seq(S), NEW x \in S, NEW t, t = s \o <<x>>
  PROVE  More(S, s, x, t)
<1>1. t \in Seq(S) /\ Len(t) = Len(s) + 1 /\ t[Len(s) + 1] = x
  OBVIOUS
<1>2. \A j \in 1..Len(s) : t[j] = s[j]
  OBVIOUS
<1>3. Len(s) \in Nat
  OBVIOUS
<1>4. \A j \in 1..Len(t) : j \in 1..Len(s) \/ j = Len(s) + 1
  BY <1>1, <1>3
<1> QED  BY <1>1, <1>2, <1>3, <1>4 DEF More

\* In place of a node the queue gets its children, which everything left under
\* it is under.
LEMMA ExpandLInv == ASSUME LInv, EInv', Expand PROVE LInv'
<1> USE DEF LInv
<1> DEFINE C == EDB[HeadLabel].c
           n == srv.q[1][1]
           right == IF lln(C.r) <= srv.cnt_i THEN <<<<C.r, C.rNum>>>> ELSE <<>>
<1>1. /\ UNCHANGED <<pc, id, ST, db, ins, sent, server, hist>> /\ pc = "search" /\ ~Walking /\ srv.q # <<>>
      /\ n > N /\ HeadLabel \in DOMAIN EDB
      /\ srv' = [srv EXCEPT !.q = Tail(@) \o <<<<C.l, C.lNum>>>> \o right, !.C = C]
  BY DEF Expand, Turn
<1>2. /\ srv'.q = Tail(srv.q) \o <<<<C.l, C.lNum>>>> \o right /\ srv'.C = C
      /\ srv'.K = srv.K /\ srv'.cnt_i = srv.cnt_i /\ srv'.k = srv.k /\ srv'.lln = srv.lln
      /\ srv'.L = srv.L /\ srv'.R = srv.R
  BY Zenon, <1>1 DEF EInv, Locals
<1>3. ASSUME Sane, Leading PROVE Answering'
  <2>1. Answering /\ Whole
    BY <1>1, <1>3 DEF Leading
  <2>2. C \in Links /\ C.Node = n /\ Covering(C, Gone)
    <3>1. HeadLabel[1] = n
      BY DEF HeadLabel, Node
    <3> QED  BY <1>1, <2>1, <3>1 DEF Whole
  <2>3. C.l \in Int /\ C.r \in Int /\ C.lNum \in Int /\ C.rNum \in Int /\ C \in Cells
    <3>1. C.l \in 1..(2 * N - 2) /\ C.r \in 1..(2 * N - 2) /\ C.lNum \in 0..MaxDeletes /\ C.rNum \in 0..MaxDeletes
      BY <2>2 DEF Links
    <3> QED  BY <2>2, <3>1, Size, BoundsAssumption DEF Cells
  <2> HIDE DEF C
  <2> DEFINE cl == <<C.l, C.lNum>>
             cr == <<C.r, C.rNum>>
  <2>4. cl \in Int \X Int /\ cr \in Int \X Int /\ cl[1] = C.l /\ cr[1] = C.r
    BY <2>3
  <2>5. /\ srv.q \in Seq(Int \X Int) /\ Len(srv.q) \in Nat /\ Tail(srv.q) \in Seq(Int \X Int)
        /\ \A j \in 1..Len(srv.q) : j = 1 \/ (j - 1 \in 1..Len(Tail(srv.q)) /\ Tail(srv.q)[j - 1] = srv.q[j])
        /\ \A j \in 1..Len(Tail(srv.q)) : j + 1 \in 1..Len(srv.q) /\ Tail(srv.q)[j] = srv.q[j + 1]
    <3>1. srv.q \in Seq(Int \X Int)
      BY <2>1 DEF Answering
    <3> QED  BY <1>1, <3>1, Rest
  <2> DEFINE s == Tail(srv.q) \o <<cl>>
  <2> HIDE DEF cl, cr
  <2>6. More(Int \X Int, Tail(srv.q), cl, s)
    BY <2>4, <2>5, Pushed
  <2>7. /\ lln(C.r) <= srv.cnt_i => More(Int \X Int, s, cr, srv'.q)
        /\ ~(lln(C.r) <= srv.cnt_i) => srv'.q = s
    <3>1. srv'.q = s \o right
      BY <1>2 DEF cl
    <3>2. s \in Seq(Int \X Int)
      BY <2>6 DEF More
    <3> HIDE DEF s
    <3>3. CASE lln(C.r) <= srv.cnt_i
      <4>1. right = <<cr>>
        BY <3>3 DEF cr
      <4> HIDE DEF right
      <4>2. srv'.q = s \o <<cr>>
        BY <3>1, <4>1
      <4> QED  BY <2>4, <3>2, <3>3, <4>2, Pushed
    <3>4. CASE ~(lln(C.r) <= srv.cnt_i)
      <4>1. right = <<>>
        BY <3>4
      <4> HIDE DEF right
      <4> QED  BY <3>1, <3>2, <3>4, <4>1
    <3> QED  BY <3>3, <3>4
  <2> HIDE DEF s, right
  <2>8. ASSUME SameKey', srv'.cnt_i > 0
        PROVE  /\ Straight'
               /\ \A j \in 1..Len(srv'.q) : srv'.q[j][1] \in Nodes
               /\ srv'.lln \in Int /\ srv'.k \in Int /\ ~Walking'
               /\ \A i \in (1..srv'.cnt_i) \ Gone : Pending(i)'
    <3>1. SameKey /\ srv.cnt_i > 0
      BY <1>1, <1>2, <2>8 DEF SameKey, server
    <3>2. /\ Straight /\ \A j \in 1..Len(srv.q) : srv.q[j][1] \in Nodes
          /\ srv.lln \in Int /\ srv.k \in Int
          /\ \A i \in (1..srv.cnt_i) \ Gone : Pending(i)
      BY <2>1, <3>1 DEF Answering
    <3>3. Straight'
      BY <1>1, <1>2, <3>2 DEF Straight, server
    <3>4. \A j \in 1..Len(srv'.q) : srv'.q[j][1] \in Nodes
      <4>1. C.l \in Nodes /\ C.r \in Nodes
        BY <2>2 DEF Covering
      <4>2. \A j \in 1..Len(Tail(srv.q)) : Tail(srv.q)[j][1] \in Nodes
        BY <2>5, <3>2
      <4>3. \A j \in 1..Len(s) : s[j][1] \in Nodes
        <5> TAKE j \in 1..Len(s)
        <5>1. s[j] = cl \/ \E i \in 1..Len(Tail(srv.q)) : s[j] = Tail(srv.q)[i]
          BY <2>6 DEF More
        <5> QED  BY <2>4, <4>1, <4>2, <5>1
      <4>4. CASE lln(C.r) <= srv.cnt_i
        <5> TAKE j \in 1..Len(srv'.q)
        <5>1. srv'.q[j] = cr \/ \E i \in 1..Len(s) : srv'.q[j] = s[i]
          BY <2>7, <4>4 DEF More
        <5> QED  BY <2>4, <4>1, <4>3, <5>1
      <4> QED  BY <2>7, <4>3, <4>4
    <3>5. ~Walking'
      BY <1>1, <1>2 DEF Walking
    <3>6. ASSUME NEW i \in (1..srv.cnt_i) \ Gone PROVE Pending(i)'
      <4>1. Pending(i) /\ i \in 1..N /\ srv.cnt_i \in Int
        <5>1. srv.cnt_i = STw.cnt_i /\ STw.cnt_i \in 0..MaxIds
          <6>1. STw \in STs
            BY Entries DEF EInv, DInv
          <6> QED  BY <2>1, <6>1 DEF Answering, STs
        <5> QED  BY <3>2, <5>1, Size, BoundsAssumption
      <4>2. CASE \E j \in 1..Len(srv.R) : srv.R[j] = Doc(hist.docs[i])
        BY <1>1, <1>2, <4>2 DEF Pending
      <4>3. CASE srv.lln <= i /\ i <= srv.k
        BY <1>2, <4>3 DEF Pending
      <4>4. CASE \E j \in 1..Len(srv.q) : Under(i, srv.q[j][1])
        <5> SUFFICES \E j \in 1..Len(srv'.q) : Under(i, srv'.q[j][1])
          BY DEF Pending
        <5>1. PICK j \in 1..Len(srv.q) : Under(i, srv.q[j][1])
          BY <4>4
        <5>4. ASSUME NEW m \in 1..Len(s) PROVE \E h \in 1..Len(srv'.q) : srv'.q[h] = s[m]
          BY <2>7, <5>4 DEF More
        <5>2. CASE j = 1
          <6>1. Under(i, C.l) \/ Under(i, C.r)
            BY <2>2, <4>1, <5>1, <5>2 DEF Covering
          <6>2. CASE Under(i, C.l)
            <7>1. PICK m \in 1..Len(s) : s[m] = cl
              BY <2>6 DEF More
            <7>2. PICK h \in 1..Len(srv'.q) : srv'.q[h] = s[m]
              BY <5>4
            <7> QED  BY <2>4, <6>2, <7>1, <7>2
          <6>3. CASE Under(i, C.r)
            <7>1. C.r \in Nodes
              BY <2>2 DEF Covering
            <7>2. lln(C.r) \in 1..N /\ lln(C.r) <= i
              BY <6>3, <7>1, Path DEF Under
            <7>3. lln(C.r) <= srv.cnt_i
              BY <4>1, <7>2, Size
            <7>4. PICK h \in 1..Len(srv'.q) : srv'.q[h] = cr
              BY <2>7, <7>3 DEF More
            <7> QED  BY <2>4, <6>3, <7>4
          <6> QED  BY <6>1, <6>2, <6>3
        <5>3. CASE j # 1
          <6>1. j - 1 \in 1..Len(Tail(srv.q)) /\ Tail(srv.q)[j - 1] = srv.q[j]
            BY <2>5, <5>3
          <6>2. PICK m \in 1..Len(s) : s[m] = srv.q[j]
            BY <2>6, <6>1 DEF More
          <6>3. PICK h \in 1..Len(srv'.q) : srv'.q[h] = s[m]
            BY <5>4
          <6> QED  BY <5>1, <6>2, <6>3
        <5> QED  BY <5>2, <5>3
      <4> QED  BY <4>1, <4>2, <4>3, <4>4 DEF Pending
    <3> QED  BY <1>2, <3>2, <3>3, <3>4, <3>5, <3>6
  <2>9. Gone' = Gone
    BY <1>1 DEF Gone, server
  <2>10. STw' = STw
    BY <1>1 DEF STw, Known
  <2>11. srv'.q \in Seq(Int \X Int)
    BY <2>6, <2>7 DEF More
  <2> QED  BY <1>2, <2>1, <2>3, <2>8, <2>9, <2>10, <2>11 DEF Answering
<1> QED  BY <1>1, <1>3, LoopLInv

\* A leaf gives its document.
LEMMA TakeLeafLInv == ASSUME LInv, EInv', TakeLeaf PROVE LInv'
<1> USE DEF LInv
<1> DEFINE n == srv.q[1][1]
           e == Read(Leaf(n, srv.K), [c |-> srv.C])
<1>1. /\ UNCHANGED <<pc, id, ST, db, ins, sent, server, hist>> /\ pc = "search" /\ ~Walking /\ srv.q # <<>>
      /\ n <= N
      /\ srv' = [srv EXCEPT !.q = Tail(@), !.C = e.c, !.R = Append(@, e.c)]
  BY DEF TakeLeaf, Turn
<1>2. /\ srv'.q = Tail(srv.q) /\ srv'.C = e.c /\ srv'.R = Append(srv.R, e.c)
      /\ srv'.K = srv.K /\ srv'.cnt_i = srv.cnt_i /\ srv'.k = srv.k /\ srv'.lln = srv.lln
      /\ srv'.L = srv.L
  BY Zenon, <1>1 DEF EInv, Locals
<1>3. ASSUME Sane, Leading PROVE Answering'
  <2>1. Answering /\ srv.R \in Seq(Cells) /\ srv.q \in Seq(Int \X Int)
    BY <1>1, <1>3 DEF Leading, Answering
  <2>2. e.c \in Cells
    <3>1. CASE Leaf(n, srv.K) \in DOMAIN EDB
      BY <3>1 DEF Read, EInv, DInv, TypeOK
    <3>2. CASE Leaf(n, srv.K) \notin DOMAIN EDB
      BY <2>1, <3>2 DEF Read, Answering
    <3> QED  BY <3>1, <3>2
  <2>3. /\ Len(srv.q) \in Nat /\ Tail(srv.q) \in Seq(Int \X Int)
        /\ \A j \in 1..Len(srv.q) : j = 1 \/ (j - 1 \in 1..Len(Tail(srv.q)) /\ Tail(srv.q)[j - 1] = srv.q[j])
        /\ \A j \in 1..Len(Tail(srv.q)) : j + 1 \in 1..Len(srv.q) /\ Tail(srv.q)[j] = srv.q[j + 1]
    BY <1>1, <2>1, Rest
  <2>4. /\ srv'.R \in Seq(Cells)
        /\ \A j \in 1..Len(srv.R) : j \in 1..Len(srv'.R) /\ srv'.R[j] = srv.R[j]
        /\ \E j \in 1..Len(srv'.R) : srv'.R[j] = e.c
    <3> HIDE DEF e
    <3> QED  BY <1>2, <2>1, <2>2
  <2>5. ASSUME SameKey', srv'.cnt_i > 0
        PROVE  /\ Straight'
               /\ \A j \in 1..Len(srv'.q) : srv'.q[j][1] \in Nodes
               /\ srv'.lln \in Int /\ srv'.k \in Int /\ ~Walking'
               /\ \A i \in (1..srv'.cnt_i) \ Gone : Pending(i)'
    <3>1. SameKey /\ srv.cnt_i > 0
      BY <1>1, <1>2, <2>5 DEF SameKey, server
    <3>2. /\ Straight /\ \A j \in 1..Len(srv.q) : srv.q[j][1] \in Nodes
          /\ srv.lln \in Int /\ srv.k \in Int
          /\ \A i \in (1..srv.cnt_i) \ Gone : Pending(i)
      BY <2>1, <3>1 DEF Answering
    <3>3. Straight'
      BY <1>1, <1>2, <3>2 DEF Straight, server
    <3>4. \A j \in 1..Len(srv'.q) : srv'.q[j][1] \in Nodes
      BY <1>2, <2>3, <3>2
    <3>5. ~Walking'
      BY <1>1, <1>2 DEF Walking
    <3>6. ASSUME NEW i \in (1..srv.cnt_i) \ Gone PROVE Pending(i)'
      <4>1. Pending(i)
        BY <3>2
      <4>2. CASE \E j \in 1..Len(srv.R) : srv.R[j] = Doc(hist.docs[i])
        BY <1>1, <2>4, <4>2 DEF Pending
      <4>3. CASE srv.lln <= i /\ i <= srv.k
        BY <1>2, <4>3 DEF Pending
      <4>4. CASE \E j \in 1..Len(srv.q) : Under(i, srv.q[j][1])
        <5>1. PICK j \in 1..Len(srv.q) : Under(i, srv.q[j][1])
          BY <4>4
        <5>2. CASE j = 1
          <6>1. n \in Nodes
            BY <3>2, <5>2
          <6>2. n \in 1..N
            BY <1>1, <6>1, InnerIs, Size DEF Nodes
          <6>3. i = n
            BY <5>1, <5>2, <6>2, LeafSpan, Size DEF Under
          <6>4. e.c = Doc(hist.docs[i])
            <7>1. Leaf(i, srv.K) \in DOMAIN EDB /\ EDB[Leaf(i, srv.K)].c = Doc(hist.docs[i])
              <8>1. i \in 1..srv.cnt_i
                OBVIOUS
              <8>2. Leaf(i, srv.K) \in DOMAIN EDB
                BY <3>1, <8>1 DEF SameKey
              <8>3. EDB[Leaf(i, srv.K)] =
                      [c |-> Doc(hist.docs[i]),
                       d |-> [h |-> i, to |-> IF i = 1 THEN NoLabel ELSE Leaf(i - 1, srv.K)]]
                BY <3>2, <8>1 DEF Straight
              <8> QED  BY <8>2, <8>3
            <7> QED  BY <6>3, <7>1 DEF Read
          <6>5. \E m \in 1..Len(srv'.R) : srv'.R[m] = Doc(hist.docs[i])
            <7> HIDE DEF e
            <7> QED  BY <2>4, <6>4
          <6> QED  BY <1>1, <6>5 DEF Pending
        <5>3. CASE j # 1
          <6>1. j - 1 \in 1..Len(Tail(srv.q)) /\ Tail(srv.q)[j - 1] = srv.q[j]
            BY <2>3, <5>3
          <6> QED  BY <1>2, <5>1, <6>1 DEF Pending
        <5> QED  BY <5>2, <5>3
      <4> QED  BY <4>1, <4>2, <4>3, <4>4 DEF Pending
    <3> QED  BY <1>2, <3>2, <3>3, <3>4, <3>5, <3>6
  <2>6. Gone' = Gone
    BY <1>1 DEF Gone, server
  <2>7. STw' = STw
    BY <1>1 DEF STw, Known
  <2> QED  BY <1>2, <2>1, <2>2, <2>3, <2>4, <2>5, <2>6, <2>7 DEF Answering
<1> QED  BY <1>1, <1>3, LoopLInv

\* A node no deletion has touched gives the walk over the leaves under it.
LEMMA WalkNodeLInv == ASSUME LInv, EInv', WalkNode PROVE LInv'
<1> USE DEF LInv
<1> DEFINE n == srv.q[1][1]
           k == IF srv.cnt_i < rln(n) THEN srv.cnt_i ELSE rln(n)
<1>1. /\ UNCHANGED <<pc, id, ST, db, ins, sent, server, hist>> /\ pc = "search" /\ ~Walking /\ srv.q # <<>>
      /\ n > N
      /\ srv' = [srv EXCEPT !.q = Tail(@), !.k = k, !.lln = lln(n), !.L = Leaf(k, srv.K)]
  BY DEF WalkNode, Turn
<1>2. /\ srv'.q = Tail(srv.q) /\ srv'.k = k /\ srv'.lln = lln(n) /\ srv'.L = Leaf(k, srv.K)
      /\ srv'.K = srv.K /\ srv'.cnt_i = srv.cnt_i /\ srv'.C = srv.C /\ srv'.R = srv.R
  BY <1>1 DEF EInv, Locals
<1>3. ASSUME Sane, Leading PROVE Answering'
  <2>1. Answering /\ srv.q \in Seq(Int \X Int)
    BY <1>1, <1>3 DEF Leading, Answering
  <2>2. /\ Len(srv.q) \in Nat /\ Len(srv.q) >= 1 /\ Tail(srv.q) \in Seq(Int \X Int)
        /\ \A j \in 1..Len(srv.q) : j = 1 \/ (j - 1 \in 1..Len(Tail(srv.q)) /\ Tail(srv.q)[j - 1] = srv.q[j])
        /\ \A j \in 1..Len(Tail(srv.q)) : j + 1 \in 1..Len(srv.q) /\ Tail(srv.q)[j] = srv.q[j + 1]
    BY <1>1, <2>1, Rest
  <2>3. srv.cnt_i \in Nat
    <3>1. STw \in STs
      BY Entries DEF EInv, DInv
    <3>2. STw.cnt_i \in 0..MaxIds
      BY <3>1 DEF STs
    <3> QED  BY <2>1, <3>2, Size, BoundsAssumption DEF Answering
  <2>4. ASSUME SameKey', srv'.cnt_i > 0
        PROVE  /\ Straight'
               /\ \A j \in 1..Len(srv'.q) : srv'.q[j][1] \in Nodes
               /\ srv'.lln \in Int /\ srv'.k \in Int
               /\ Walking' => srv'.lln >= 1 /\ srv'.k \in 1..srv'.cnt_i /\ srv'.L = Leaf(srv'.k, srv'.K)
               /\ \A i \in (1..srv'.cnt_i) \ Gone : Pending(i)'
    <3>1. SameKey /\ srv.cnt_i > 0
      BY <1>1, <1>2, <2>4 DEF SameKey, server
    <3>2. /\ Straight /\ \A j \in 1..Len(srv.q) : srv.q[j][1] \in Nodes
          /\ srv.lln \in Int /\ srv.k \in Int
          /\ \A i \in (1..srv.cnt_i) \ Gone : Pending(i)
      BY <2>1, <3>1 DEF Answering
    <3>3. Straight'
      BY <1>1, <1>2, <3>2 DEF Straight, server
    <3>4. \A j \in 1..Len(srv'.q) : srv'.q[j][1] \in Nodes
      BY <1>2, <2>2, <3>2
    <3>5. lln(n) \in Int /\ rln(n) \in Int /\ lln(n) >= 1
      <4>1. n \in Nodes
        BY <2>2, <3>2
      <4> HIDE DEF n
      <4>2. lln(n) \in 1..N /\ rln(n) \in 1..N
        BY <4>1, Path
      <4> QED  BY <4>2, Size
    <3>6. k \in Int /\ k <= srv.cnt_i
      BY <2>3, <3>5
    <3>7. Walking' => srv'.lln >= 1 /\ srv'.k \in 1..srv'.cnt_i /\ srv'.L = Leaf(srv'.k, srv'.K)
      <4> HIDE DEF k, n
      <4> QED  BY <1>2, <2>3, <3>5, <3>6 DEF Walking
    <3>8. ASSUME NEW i \in (1..srv.cnt_i) \ Gone PROVE Pending(i)'
      <4>1. Pending(i) /\ i \in Int
        BY <3>2
      <4>2. CASE \E j \in 1..Len(srv.R) : srv.R[j] = Doc(hist.docs[i])
        BY <1>1, <1>2, <4>2 DEF Pending
      <4>3. ~(srv.lln <= i /\ i <= srv.k)
        BY <1>1, <3>2, <4>1 DEF Walking
      <4>4. CASE \E j \in 1..Len(srv.q) : Under(i, srv.q[j][1])
        <5>1. PICK j \in 1..Len(srv.q) : Under(i, srv.q[j][1])
          BY <4>4
        <5>2. CASE j = 1
          <6>1. lln(n) <= i /\ i <= rln(n) /\ i <= srv.cnt_i
            BY <2>3, <5>1, <5>2 DEF Under
          <6>2. i <= k
            BY <6>1
          <6> QED  BY <1>2, <6>1, <6>2 DEF Pending
        <5>3. CASE j # 1
          <6>1. j - 1 \in 1..Len(Tail(srv.q)) /\ Tail(srv.q)[j - 1] = srv.q[j]
            BY <2>2, <5>3
          <6> QED  BY <1>2, <5>1, <6>1 DEF Pending
        <5> QED  BY <5>2, <5>3
      <4> QED  BY <4>1, <4>2, <4>3, <4>4 DEF Pending
    <3> QED  BY <1>2, <3>3, <3>4, <3>5, <3>6, <3>7, <3>8
  <2>5. Gone' = Gone
    BY <1>1 DEF Gone, server
  <2>6. STw' = STw
    BY <1>1 DEF STw, Known
  <2> QED  BY <1>2, <2>1, <2>2, <2>4, <2>5, <2>6 DEF Answering
<1> QED  BY <1>1, <1>3, LoopLInv

\* The walk gives the document of its leaf and follows the link before it.
LEMMA WalkLeafLInv == ASSUME LInv, EInv', WalkLeaf PROVE LInv'
<1> USE DEF LInv
<1> DEFINE e == Read(srv.L, [c |-> srv.C, d |-> srv.D])
<1>1. /\ UNCHANGED <<pc, id, ST, db, ins, sent, server, hist>> /\ pc = "search" /\ Walking
      /\ srv' = [srv EXCEPT !.C = e.c, !.D = e.d, !.R = Append(@, e.c),
                            !.k = @ - 1, !.L = Follow(e.d, srv.k)]
  BY Zenon DEF WalkLeaf
<1>2. /\ srv'.q = srv.q /\ srv'.k = srv.k - 1 /\ srv'.lln = srv.lln /\ srv'.L = Follow(e.d, srv.k)
      /\ srv'.K = srv.K /\ srv'.cnt_i = srv.cnt_i /\ srv'.C = e.c /\ srv'.R = Append(srv.R, e.c)
  BY <1>1 DEF EInv, Locals
<1>3. ASSUME Sane, Leading PROVE Answering'
  <2>1. Answering /\ srv.R \in Seq(Cells) /\ srv.q \in Seq(Int \X Int)
    BY <1>1, <1>3 DEF Leading, Answering
  <2>2. e.c \in Cells
    <3>1. CASE srv.L \in DOMAIN EDB
      BY <3>1 DEF Read, EInv, DInv, TypeOK
    <3>2. CASE srv.L \notin DOMAIN EDB
      BY <2>1, <3>2 DEF Read, Answering
    <3> QED  BY <3>1, <3>2
  <2>3. /\ srv'.R \in Seq(Cells)
        /\ \A j \in 1..Len(srv.R) : j \in 1..Len(srv'.R) /\ srv'.R[j] = srv.R[j]
        /\ \E j \in 1..Len(srv'.R) : srv'.R[j] = e.c
    <3> DEFINE c == e.c
    <3>1. srv'.R = Append(srv.R, c) /\ c \in Cells
      BY <1>2, <2>2
    <3> HIDE DEF c
    <3>2. /\ srv'.R \in Seq(Cells)
          /\ \A j \in 1..Len(srv.R) : j \in 1..Len(srv'.R) /\ srv'.R[j] = srv.R[j]
          /\ \E j \in 1..Len(srv'.R) : srv'.R[j] = c
      BY <2>1, <3>1
    <3> QED  BY <3>2 DEF c
  <2>4. ASSUME SameKey', srv'.cnt_i > 0
        PROVE  /\ Straight'
               /\ \A j \in 1..Len(srv'.q) : srv'.q[j][1] \in Nodes
               /\ srv'.lln \in Int /\ srv'.k \in Int
               /\ Walking' => srv'.lln >= 1 /\ srv'.k \in 1..srv'.cnt_i /\ srv'.L = Leaf(srv'.k, srv'.K)
               /\ \A i \in (1..srv'.cnt_i) \ Gone : Pending(i)'
    <3>1. SameKey /\ srv.cnt_i > 0
      BY <1>1, <1>2, <2>4 DEF SameKey, server
    <3>2. /\ Straight /\ \A j \in 1..Len(srv.q) : srv.q[j][1] \in Nodes
          /\ srv.lln \in Int /\ srv.k \in 1..srv.cnt_i /\ srv.lln >= 1 /\ srv.L = Leaf(srv.k, srv.K)
          /\ \A i \in (1..srv.cnt_i) \ Gone : Pending(i)
      BY <1>1, <2>1, <3>1 DEF Answering
    <3>3. Straight'
      BY <1>1, <1>2, <3>2 DEF Straight, server
    <3>4. e = [c |-> Doc(hist.docs[srv.k]),
               d |-> [h |-> srv.k, to |-> IF srv.k = 1 THEN NoLabel ELSE Leaf(srv.k - 1, srv.K)]]
      BY <3>1, <3>2 DEF SameKey, Straight, Read
    <3>5. srv.k \in Int /\ srv.cnt_i \in Int
      <4>1. STw \in STs
        BY Entries DEF EInv, DInv
      <4>2. STw.cnt_i \in 0..MaxIds
        BY <4>1 DEF STs
      <4> QED  BY <2>1, <3>2, <4>2, Size, BoundsAssumption DEF Answering
    <3>6. ASSUME Walking'
          PROVE  srv'.lln >= 1 /\ srv'.k \in 1..srv'.cnt_i /\ srv'.L = Leaf(srv'.k, srv'.K)
      <4>1. srv.k - 1 >= 1
        BY <1>2, <3>2, <3>5, <3>6 DEF Walking
      <4>2. Follow(e.d, srv.k) = Leaf(srv.k - 1, srv.K)
        BY <3>4, <3>5, <4>1 DEF Follow
      <4> QED  BY <1>2, <3>2, <3>5, <4>1, <4>2
    <3>7. ASSUME NEW i \in (1..srv.cnt_i) \ Gone PROVE Pending(i)'
      <4>1. Pending(i) /\ i \in Int
        BY <3>2
      <4>2. CASE \E j \in 1..Len(srv.R) : srv.R[j] = Doc(hist.docs[i])
        BY <1>1, <2>3, <4>2 DEF Pending
      <4>3. CASE srv.lln <= i /\ i <= srv.k
        <5>1. CASE i = srv.k
          <6>1. e.c = Doc(hist.docs[i])
            BY <3>4, <5>1
          <6> HIDE DEF e
          <6> QED  BY <1>1, <2>3, <6>1 DEF Pending
        <5>2. CASE i # srv.k
          <6>1. srv.lln <= i /\ i <= srv.k - 1
            BY <3>5, <4>1, <4>3, <5>2
          <6> QED  BY <1>2, <6>1 DEF Pending
        <5> QED  BY <5>1, <5>2
      <4>4. CASE \E j \in 1..Len(srv.q) : Under(i, srv.q[j][1])
        BY <1>2, <4>4 DEF Pending
      <4> QED  BY <4>1, <4>2, <4>3, <4>4 DEF Pending
    <3> QED  BY <1>2, <3>2, <3>3, <3>5, <3>6, <3>7
  <2>5. Gone' = Gone
    BY <1>1 DEF Gone, server
  <2>6. STw' = STw
    BY <1>1 DEF STw, Known
  <2> QED  BY <1>2, <2>1, <2>2, <2>3, <2>4, <2>5, <2>6 DEF Answering
<1> QED  BY <1>1, <1>3, LoopLInv

LEMMA NextLInv == LInv /\ [Next]_vars => LInv'
<1> SUFFICES ASSUME LInv, [Next]_vars PROVE LInv'
  OBVIOUS
<1>1. EInv'
  BY NextEInv DEF LInv
<1>2. CASE Start \/ Exit \/ Kill \/ DelCrash \/ DelEnd \/ SearchEnd
  BY <1>1, <1>2, SettledSteps
<1>3. CASE AddFind \/ AddInsert \/ AddSend
  BY <1>1, <1>3, AddFindLInv, AddInsertLInv, AddSendLInv
<1>4. CASE \E i \in 1..MaxIds : DelFind(i)
  BY <1>1, <1>4, DelFindLInv
<1>5. CASE DelRead \/ DelEntry \/ DelTree
  BY <1>1, <1>5, DelReadLInv, DelEntryLInv, DelTreeLInv
<1>6. CASE StartSearch \/ Expand \/ TakeLeaf \/ WalkNode \/ WalkLeaf
  BY <1>1, <1>6, StartSearchLInv, ExpandLInv, TakeLeafLInv, WalkNodeLInv, WalkLeafLInv
<1>7. CASE UNCHANGED vars
  <2> USE DEF LInv
  <2>1. UNCHANGED <<pc, id, ST, db, ins, sent, OD_del, OD_tree, EDB, srv, hist>>
    BY <1>7 DEF vars
  <2>2. Gone' = Gone
    BY <2>1 DEF Gone
  <2>3. STw' = STw /\ Saved' = Saved
    BY <2>1 DEF STw, Known, Saved
  <2>4. Mapped'
    BY <2>1, <2>3 DEF Mapped
  <2>5. Arriving'
    BY <2>1 DEF Arriving
  <2>6. ASSUME Sane' PROVE Leading'
    <3>1. Sane /\ Leading
      BY <2>1, <2>6 DEF Sane
    <3>2. Owned' /\ Rooted(STw)' /\ Rooted(Saved)'
      BY <2>1, <2>2, <2>3, <3>1 DEF Owned, Rooted, Leading
    <3>3. Trees' /\ Whole'
      BY <2>1, <2>2, <3>1 DEF Trees, Whole, Leading
    <3>4. pc' = "search" => Answering'
      BY <2>1, <2>2, <2>3, <3>1 DEF Leading, Answering, SameKey, Straight, Walking, Pending
    <3> QED  BY <3>2, <3>3, <3>4 DEF Leading
  <2> QED  BY <1>1, <2>4, <2>5, <2>6
<1> QED  BY <1>2, <1>3, <1>4, <1>5, <1>6, <1>7 DEF Next, Add, Del, Search

\* At the end of a search nothing is pending any more.
LEMMA LInvLive == LInv => LiveReturned
<1> SUFFICES ASSUME LInv, Answered, SameKey, ~hist.torn, ~hist.again, ~hist.reused,
                    NEW x \in Live(srv.cnt_i)
             PROVE  x \in Found(srv.R)
  BY DEF LiveReturned
<1> USE DEF LInv
<1>1. Sane /\ Leading /\ Answering /\ pc = "search" /\ srv.q = <<>> /\ ~Walking
  BY DEF Sane, Leading, Answered
<1>2. STw.cnt_i \in 0..Len(hist.docs) /\ hist.docs \in Seq(0..MaxIds) /\ srv.cnt_i = STw.cnt_i
  BY <1>1, Entries DEF EInv, DInv, STs, Behind, Answering
<1> DEFINE s == SubSeq(hist.docs, 1, STw.cnt_i)
<1>3. s \in Seq(0..MaxIds) /\ Len(s) = STw.cnt_i /\ \A j \in 1..STw.cnt_i : s[j] = hist.docs[j]
  BY <1>2, Prefix
<1>4. x \in Docs(s) /\ x \notin hist.deleted
  BY <1>2 DEF Live
<1> HIDE DEF s
<1>5. PICK i \in 1..STw.cnt_i : hist.docs[i] = x
  <2>1. \E i \in 1..STw.cnt_i : s[i] = x
    BY <1>3, <1>4 DEF Docs
  <2> QED  BY <1>3, <2>1
<1>6. x \in DOMAIN OD_del /\ OD_del[x] = i
  BY <1>5 DEF Mapped
<1>7. i \notin Gone
  <2> SUFFICES ASSUME NEW y \in hist.deleted, OD_del[y] = i PROVE FALSE
    BY DEF Gone
  <2>1. i <= STw.cnt_i
    BY <1>2
  <2> QED  BY <1>1, <1>4, <1>5, <2>1 DEF Leading, Owned
<1>8. i \in (1..srv.cnt_i) \ Gone /\ srv.cnt_i > 0 /\ i \in Int
  BY <1>2, <1>5, <1>7
<1>9. Pending(i) /\ srv.lln \in Int /\ srv.k \in Int
  BY <1>1, <1>8 DEF Answering
<1>10. PICK j \in 1..Len(srv.R) : srv.R[j] = Doc(x)
  BY <1>1, <1>5, <1>8, <1>9 DEF Pending, Walking
<1>11. x # 0
  <2>1. \E n \in 0..MaxIds : DOMAIN OD_del = 1..n
    BY DEF EInv, DInv, Filled
  <2> QED  BY <1>6, <2>1, Size, BoundsAssumption
<1>12. DOMAIN srv.R = 1..Len(srv.R)
  BY <1>1 DEF Answering
<1> QED  BY <1>10, <1>11, <1>12 DEF Found, Doc

\* For a tree of any depth, any number of documents, deletions, keys and killed
\* processes: before the key of its updates changes, a search returns every
\* document that was added and not deleted.  However the deletions before it
\* spliced the tree, each entry they stored and each node they wrote still leads
\* to all leaves that are left under it.
THEOREM NoLiveDocumentLost == Spec => []LiveReturned
<1>1. Spec => []LInv
  BY InitLInv, NextLInv, PTL DEF Spec
<1> QED  BY <1>1, LInvLive, PTL

-----------------------------------------------------------------------------
\* The first two deletions take effect.

\* A child above the first level of inner nodes.
High(c) == get_h(c) >= 3

\* How many deletions have passed under node c of the tree F.
NumOf(F, c) == IF c \in DOMAIN F THEN F[c].Num ELSE 0

\* The counter node x keeps for a child is the child's; Match asks it only of a
\* child that some deletion has written.
Strict(x, F) == x.lNum = NumOf(F, x.l) /\ x.rNum = NumOf(F, x.r)
Match(x, F) == /\ x.l \in DOMAIN F => x.lNum = F[x.l].Num
               /\ x.r \in DOMAIN F => x.rNum = F[x.r].Num

\* No child of x is a deleted leaf.
Clear(x, gone) == x.l \notin gone /\ x.r \notin gone

\* After one deletion at most one child of a node has been written, and its
\* sibling is then an inner node above the first level.
Thin(x, F) == /\ x.l \in DOMAIN F => x.r \notin DOMAIN F /\ High(x.r)
              /\ x.r \in DOMAIN F => x.l \notin DOMAIN F /\ High(x.l)

\* The nodes that have been written and not spliced out.
Kept(F) == {n \in DOMAIN F : F[n].Num # -1}

\* What the counters of a tree are worth after d deletions: after one each is the
\* child's, after two each is where the child has been written; later they need
\* not be, for Relink puts the sibling's counter in place of the left child's
\* whichever side the sibling is on.  That no child is a deleted leaf, and that
\* all nodes over a deleted leaf have been written, holds at every d.
Precise(F, d, gone) ==
  /\ d = 0 => DOMAIN F = {}
  /\ d = 1 => \A n \in Kept(F) : Strict(F[n], F) /\ Thin(F[n], F)
  /\ d <= 2 => \A n \in Kept(F) : Match(F[n], F)
  /\ \A n \in Kept(F) : Clear(F[n], gone)
  /\ \A n \in Inner, g \in gone : Under(g, n) => n \in DOMAIN F

\* Every deletion has counted every node over all updates 1..c.
Top(F, d, c) == \A n \in Inner : lln(n) = 1 /\ c <= rln(n) /\ ~Removed(F, n) => NumOf(F, n) = d

\* Nothing was added after a deletion, no document deleted twice, no process
\* killed, and every deletion that has been worked out counts.
Full == ~hist.mixed /\ ~hist.again /\ hist.kills = 0 /\ STw.cnt_d = Done

\* What the accidents in hist mean for each other and for the deletions.
Accidents ==
  /\ hist.kills \in Nat
  /\ hist.torn => hist.kills > 0
  /\ hist.reused => hist.mixed
  /\ hist.deleted = {} => hist.dels = 0
  /\ ~hist.again => IsFiniteSet(hist.deleted) /\ Cardinality(hist.deleted) = hist.dels

\* Between sessions ST is the database's; a search has the token's count.
Sessions == (pc = "off" => ST = db) /\ (pc = "search" => srv.cnt_d = STw.cnt_d)

\* The last node of a deletion arrives after all entries.
Streams == pc = "del" /\ sent.tree = Len(ins) => sent.entry >= Len(ins) - 1

\* A leaf's entry is an update's.
LeavesOf(E, c) == \A l \in DOMAIN E : l[1] <= N => l[1] \in 1..c

\* An entry under a node's present counter is the node.
NodesOf(F, E) ==
  \A l \in DOMAIN E : l[1] > N =>
    /\ l[1] \in DOMAIN F
    /\ l[1] \in Kept(F) => l[2] <= F[l[1]].Num /\ (l[2] = F[l[1]].Num => E[l].c = F[l[1]])

\* Every node that stays has an entry under its counter, or is one of w, of which
\* m have been stored.
Entered(F, E, w, m) ==
  \A n \in Kept(F) : \/ \E K \in 0..MaxKeys : Node(n, F[n].Num, K) \in DOMAIN E
                     \/ \E j \in 1..(Len(w) - 1) : j > m /\ w[j].Node = n

\* A search of c updates starts from a node that is there.
Starts(F, gone, c, sn) == sn \notin gone /\ ~Removed(F, sn) /\ (c = 0 => sn = 0)

\* What holds of every history.
Books == Accidents /\ Sessions /\ Streams

\* What a search may rely on: the tree F, the entries E, the m entries stored of
\* the nodes w a deletion has written, d deletions, the deleted leaves gone, c
\* updates, and the node sn a search starts from.
Sums(F, E, w, m, d, gone, c, sn) ==
  /\ Precise(F, d, gone) /\ Top(F, d, c) /\ Starts(F, gone, c, sn)
  /\ LeavesOf(E, c) /\ NodesOf(F, E) /\ Entered(F, E, w, m)

\* An element of the queue: a leaf that is left, or a node with its counter.
Fine(x, F, gone) ==
  IF x[1] <= N THEN x[1] \notin gone
  ELSE x[1] \in Inner /\ ~Removed(F, x[1]) /\ (x[1] \in DOMAIN F => x[2] = F[x[1]].Num)

\* What a search of c updates may return: a node, the empty string or a document
\* that is left.
Rightful(x, c, gone, docs) == x \in Links \/ x = Doc(0) \/ \E i \in (1..c) \ gone : x = Doc(docs[i])

\* All entries are under the key of the search.
OneKey == \A l \in DOMAIN EDB : l[3] = srv.K

\* What holds at every turn of an exact search: the queue, the leaves the walk
\* has yet to come to, the last value read, and the results.
Exacting ==
  /\ \A j \in 1..Len(srv.q) : Fine(srv.q[j], OD_tree, Gone)
  /\ srv.lln \in Int /\ srv.k \in Int
  /\ Walking => /\ srv.lln >= 1 /\ srv.k <= srv.cnt_i
                /\ \A i \in srv.lln..srv.k : i \notin Gone
  /\ Rightful(srv.C, srv.cnt_i, Gone, hist.docs)
  /\ \A j \in 1..Len(srv.R) : Rightful(srv.R[j], srv.cnt_i, Gone, hist.docs)

\* The tree as it will be when the nodes under way have arrived.
TheTree == Overlay(OD_tree, ins)

\* What a search may rely on now, and one that is under way.
Tallied == Sums(TheTree, EDB, ins, sent.entry, Done, Gone, STw.cnt_i, STw.sn)
Staying == Tallied /\ (pc = "search" /\ OneKey /\ Done <= 2 => Exacting)

\* The inductive invariant of FewDeletesHold.
FInv == LInv /\ Books /\ (Full => Staying)

\* Trees that agree on every node.
Alike(F, G) == DOMAIN G = DOMAIN F /\ \A n \in DOMAIN F : G[n] = F[n]
-----------------------------------------------------------------------------
\* The counters a deletion writes: every node above the last counts it, and for
\* the child over the leaf; the last node's parent gets the sibling's counter on
\* the left, whichever side the sibling goes to.
CountsAre(a, w, k, s) ==
  /\ \A j \in 1..k : j < k => w[j].Num = a[j].Num + 1
  /\ \A j \in 1..k : j < k - 1 =>
       /\ w[j].lNum = IF a[j].l = a[j + 1].Node THEN a[j].lNum + 1 ELSE a[j].lNum
       /\ w[j].rNum = IF a[j].l # a[j + 1].Node /\ a[j].r = a[j + 1].Node THEN a[j].rNum + 1 ELSE a[j].rNum
  /\ w[k - 1].lNum = s.num /\ w[k - 1].rNum = a[k - 1].rNum

\* The one node of a deletion that gets a child with a different number.
Distinct(g, p, s) == s.n # p.Node /\ (g.l = p.Node => g.r # p.Node)

\* What Bump counts: a deletion below x, and the child it goes through.
LEMMA BumpCounts ==
  ASSUME NEW x \in Links, NEW y
  PROVE  /\ Bump(x, y).Num = x.Num + 1
         /\ Bump(x, y).lNum = IF x.l = y.Node THEN x.lNum + 1 ELSE x.lNum
         /\ Bump(x, y).rNum = IF x.l # y.Node /\ x.r = y.Node THEN x.rNum + 1 ELSE x.rNum
BY DEF Links, Bump

\* The counters of the nodes a deletion writes are those of CountsAre.
LEMMA WrittenCounts ==
  ASSUME NEW a \in Seq(Links), NEW leaf, NEW k, k = Len(a), k >= 2,
         NEW s, s = Sibling(a[k], leaf), Distinct(a[k - 1], a[k], s)
  PROVE  CountsAre(a, Written(a, leaf), k, s)
<1> DEFINE w == Written(a, leaf)
           g == Relink(a[k - 1], a[k], s)
           b == IF k < 2 THEN a ELSE [a EXCEPT ![k - 1] = g]
<1>1. k \in Nat /\ DOMAIN a = 1..k /\ (\A j \in 1..k : a[j] \in Links) /\ k - 1 \in 1..k /\ k \in 1..k /\ k - 1 # k /\ k - 1 < k
  OBVIOUS
<1>2. w = [j \in 1..k |-> IF j = k THEN [b[k] EXCEPT !.Num = -1] ELSE Bump(b[j], a[j + 1])]
  BY DEF Written
<1>3. \A j \in 1..k : j # k - 1 => b[j] = a[j]
  BY <1>1
<1>4. b[k - 1] = g
  BY <1>1
<1> HIDE DEF b
<1>5. ASSUME NEW j \in 1..k, j < k - 1
      PROVE  /\ w[j].Num = a[j].Num + 1
             /\ w[j].lNum = IF a[j].l = a[j + 1].Node THEN a[j].lNum + 1 ELSE a[j].lNum
             /\ w[j].rNum = IF a[j].l # a[j + 1].Node /\ a[j].r = a[j + 1].Node THEN a[j].rNum + 1 ELSE a[j].rNum
  <2>1. j # k /\ j # k - 1
    BY <1>1, <1>5
  <2>2. w[j] = Bump(a[j], a[j + 1])
    BY <1>2, <1>3, <2>1
  <2> DEFINE u == a[j]
             v == a[j + 1]
  <2>3. u \in Links /\ w[j] = Bump(u, v)
    BY <1>1, <2>2
  <2> HIDE DEF w, u, v
  <2>4. /\ w[j].Num = u.Num + 1
        /\ w[j].lNum = IF u.l = v.Node THEN u.lNum + 1 ELSE u.lNum
        /\ w[j].rNum = IF u.l # v.Node /\ u.r = v.Node THEN u.rNum + 1 ELSE u.rNum
    <3>1. /\ Bump(u, v).Num = u.Num + 1
          /\ Bump(u, v).lNum = IF u.l = v.Node THEN u.lNum + 1 ELSE u.lNum
          /\ Bump(u, v).rNum = IF u.l # v.Node /\ u.r = v.Node THEN u.rNum + 1 ELSE u.rNum
      BY <2>3, BumpCounts
    <3> QED  BY ONLY <2>3, <3>1
  <2> QED  BY <2>4 DEF u, v
<1>6. w[k - 1].Num = a[k - 1].Num + 1 /\ w[k - 1].lNum = s.num /\ w[k - 1].rNum = a[k - 1].rNum
  <2>1. w[k - 1] = Bump(g, a[(k - 1) + 1])
    BY <1>1, <1>2, <1>4
  <2>2. (k - 1) + 1 = k
    BY <1>1
  <2>3. a[k - 1] \in Links
    BY <1>1
  <2> DEFINE u == a[k - 1]
             p == a[k]
  <2>4. u \in Links /\ w[k - 1] = Bump(g, p) /\ g = Relink(u, p, s) /\ Distinct(u, p, s)
    BY <2>1, <2>2, <2>3
  <2> HIDE DEF w, g, u, p
  <2>5. /\ g.Num = u.Num /\ g.lNum = s.num /\ g.rNum = u.rNum /\ g.l # p.Node /\ g.r # p.Node
        /\ DOMAIN g = DOMAIN u
    BY <2>4 DEF Relink, Links, Distinct
  <2>6. /\ Bump(g, p).Num = g.Num + 1 /\ Bump(g, p).lNum = g.lNum /\ Bump(g, p).rNum = g.rNum
    <3>1. {"Num", "lNum", "rNum"} \subseteq DOMAIN g
      BY <2>4, <2>5 DEF Links
    <3> QED  BY <2>5, <3>1 DEF Bump
  <2> QED  BY <2>4, <2>5, <2>6 DEF u
<1>7. \A j \in 1..k : j < k => j < k - 1 \/ j = k - 1
  BY <1>1
<1> HIDE DEF w
<1>8. \A j \in 1..k : j < k => w[j].Num = a[j].Num + 1
  BY <1>5, <1>6, <1>7
<1>9. CountsAre(a, w, k, s)
  BY <1>5, <1>6, <1>8 DEF CountsAre
<1> QED  BY <1>9 DEF w
-----------------------------------------------------------------------------
\* The ancestors a of a leaf that a deletion finds in the tree F.
OnWay(F, leaf, gone, a, k) ==
  /\ k \in Nat /\ k >= 2 /\ leaf \in 1..N /\ leaf \notin gone /\ Tree(F, gone)
  /\ \A j \in 1..k : /\ a[j].Node \in Inner /\ Under(leaf, a[j].Node)
                     /\ ~Removed(F, a[j].Node) /\ Sound(a[j], F, gone)
                     /\ a[j] \in Links /\ Down(a[j]) /\ a[j].Num >= 0
  /\ \A n \in Inner : Under(leaf, n) /\ ~Removed(F, n) => \E j \in 1..k : a[j].Node = n
  /\ \A i, j \in 1..k : i < j => a[j].Node < a[i].Node

\* Of an ancestor's children one is over the leaf, the next ancestor or the leaf.
After(leaf, a, k, j) == IF j = k THEN leaf ELSE a[j + 1].Node
Splits(leaf, a, k) ==
  \A j \in 1..k : \/ a[j].l = After(leaf, a, k, j) /\ ~Under(leaf, a[j].r)
                  \/ a[j].r = After(leaf, a, k, j) /\ ~Under(leaf, a[j].l)

\* An ancestor is the tree's, or as fresh as one no deletion has touched.
Untouched(x) == /\ x.Num = 0 /\ x.lNum = 0 /\ x.rNum = 0
                /\ get_h(x.l) = get_h(x.Node) - 1 /\ get_h(x.r) = get_h(x.Node) - 1
Taken(F, a, k) ==
  \A j \in 1..k : /\ a[j].Node \in DOMAIN F => a[j] = F[a[j].Node]
                  /\ a[j].Node \notin DOMAIN F => Untouched(a[j])

\* The tree G has what was written over F.
Replaced(F, a, k, w, G) ==
  /\ \A n : n \in DOMAIN G <=> n \in DOMAIN F \/ \E j \in 1..k : a[j].Node = n
  /\ \A j \in 1..k : G[a[j].Node] = w[j]
  /\ \A n \in DOMAIN F : (\A j \in 1..k : a[j].Node # n) => G[n] = F[n]

\* A deletion of leaf from the tree F that leaves the tree G.
Deletion(F, leaf, gone, a, k, w, G) ==
  /\ OnWay(F, leaf, gone, a, k) /\ Splits(leaf, a, k) /\ Taken(F, a, k)
  /\ LinksAre(a, w, k, Sibling(a[k], leaf).n) /\ CountsAre(a, w, k, Sibling(a[k], leaf))
  /\ Replaced(F, a, k, w, G)

\* A fresh ancestor counts nothing, and its children are of the level below.
LEMMA FreshUntouched ==
  ASSUME NEW leaf \in 1..N, NEW d \in 1..Depth
  PROVE  Untouched(Fresh(leaf, d))
<1> DEFINE j == Depth - d
           x == NodeAt(leaf, j)
           y == NodeAt(leaf, j + 1)
<1>1. Depth \in Nat /\ j \in 0..(Depth - 1) /\ j + 1 \in 1..Depth
  BY DepthAssumption
<1>2. InternalNodes(leaf)[d] = y
  <2>1. Depth + 1 - d = j + 1
    BY <1>1
  <2> QED  BY <2>1 DEF InternalNodes
<1>3. (IF d = Depth THEN leaf ELSE InternalNodes(leaf)[d + 1]) = x
  <2>1. CASE d = Depth
    <3>1. j = 0
      BY <1>1, <2>1
    <3> QED  BY <2>1, <3>1, LeafLevel
  <2>2. CASE d # Depth
    <3>1. d + 1 \in 1..Depth /\ Depth + 1 - (d + 1) = j
      BY <1>1, <2>2
    <3> QED  BY <2>2, <3>1 DEF InternalNodes
  <2> QED  BY <2>1, <2>2
<1> HIDE DEF x, y
<1>4. Fresh(leaf, d) = [Node |-> y, Num |-> 0, l |-> LeftOf(x), lNum |-> 0, r |-> RightOf(x), rNum |-> 0]
  BY Zenon, <1>2, <1>3 DEF Fresh
<1>5. get_h(LeftOf(x)) = j + 1 /\ get_h(RightOf(x)) = j + 1 /\ get_h(y) = j + 2
  <2>1. x = NodeAt(leaf, j) /\ y = NodeAt(leaf, j + 1)
    BY DEF x, y
  <2> HIDE DEF j
  <2> QED  BY <1>1, <2>1, Kids
<1> HIDE DEF j
<1>6. j \in Int
  BY <1>1
<1> QED  BY <1>4, <1>5, <1>6 DEF Untouched

\* The ancestors a deletion finds are the tree's nodes, or fresh ones.
LEMMA AncestorsTaken ==
  ASSUME NEW leaf \in 1..N, NEW gone, Tree(OD_tree, gone), NEW a, a = Ancestors(leaf)
  PROVE  Taken(OD_tree, a, Len(a))
<1> DEFINE K == Left(leaf)
<1>1. Depth \in Nat /\ K \in SUBSET (1..Depth)
  BY DepthAssumption DEF Left
<1>2. /\ Cardinality(K) \in Nat
      /\ \A j \in 1..Cardinality(K) : \E d \in K : Cardinality(K \cap 1..d) = j
  <2> HIDE DEF K
  <2> QED  BY <1>1, Ranks
<1>3. \A j \in 1..Cardinality(K) : Nth(leaf, j) \in K
  BY <1>2 DEF Nth
<1>4. a = [j \in 1..Cardinality(K) |-> At(leaf)[Nth(leaf, j)]]
  BY AncestorsBy
<1>5. Len(a) = Cardinality(K)
  BY <1>2, <1>4
<1> HIDE DEF K
<1>6. ASSUME NEW j \in 1..Len(a)
      PROVE  /\ a[j].Node \in DOMAIN OD_tree => a[j] = OD_tree[a[j].Node]
             /\ a[j].Node \notin DOMAIN OD_tree => Untouched(a[j])
  <2> DEFINE d == Nth(leaf, j)
             n == InternalNodes(leaf)[d]
  <2>1. d \in 1..Depth /\ a[j] = At(leaf)[d]
    BY <1>1, <1>3, <1>4, <1>5
  <2> HIDE DEF d
  <2>2. At(leaf)[d] = IF n \in DOMAIN OD_tree THEN OD_tree[n] ELSE Fresh(leaf, d)
    BY <2>1 DEF At
  <2>3. CASE n \in DOMAIN OD_tree
    <3>1. a[j] = OD_tree[n]
      BY <2>1, <2>2, <2>3
    <3>2. OD_tree[n].Node = n
      BY <2>3 DEF Tree
    <3> QED  BY <2>3, <3>1, <3>2
  <2>4. CASE n \notin DOMAIN OD_tree
    <3>1. a[j] = Fresh(leaf, d)
      BY <2>1, <2>2, <2>4
    <3>2. a[j].Node = n
      BY <2>1, <3>1, FreshIs
    <3> QED  BY <2>1, <2>4, <3>1, <3>2, FreshUntouched
  <2> QED  BY <2>3, <2>4
<1> QED  BY <1>6 DEF Taken

\* What WrittenTree works out of a deletion, in one piece.
LEMMA DeletionIs ==
  ASSUME NEW leaf \in 1..N, NEW gone, leaf \notin gone, Tree(OD_tree, gone),
         NEW a, a = Ancestors(leaf), NEW k, k = Len(a), k >= 2,
         NEW e \in Nat, Descent(a, e), e + 1 <= MaxDeletes,
         NEW w, w = Written(a, leaf)
  PROVE  Deletion(OD_tree, leaf, gone, a, k, w, Overlay(OD_tree, w))
<1> DEFINE F == OD_tree
           G == Overlay(OD_tree, w)
           s == Sibling(a[k], leaf)
<1>1. a \in Seq(Links) /\ k \in Nat /\ k \in 1..k /\ k - 1 \in 1..k /\ k - 1 # k
  BY DEF Descent
<1>2. /\ \A j \in 1..k : /\ a[j].Node \in Inner /\ Under(leaf, a[j].Node)
                         /\ ~Removed(F, a[j].Node) /\ Sound(a[j], F, gone)
      /\ \A n \in Inner : Under(leaf, n) /\ ~Removed(F, n) => \E j \in 1..k : a[j].Node = n
  BY AncestorsAre
<1>3. \A j \in 1..k : a[j] \in Links /\ Down(a[j]) /\ a[j].Num >= 0
  BY DEF Descent
<1>4. \A i, j \in 1..k : i < j => a[j].Node < a[i].Node
  BY DEF Descent
<1>5. OnWay(F, leaf, gone, a, k)
  BY <1>1, <1>2, <1>3, <1>4 DEF OnWay
<1>6. Splits(leaf, a, k)
  <2> SUFFICES ASSUME NEW j \in 1..k
               PROVE  \/ a[j].l = After(leaf, a, k, j) /\ ~Under(leaf, a[j].r)
                      \/ a[j].r = After(leaf, a, k, j) /\ ~Under(leaf, a[j].l)
    BY DEF Splits
  <2>1. \A c \in {a[j].l, a[j].r} : Under(leaf, c) => c = After(leaf, a, k, j)
    BY NextDown DEF After
  <2>2. /\ a[j].l \in Nodes /\ a[j].r \in Nodes /\ rln(a[j].l) < lln(a[j].r)
        /\ Under(leaf, a[j].l) \/ Under(leaf, a[j].r)
    BY <1>2 DEF Sound, Covering
  <2>3. ~(Under(leaf, a[j].l) /\ Under(leaf, a[j].r))
    <3> DEFINE u == a[j].l
               v == a[j].r
    <3>1. u \in Nodes /\ v \in Nodes /\ rln(u) < lln(v)
      BY <2>2
    <3> HIDE DEF u, v
    <3>2. rln(u) \in 1..N /\ lln(v) \in 1..N
      BY <3>1, Path
    <3>3. ~(Under(leaf, u) /\ Under(leaf, v))
      BY <3>1, <3>2, Size DEF Under
    <3> QED  BY <3>3 DEF u, v
  <2> QED  BY <2>1, <2>2, <2>3
<1>7. Taken(F, a, k)
  BY AncestorsTaken
<1>8. LinksAre(a, w, k, s.n)
  BY <1>1, WrittenLinks
<1>9. CountsAre(a, w, k, s)
  <2> DEFINE g == a[k - 1]
             p == a[k]
  <2>1. g \in Links /\ p \in Links /\ Down(g) /\ Down(p) /\ p.Node < g.Node
    BY <1>1, <1>3, <1>4
  <2>2. s = IF p.l = leaf THEN (IF p.r <= N THEN [n |-> p.r, num |-> 0] ELSE [n |-> p.r, num |-> p.rNum])
            ELSE (IF p.l <= N THEN [n |-> p.l, num |-> 0] ELSE [n |-> p.l, num |-> p.lNum])
    BY DEF Sibling
  <2>3. rln(g.l) < lln(g.r) /\ g.l \in Nodes
    BY <1>1, <1>2 DEF Sound, Covering
  <2>4. g.l # g.r
    <3> HIDE DEF g
    <3>1. lln(g.l) \in 1..N /\ rln(g.l) \in 1..N /\ lln(g.l) <= rln(g.l)
      BY <2>3, Path
    <3> QED  BY <2>3, <3>1, Size
  <2> HIDE DEF g, p
  <2>5. p.l # p.Node /\ p.r # p.Node
    <3>1. p.l \in Int /\ p.r \in Int /\ p.Node \in Int
      BY <2>1, Size DEF Links
    <3> QED  BY <2>1, <3>1 DEF Down
  <2>6. s.n = p.l \/ s.n = p.r
    BY <2>2
  <2> HIDE DEF s
  <2>7. Distinct(g, p, s)
    BY <2>4, <2>5, <2>6 DEF Distinct
  <2>8. Distinct(a[k - 1], a[k], s) /\ s = Sibling(a[k], leaf)
    BY <2>7 DEF g, p, s
  <2> QED  BY <1>1, <2>8, WrittenCounts
<1>10. Replaced(F, a, k, w, G)
  <2>1. DOMAIN w = 1..k
    BY <1>8 DEF LinksAre
  <2>2. \A j \in 1..k : w[j].Node = a[j].Node
    BY <1>1, WrittenIs
  <2>3. \A i, j \in 1..k : i < j => w[j].Node < w[i].Node
    BY <1>4, <2>2
  <2>4. \A j \in 1..k : w[j].Node \in Int
    BY <1>2, <2>2, InnerIs
  <2>5. Falling(w, k)
    BY <1>1, <2>1, <2>3, <2>4 DEF Falling
  <2>6. Overlaid(F, w, k, G)
    <3> HIDE DEF F
    <3>1. G = Overlay(F, w)
      BY DEF F
    <3> HIDE DEF G
    <3> QED  BY <2>5, <3>1, OverlayIs
  <2>7. \A n : Wrote(w, n) <=> \E j \in 1..k : a[j].Node = n
    BY <2>1, <2>2 DEF Wrote
  <2> HIDE DEF G
  <2> QED  BY <2>2, <2>6, <2>7 DEF Overlaid, Replaced
<1> HIDE DEF F, G, s
<1>11. Deletion(F, leaf, gone, a, k, w, G)
  BY <1>5, <1>6, <1>7, <1>8, <1>9, <1>10 DEF Deletion, s
<1> QED  BY <1>11 DEF F, G
-----------------------------------------------------------------------------
\* What is not over the leaf of a deletion is as it was.
LEMMA Beside ==
  ASSUME NEW F, NEW leaf, NEW gone, NEW a, NEW k, NEW w, NEW G, Deletion(F, leaf, gone, a, k, w, G),
         NEW c, ~Under(leaf, c)
  PROVE  (c \in DOMAIN G <=> c \in DOMAIN F) /\ (c \in DOMAIN F => G[c] = F[c]) /\ NumOf(G, c) = NumOf(F, c)
<1>1. \A j \in 1..k : a[j].Node # c
  BY DEF Deletion, OnWay
<1>2. (c \in DOMAIN G <=> c \in DOMAIN F) /\ (c \in DOMAIN F => G[c] = F[c])
  BY <1>1 DEF Deletion, Replaced
<1> QED  BY <1>2 DEF NumOf

\* A node that stays and was not written is the tree's, and not over the leaf.
LEMMA Unwritten ==
  ASSUME NEW F, NEW leaf, NEW gone, NEW a, NEW k, NEW w, NEW G, Deletion(F, leaf, gone, a, k, w, G),
         NEW n \in Kept(G), \A j \in 1..k : a[j].Node # n
  PROVE  /\ n \in Kept(F) /\ G[n] = F[n]
         /\ F[n].l \in Nodes /\ F[n].r \in Nodes /\ ~Under(leaf, F[n].l) /\ ~Under(leaf, F[n].r)
<1>1. n \in Kept(F) /\ G[n] = F[n]
  BY DEF Deletion, Replaced, Kept
<1>2. n \in Inner /\ Sound(F[n], F, gone) /\ F[n].Node = n /\ ~Removed(F, n)
  BY <1>1 DEF Deletion, OnWay, Tree, Closed, Kept, Removed
<1>3. ~Under(leaf, n)
  BY <1>2 DEF Deletion, OnWay
<1>4. ASSUME NEW c \in {F[n].l, F[n].r} PROVE c \in Nodes /\ ~Under(leaf, c)
  <2>1. c \in Nodes /\ Over(n, c)
    BY <1>2 DEF Sound, Covering, Hung
  <2>2. leaf \in 1..N /\ n \in Nodes
    BY <1>2, InnerIs DEF Deletion, OnWay
  <2> QED  BY <1>3, <2>1, <2>2, UnderOver
<1> QED  BY <1>1, <1>4

\* A node that stays and was written is not the last one.
LEMMA WrittenKept ==
  ASSUME NEW F, NEW leaf, NEW gone, NEW a, NEW k, NEW w, NEW G, Deletion(F, leaf, gone, a, k, w, G),
         NEW n \in Kept(G), NEW i \in 1..k, a[i].Node = n
  PROVE  /\ G[n] = w[i] /\ i < k
         /\ i < k - 1 => i + 1 \in 1..k /\ i + 1 < k /\ i # k /\ i # k - 1
         /\ ~(i < k - 1) => i = k - 1 /\ n = a[k - 1].Node
<1>1. k \in Nat /\ k >= 2
  BY DEF Deletion, OnWay
<1>2. G[n] = w[i]
  BY DEF Deletion, Replaced
<1>3. i # k
  BY <1>1, <1>2 DEF Deletion, LinksAre, Kept
<1> QED  BY <1>1, <1>2, <1>3

\* The nodes over a leaf are not of its level.
LEMMA LevelOne == /\ \A i \in 1..N : get_h(i) = 1
                  /\ \A n \in Inner : get_h(n) \in Int /\ get_h(n) >= 2
<1>1. ASSUME NEW i \in 1..N PROVE get_h(i) = 1
  <2>1. get_h(NodeAt(i, 0)) = 0 + 1 /\ NodeAt(i, 0) = i
    BY NumberOf, LeafLevel, DepthAssumption
  <2> QED  BY <2>1
<1>2. ASSUME NEW n \in Inner PROVE get_h(n) \in Int /\ get_h(n) >= 2
  <2>1. n \in Nodes /\ n > N /\ n \in Int
    BY InnerIs
  <2>2. lln(n) \in 1..N /\ Under(lln(n), n)
    BY <2>1, SomeLeaf
  <2> DEFINE i == lln(n)
  <2>3. i \in 1..N /\ Under(i, n)
    BY <2>2
  <2> HIDE DEF i
  <2>4. get_h(n) \in 1..(Depth + 1) /\ n = NodeAt(i, get_h(n) - 1)
    BY <2>1, <2>3, ByLevel
  <2>5. get_h(n) # 1
    <3> SUFFICES ASSUME get_h(n) = 1 PROVE FALSE
      OBVIOUS
    <3>1. n = NodeAt(i, 0)
      BY <2>4
    <3>2. n = i
      BY <2>3, <3>1, LeafLevel
    <3> QED  BY <2>1, <2>3, <3>2, Size
  <2> QED  BY <2>4, <2>5, DepthAssumption
<1> QED  BY <1>1, <1>2

\* The links of an ancestor lead down, and none of its children is removed.
LEMMA AncestorLinks ==
  ASSUME NEW F, NEW leaf, NEW gone, NEW a, NEW k, NEW w, NEW G, Deletion(F, leaf, gone, a, k, w, G),
         NEW j \in 1..k, NEW c \in {a[j].l, a[j].r}
  PROVE  /\ c \in Nodes /\ c \in Int /\ c < a[j].Node /\ Over(a[j].Node, c)
         /\ c \in DOMAIN F => a[j].Node \in DOMAIN F
<1>1. a[j].Node \in Inner /\ Sound(a[j], F, gone) /\ a[j] \in Links /\ Down(a[j]) /\ Tree(F, gone)
  BY DEF Deletion, OnWay
<1>2. c \in Nodes /\ c < a[j].Node /\ Over(a[j].Node, c)
  BY <1>1 DEF Sound, Covering, Hung, Down
<1>3. c \in DOMAIN F => a[j].Node \in DOMAIN F
  BY <1>1, <1>2 DEF Tree, Closed
<1> QED  BY <1>2, <1>3, InnerIs

\* The counters of an ancestor are those of its children, if they are in the tree.
LEMMA AncestorStrict ==
  ASSUME NEW F, NEW leaf, NEW gone, NEW a, NEW k, NEW w, NEW G, Deletion(F, leaf, gone, a, k, w, G),
         \A n \in Kept(F) : Strict(F[n], F), NEW j \in 1..k
  PROVE  Strict(a[j], F) /\ NumOf(F, a[j].Node) = a[j].Num
<1>1. CASE a[j].Node \in DOMAIN F
  <2>1. a[j] = F[a[j].Node] /\ a[j].Num # -1
    BY <1>1 DEF Deletion, Taken, OnWay
  <2> QED  BY <1>1, <2>1 DEF Kept, NumOf
<1>2. CASE a[j].Node \notin DOMAIN F
  <2>1. Untouched(a[j])
    BY <1>2 DEF Deletion, Taken
  <2>2. a[j].l \notin DOMAIN F /\ a[j].r \notin DOMAIN F
    BY <1>2, AncestorLinks
  <2> QED  BY <1>2, <2>1, <2>2 DEF Untouched, Strict, NumOf
<1> QED  BY <1>1, <1>2

\* If all counters were exact, those written are, but for the one node that gets
\* another child.
LEMMA StrictAbove ==
  ASSUME NEW F, NEW leaf, NEW gone, NEW a, NEW k, NEW w, NEW G, Deletion(F, leaf, gone, a, k, w, G),
         \A n \in Kept(F) : Strict(F[n], F), NEW n \in Kept(G), n # a[k - 1].Node
  PROVE  Strict(G[n], G)
<1>1. CASE \A j \in 1..k : a[j].Node # n
  <2>1. /\ n \in Kept(F) /\ G[n] = F[n]
        /\ F[n].l \in Nodes /\ F[n].r \in Nodes /\ ~Under(leaf, F[n].l) /\ ~Under(leaf, F[n].r)
    BY <1>1, Unwritten
  <2>2. NumOf(G, F[n].l) = NumOf(F, F[n].l) /\ NumOf(G, F[n].r) = NumOf(F, F[n].r)
    BY <2>1, Beside
  <2> QED  BY <2>1, <2>2 DEF Strict
<1>2. CASE \E j \in 1..k : a[j].Node = n
  <2>1. PICK j \in 1..k : a[j].Node = n
    BY <1>2
  <2>2. G[n] = w[j] /\ j < k - 1 /\ j + 1 \in 1..k /\ j + 1 < k /\ j # k
    BY <2>1, WrittenKept
  <2> DEFINE x == a[j]
             m == a[j + 1].Node
  <2>3. /\ w[j].l = x.l /\ w[j].r = x.r
        /\ w[j].lNum = IF x.l = m THEN x.lNum + 1 ELSE x.lNum
        /\ w[j].rNum = IF x.l # m /\ x.r = m THEN x.rNum + 1 ELSE x.rNum
        /\ w[j + 1].Num = a[j + 1].Num + 1
    BY <2>2 DEF Deletion, LinksAre, CountsAre
  <2>4. \/ x.l = m /\ ~Under(leaf, x.r)
        \/ x.r = m /\ ~Under(leaf, x.l)
    BY <2>2 DEF Deletion, Splits, After
  <2>5. Strict(x, F) /\ NumOf(F, m) = a[j + 1].Num
    BY <2>2, AncestorStrict
  <2>6. NumOf(G, m) = w[j + 1].Num
    <3>1. m \in DOMAIN G /\ G[m] = w[j + 1]
      BY <2>2 DEF Deletion, Replaced
    <3> QED  BY <3>1 DEF NumOf
  <2>7. Under(leaf, m)
    BY <2>2 DEF Deletion, OnWay
  <2> HIDE DEF x, m
  <2>8. CASE x.l = m /\ ~Under(leaf, x.r)
    <3>1. NumOf(G, x.r) = NumOf(F, x.r)
      BY <2>8, Beside
    <3> QED  BY <2>2, <2>3, <2>5, <2>6, <2>8, <3>1 DEF Strict
  <2>9. CASE x.r = m /\ ~Under(leaf, x.l)
    <3>1. NumOf(G, x.l) = NumOf(F, x.l)
      BY <2>9, Beside
    <3>2. x.l # m
      BY <2>7, <2>9
    <3> QED  BY <2>2, <2>3, <2>5, <2>6, <2>9, <3>1, <3>2 DEF Strict
  <2> QED  BY <2>4, <2>8, <2>9
<1> QED  BY <1>1, <1>2
-----------------------------------------------------------------------------
\* The child of the last ancestor that is not the leaf, and its counter.
LEMMA SiblingCounts ==
  ASSUME NEW F, NEW leaf, NEW gone, NEW a, NEW k, NEW w, NEW G, Deletion(F, leaf, gone, a, k, w, G),
         \A n \in Kept(F) : Strict(F[n], F)
  PROVE  LET s == Sibling(a[k], leaf)
         IN  /\ s.n \in {a[k].l, a[k].r} /\ ~Under(leaf, s.n) /\ leaf \in {a[k].l, a[k].r}
             /\ s.n = a[k].l => leaf = a[k].r
             /\ s.n = a[k].r => leaf = a[k].l
             /\ s.num = NumOf(F, s.n)
<1> DEFINE p == a[k]
           s == Sibling(a[k], leaf)
<1>1. k \in 1..k /\ leaf \in 1..N /\ Tree(F, gone)
  BY DEF Deletion, OnWay
<1>2. \/ p.l = leaf /\ ~Under(leaf, p.r)
      \/ p.r = leaf /\ ~Under(leaf, p.l)
  BY <1>1 DEF Deletion, Splits, After
<1>3. s = IF p.l = leaf THEN (IF p.r <= N THEN [n |-> p.r, num |-> 0] ELSE [n |-> p.r, num |-> p.rNum])
          ELSE (IF p.l <= N THEN [n |-> p.l, num |-> 0] ELSE [n |-> p.l, num |-> p.lNum])
  BY DEF Sibling
<1>4. Strict(p, F)
  BY <1>1, AncestorStrict
<1>5. Under(leaf, leaf)
  BY <1>1, LeafSpan, Size DEF Under
<1>6. \A c : c <= N => c \notin DOMAIN F
  <2>1. \A c \in DOMAIN F : c > N /\ c \in Int
    BY <1>1, InnerIs DEF Tree, Closed
  <2> QED  BY <2>1, Size
<1> HIDE DEF p, s
<1>7. /\ s.n = IF p.l = leaf THEN p.r ELSE p.l
      /\ s.num = IF s.n <= N THEN 0 ELSE IF p.l = leaf THEN p.rNum ELSE p.lNum
  BY <1>3
<1>8. s.num = NumOf(F, s.n)
  BY <1>4, <1>6, <1>7 DEF Strict, NumOf
<1>9. /\ s.n \in {p.l, p.r} /\ ~Under(leaf, s.n) /\ leaf \in {p.l, p.r}
      /\ s.n = p.l => leaf = p.r
      /\ s.n = p.r => leaf = p.l
  BY <1>2, <1>5, <1>7
<1> QED  BY <1>8, <1>9 DEF p, s

\* The node that gets another child: none of its children is over the leaf.
LEMMA Relinked ==
  ASSUME NEW F, NEW leaf, NEW gone, NEW a, NEW k, NEW w, NEW G, Deletion(F, leaf, gone, a, k, w, G),
         \A n \in Kept(F) : Strict(F[n], F)
  PROVE  LET s == Sibling(a[k], leaf)
             g == a[k - 1]
             x == w[k - 1]
         IN  /\ x.lNum = s.num /\ x.rNum = g.rNum
             /\ \/ g.l = a[k].Node /\ x.l = s.n /\ x.r = g.r /\ ~Under(leaf, g.r)
                \/ g.r = a[k].Node /\ x.l = g.l /\ x.r = s.n /\ ~Under(leaf, g.l)
             /\ ~Under(leaf, x.l) /\ ~Under(leaf, x.r)
<1> DEFINE s == Sibling(a[k], leaf)
           g == a[k - 1]
           x == w[k - 1]
           p == a[k]
<1>1. k \in Nat /\ k >= 2 /\ k - 1 \in 1..k /\ k \in 1..k /\ k - 1 # k /\ (k - 1) + 1 = k
  BY DEF Deletion, OnWay
<1>2. \/ g.l = p.Node /\ ~Under(leaf, g.r)
      \/ g.r = p.Node /\ ~Under(leaf, g.l)
  BY <1>1 DEF Deletion, Splits, After
<1>3. x.lNum = s.num /\ x.rNum = g.rNum
  BY DEF Deletion, CountsAre
<1>4. /\ x.l = IF g.l = p.Node THEN s.n ELSE g.l
      /\ x.r = IF g.l = p.Node THEN g.r ELSE s.n
  BY <1>1 DEF Deletion, LinksAre
<1>5. Under(leaf, p.Node)
  BY <1>1 DEF Deletion, OnWay
<1>6. ~Under(leaf, s.n)
  BY SiblingCounts
<1> HIDE DEF s, g, x, p
<1>7. /\ \/ g.l = p.Node /\ x.l = s.n /\ x.r = g.r /\ ~Under(leaf, g.r)
         \/ g.r = p.Node /\ x.l = g.l /\ x.r = s.n /\ ~Under(leaf, g.l)
      /\ ~Under(leaf, x.l) /\ ~Under(leaf, x.r)
  BY <1>2, <1>4, <1>5, <1>6
<1> QED  BY <1>3, <1>7 DEF s, g, x, p

\* Of the first deletion the one node with another child is exact, too.
LEMMA FirstStrict ==
  ASSUME NEW F, NEW leaf, NEW gone, NEW a, NEW k, NEW w, NEW G, Deletion(F, leaf, gone, a, k, w, G),
         DOMAIN F = {}
  PROVE  Strict(w[k - 1], G)
<1> DEFINE s == Sibling(a[k], leaf)
           x == w[k - 1]
<1>1. \A n \in Kept(F) : Strict(F[n], F)
  BY DEF Kept
<1>2. x.lNum = s.num /\ x.rNum = a[k - 1].rNum /\ ~Under(leaf, x.l) /\ ~Under(leaf, x.r)
  BY <1>1, Relinked
<1>3. s.num = 0
  <2>1. s.num = NumOf(F, s.n)
    BY <1>1, SiblingCounts
  <2> HIDE DEF s
  <2> QED  BY <2>1 DEF NumOf
<1>4. a[k - 1].rNum = 0
  <2>1. k - 1 \in 1..k
    BY DEF Deletion, OnWay
  <2>2. Strict(a[k - 1], F)
    BY <1>1, <2>1, AncestorStrict
  <2> QED  BY <2>2 DEF Strict, NumOf
<1>5. NumOf(G, x.l) = NumOf(F, x.l) /\ NumOf(G, x.r) = NumOf(F, x.r)
  <2> HIDE DEF x
  <2> QED  BY <1>2, Beside
<1> HIDE DEF s, x
<1>6. Strict(x, G)
  BY <1>2, <1>3, <1>4, <1>5 DEF Strict, NumOf
<1> QED  BY <1>6 DEF x

\* An ancestor that has a leaf for a child is of the level above the leaves
\* unless a deletion changed it, and has no child in a tree that is thin.
LEMMA LowAncestor ==
  ASSUME NEW F, NEW leaf, NEW gone, NEW a, NEW k, NEW w, NEW G, Deletion(F, leaf, gone, a, k, w, G),
         \A n \in Kept(F) : Thin(F[n], F),
         NEW j \in 1..k, NEW i \in 1..N, NEW c, {i, c} = {a[j].l, a[j].r}
  PROVE  c \notin DOMAIN F /\ (a[j].Node \notin DOMAIN F => ~High(a[j].Node))
<1>1. get_h(i) = 1
  BY LevelOne
<1>2. c \notin DOMAIN F
  <2> SUFFICES ASSUME c \in DOMAIN F PROVE FALSE
    OBVIOUS
  <2>1. a[j].Node \in DOMAIN F
    BY AncestorLinks
  <2>2. a[j] = F[a[j].Node] /\ a[j].Num # -1
    BY <2>1 DEF Deletion, Taken, OnWay
  <2>3. Thin(a[j], F)
    BY <2>1, <2>2 DEF Kept
  <2>4. High(i)
    BY <2>3 DEF Thin
  <2> QED  BY <1>1, <2>4 DEF High
<1>3. ASSUME a[j].Node \notin DOMAIN F PROVE ~High(a[j].Node)
  <2>1. get_h(i) = get_h(a[j].Node) - 1
    BY <1>3 DEF Deletion, Taken, Untouched
  <2>2. get_h(a[j].Node) \in Int
    BY LevelOne DEF Deletion, OnWay
  <2> QED  BY <1>1, <2>1, <2>2 DEF High
<1> QED  BY <1>2, <1>3

\* Of the second deletion that node's counters are those of its children that
\* are in the tree: where the sibling comes from the right, which has the wrong
\* counter then, no deletion has touched either child.
LEMMA SecondMatch ==
  ASSUME NEW F, NEW leaf, NEW gone, NEW a, NEW k, NEW w, NEW G, Deletion(F, leaf, gone, a, k, w, G),
         \A n \in Kept(F) : Strict(F[n], F) /\ Thin(F[n], F)
  PROVE  Match(w[k - 1], G)
<1> DEFINE s == Sibling(a[k], leaf)
           g == a[k - 1]
           x == w[k - 1]
<1>1. k - 1 \in 1..k /\ k \in 1..k /\ leaf \in 1..N
  BY DEF Deletion, OnWay
<1>2. /\ x.lNum = s.num /\ x.rNum = g.rNum
      /\ \/ g.l = a[k].Node /\ x.l = s.n /\ x.r = g.r
         \/ g.r = a[k].Node /\ x.l = g.l /\ x.r = s.n
      /\ ~Under(leaf, x.l) /\ ~Under(leaf, x.r)
  BY Relinked
<1>3. s.num = NumOf(F, s.n) /\ {leaf, s.n} = {a[k].l, a[k].r}
  BY SiblingCounts
<1>4. Strict(g, F)
  BY <1>1, AncestorStrict
<1>5. s.n \notin DOMAIN F /\ (a[k].Node \notin DOMAIN F => ~High(a[k].Node))
  <2> HIDE DEF s
  <2> QED  BY <1>1, <1>3, LowAncestor
<1>6. g.r = a[k].Node => g.l \notin DOMAIN F
  <2> SUFFICES ASSUME g.r = a[k].Node, g.l \in DOMAIN F PROVE FALSE
    OBVIOUS
  <2>1. g.Node \in DOMAIN F
    BY <1>1, AncestorLinks
  <2>2. g = F[g.Node] /\ g.Num # -1
    BY <1>1, <2>1 DEF Deletion, Taken, OnWay
  <2>3. Thin(g, F)
    BY <2>1, <2>2 DEF Kept
  <2> QED  BY <1>5, <2>3 DEF Thin
<1> HIDE DEF s, g, x
<1>7. /\ x.l \in DOMAIN G <=> x.l \in DOMAIN F
      /\ x.r \in DOMAIN G <=> x.r \in DOMAIN F
      /\ x.l \in DOMAIN F => G[x.l] = F[x.l]
      /\ x.r \in DOMAIN F => G[x.r] = F[x.r]
  BY <1>2, Beside
<1>8. Match(x, G)
  BY <1>2, <1>3, <1>4, <1>5, <1>6, <1>7 DEF Match, Strict, NumOf
<1> QED  BY <1>8 DEF x

\* After the first deletion at most one child of a node is in the tree, and then
\* the other one is not low.
LEMMA FirstThin ==
  ASSUME NEW F, NEW leaf, NEW gone, NEW a, NEW k, NEW w, NEW G, Deletion(F, leaf, gone, a, k, w, G),
         DOMAIN F = {}, NEW n \in Kept(G)
  PROVE  Thin(G[n], G)
<1>1. \A m \in Kept(F) : Strict(F[m], F)
  BY DEF Kept
<1>2. PICK j \in 1..k : a[j].Node = n
  BY Unwritten DEF Kept
<1>3. /\ G[n] = w[j] /\ j < k
      /\ j < k - 1 => j + 1 \in 1..k /\ j + 1 < k /\ j # k
      /\ ~(j < k - 1) => j = k - 1
  BY <1>2, WrittenKept
<1>4. CASE ~(j < k - 1)
  <2>1. ~Under(leaf, w[k - 1].l) /\ ~Under(leaf, w[k - 1].r)
    BY <1>1, Relinked
  <2>2. w[k - 1].l \notin DOMAIN G /\ w[k - 1].r \notin DOMAIN G
    BY <2>1, Beside
  <2> QED  BY <1>3, <1>4, <2>2 DEF Thin
<1>5. CASE j < k - 1
  <2> DEFINE x == a[j]
             y == a[j + 1]
  <2>1. j \in 1..k /\ j + 1 \in 1..k /\ j # k /\ j + 1 # k /\ (j + 1) + 1 \in 1..k /\ k \in Nat
    <3>1. k \in Nat
      BY DEF Deletion, OnWay
    <3> QED  BY <1>3, <1>5, <3>1
  <2>2. w[j].l = x.l /\ w[j].r = x.r
    BY <1>5 DEF Deletion, LinksAre
  <2>3. \/ x.l = y.Node /\ ~Under(leaf, x.r)
        \/ x.r = y.Node /\ ~Under(leaf, x.l)
    BY <2>1 DEF Deletion, Splits, After
  <2>4. \E m \in Inner : m \in {y.l, y.r}
    <3>1. y.l = a[(j + 1) + 1].Node \/ y.r = a[(j + 1) + 1].Node
      BY <2>1 DEF Deletion, Splits, After
    <3>2. a[(j + 1) + 1].Node \in Inner
      BY <2>1 DEF Deletion, OnWay
    <3> QED  BY <3>1, <3>2
  <2>5. Untouched(x) /\ Untouched(y)
    BY <2>1 DEF Deletion, Taken
  <2>6. /\ x.l \in DOMAIN G => x.l = y.Node
        /\ x.r \in DOMAIN G => x.r = y.Node
        /\ ~(x.l \in DOMAIN G /\ x.r \in DOMAIN G)
    BY <2>3, Beside
  <2>7. High(y.Node)
    <3>1. PICK m \in Inner : m \in {y.l, y.r}
      BY <2>4
    <3>2. get_h(m) \in Int /\ get_h(m) >= 2
      BY LevelOne
    <3>3. get_h(m) = get_h(y.Node) - 1
      BY <2>5, <3>1 DEF Untouched
    <3>4. get_h(y.Node) \in Int
      BY <2>1, LevelOne DEF Deletion, OnWay
    <3> QED  BY <3>2, <3>3, <3>4 DEF High
  <2>8. get_h(x.l) = get_h(x.r)
    BY <2>5 DEF Untouched
  <2>9. High(x.l) /\ High(x.r)
    BY <2>3, <2>7, <2>8 DEF High
  <2> HIDE DEF x, y
  <2> QED  BY <1>3, <2>2, <2>6, <2>9 DEF Thin
<1> QED  BY <1>4, <1>5
-----------------------------------------------------------------------------
\* Two of the parts of Precise, by name: no child of a node is a deleted leaf, and
\* the nodes over a deleted leaf have been written.
Clears(F, gone) == \A n \in Kept(F) : Clear(F[n], gone)
Fringe(F, gone) == \A n \in Inner, g \in gone : Under(g, n) => n \in DOMAIN F

\* No ancestor a deletion finds has a gone leaf for a child.
LEMMA AncestorClear ==
  ASSUME NEW F, NEW leaf, NEW gone, NEW a, NEW k, NEW w, NEW G, Deletion(F, leaf, gone, a, k, w, G),
         gone \subseteq 1..N, Clears(F, gone), Fringe(F, gone), NEW j \in 1..k
  PROVE  Clear(a[j], gone)
<1>1. CASE a[j].Node \in DOMAIN F
  <2>1. a[j] = F[a[j].Node] /\ a[j].Num # -1
    BY <1>1 DEF Deletion, Taken, OnWay
  <2> QED  BY <1>1, <2>1 DEF Kept, Clears
<1>2. CASE a[j].Node \notin DOMAIN F
  <2>1. ASSUME NEW c \in {a[j].l, a[j].r}, c \in gone PROVE FALSE
    <3>1. c \in Nodes /\ Over(a[j].Node, c) /\ a[j].Node \in Inner /\ a[j].Node \in Nodes
      <4>1. a[j].Node \in Inner
        BY DEF Deletion, OnWay
      <4>2. c \in Nodes /\ Over(a[j].Node, c)
        BY AncestorLinks
      <4> QED  BY <4>1, <4>2, InnerIs
    <3>2. c \in 1..N /\ Under(c, c)
      <4>1. c \in 1..N
        BY <2>1
      <4> QED  BY <4>1, LeafSpan, Size DEF Under
    <3>3. Under(c, a[j].Node)
      BY <3>1, <3>2, UnderOver
    <3> QED  BY <1>2, <2>1, <3>1, <3>3 DEF Fringe
  <2> QED  BY <2>1 DEF Clear
<1> QED  BY <1>1, <1>2

\* A deletion leaves no node with a gone leaf for a child.
LEMMA WrittenClear ==
  ASSUME NEW F, NEW leaf, NEW gone, NEW a, NEW k, NEW w, NEW G, Deletion(F, leaf, gone, a, k, w, G),
         gone \subseteq 1..N, Clears(F, gone), Fringe(F, gone)
  PROVE  Clears(G, gone \cup {leaf})
<1>1. leaf \in 1..N /\ k \in Nat /\ k >= 2 /\ k - 1 \in 1..k /\ k \in 1..k /\ leaf \notin Inner
  <2>1. \A n \in Inner : n > N
    BY InnerIs
  <2> QED  BY <2>1, Size DEF Deletion, OnWay
<1>2. Under(leaf, leaf)
  BY <1>1, LeafSpan, Size DEF Under
<1>3. SUFFICES ASSUME NEW n \in Kept(G) PROVE Clear(G[n], gone \cup {leaf})
  BY DEF Clears
<1>4. CASE \A j \in 1..k : a[j].Node # n
  <2>1. n \in Kept(F) /\ G[n] = F[n] /\ ~Under(leaf, F[n].l) /\ ~Under(leaf, F[n].r)
    BY <1>4, Unwritten
  <2>2. Clear(F[n], gone)
    BY <2>1 DEF Clears
  <2> QED  BY <1>2, <2>1, <2>2 DEF Clear
<1>5. CASE \E j \in 1..k : a[j].Node = n
  <2>1. PICK j \in 1..k : a[j].Node = n
    BY <1>5
  <2>2. G[n] = w[j] /\ (j < k - 1 => j + 1 \in 1..k /\ j # k) /\ (~(j < k - 1) => j = k - 1)
    BY <2>1, WrittenKept
  <2>3. Clear(a[j], gone) /\ Clear(a[k], gone)
    BY <1>1, AncestorClear
  <2>4. CASE j < k - 1
    <3>1. w[j].l = a[j].l /\ w[j].r = a[j].r
      BY <2>4 DEF Deletion, LinksAre
    <3>2. \/ a[j].l = a[j + 1].Node /\ ~Under(leaf, a[j].r)
          \/ a[j].r = a[j + 1].Node /\ ~Under(leaf, a[j].l)
      BY <2>2, <2>4 DEF Deletion, Splits, After
    <3>3. a[j + 1].Node \in Inner /\ rln(a[j].l) < lln(a[j].r) /\ Under(leaf, a[j + 1].Node)
      BY <2>2, <2>4 DEF Deletion, OnWay, Sound
    <3>4. a[j].l # leaf /\ a[j].r # leaf
      BY <1>1, <1>2, <3>2, <3>3
    <3> QED  BY <2>2, <2>3, <3>1, <3>4 DEF Clear
  <2>5. CASE ~(j < k - 1)
    <3> DEFINE s == Sibling(a[k], leaf)
               x == w[k - 1]
               g == a[k - 1]
    <3>0. j = k - 1
      BY <2>2, <2>5
    <3>1. \/ x.l = IF g.l = a[k].Node THEN s.n ELSE g.l
          \/ FALSE
      BY <1>1 DEF Deletion, LinksAre
    <3>2. x.r = IF g.l = a[k].Node THEN g.r ELSE s.n
      BY <1>1 DEF Deletion, LinksAre
    <3>3. s.n = IF a[k].l = leaf THEN a[k].r ELSE a[k].l
      BY DEF Sibling
    <3>4. \/ a[k].l = leaf /\ ~Under(leaf, a[k].r)
          \/ a[k].r = leaf /\ ~Under(leaf, a[k].l)
      BY <1>1 DEF Deletion, Splits, After
    <3>5. (k - 1) + 1 = k /\ k - 1 # k
      BY <1>1
    <3>6. \/ g.l = a[k].Node /\ ~Under(leaf, g.r)
          \/ g.r = a[k].Node /\ ~Under(leaf, g.l)
      BY <1>1, <3>5 DEF Deletion, Splits, After
    <3>7. Under(leaf, a[k].Node) /\ a[k].Node \in Inner
      BY <1>1 DEF Deletion, OnWay
    <3>8. Clear(g, gone)
      BY <2>3, <3>0
    <3>9. s.n # leaf /\ s.n \notin gone
      <4> HIDE DEF s
      <4> QED  BY <1>2, <2>3, <3>3, <3>4 DEF Clear
    <3> HIDE DEF s, x, g
    <3>10. Clear(x, gone \cup {leaf})
      BY <1>1, <1>2, <3>1, <3>2, <3>6, <3>7, <3>8, <3>9 DEF Clear
    <3> QED  BY <2>2, <3>0, <3>10 DEF x
  <2> QED  BY <2>4, <2>5
<1> QED  BY <1>4, <1>5

\* Every node over a gone leaf is in the tree.
LEMMA WrittenFringe ==
  ASSUME NEW F, NEW leaf, NEW gone, NEW a, NEW k, NEW w, NEW G, Deletion(F, leaf, gone, a, k, w, G),
         Fringe(F, gone)
  PROVE  Fringe(G, gone \cup {leaf})
<1> SUFFICES ASSUME NEW n \in Inner, NEW g \in gone \cup {leaf}, Under(g, n) PROVE n \in DOMAIN G
  BY DEF Fringe
<1>1. CASE g \in gone
  BY <1>1 DEF Fringe, Deletion, Replaced
<1>2. CASE g = leaf
  <2>1. CASE Removed(F, n)
    BY <2>1 DEF Removed, Deletion, Replaced
  <2>2. CASE ~Removed(F, n)
    BY <1>2, <2>2 DEF Deletion, OnWay, Replaced
  <2> QED  BY <2>1, <2>2
<1> QED  BY <1>1, <1>2

\* The nodes over all updates count all deletions.
LEMMA WrittenTop ==
  ASSUME NEW F, NEW leaf, NEW gone, NEW a, NEW k, NEW w, NEW G, Deletion(F, leaf, gone, a, k, w, G),
         NEW d \in Nat, NEW c \in Nat, leaf <= c, Top(F, d, c)
  PROVE  Top(G, d + 1, c)
<1> SUFFICES ASSUME NEW n \in Inner, lln(n) = 1, c <= rln(n), ~Removed(G, n) PROVE NumOf(G, n) = d + 1
  BY DEF Top
<1>1. leaf \in 1..N /\ n \in Nodes /\ k \in Nat
  BY InnerIs DEF Deletion, OnWay
<1>2. Under(leaf, n)
  <2>1. rln(n) \in 1..N
    BY <1>1, Path
  <2> QED  BY <1>1, <2>1, Size DEF Under
<1>3. ~Removed(F, n)
  <2> SUFFICES ASSUME Removed(F, n) PROVE FALSE
    OBVIOUS
  <2>1. \A j \in 1..k : a[j].Node # n
    BY DEF Deletion, OnWay
  <2>2. n \in DOMAIN F /\ n \in DOMAIN G /\ G[n] = F[n]
    BY <2>1 DEF Removed, Deletion, Replaced
  <2> QED  BY <2>2 DEF Removed
<1>4. PICK j \in 1..k : a[j].Node = n
  BY <1>2, <1>3 DEF Deletion, OnWay
<1>5. n \in DOMAIN G /\ G[n] = w[j]
  BY <1>4 DEF Deletion, Replaced
<1>6. j < k
  <2>1. j # k
    BY <1>1, <1>5 DEF Deletion, LinksAre, Removed
  <2> QED  BY <1>1, <2>1
<1>7. w[j].Num = a[j].Num + 1
  BY <1>6 DEF Deletion, CountsAre
<1>8. NumOf(F, n) = d
  BY <1>3 DEF Top
<1>9. a[j].Num = d
  <2>1. CASE n \in DOMAIN F
    BY <1>4, <1>8, <2>1 DEF NumOf, Deletion, Taken
  <2>2. CASE n \notin DOMAIN F
    BY <1>4, <1>8, <2>2 DEF NumOf, Deletion, Taken, Untouched
  <2> QED  BY <2>1, <2>2
<1>10. NumOf(G, n) = a[j].Num + 1
  BY <1>5, <1>7 DEF NumOf
<1> QED  BY <1>9, <1>10

\* What a deletion does to the counters of a tree.
LEMMA WrittenPrecise ==
  ASSUME NEW F, NEW leaf, NEW gone, NEW a, NEW k, NEW w, NEW G, Deletion(F, leaf, gone, a, k, w, G),
         gone \subseteq 1..N, NEW d \in Nat, Precise(F, d, gone)
  PROVE  Precise(G, d + 1, gone \cup {leaf})
<1>1. Clears(G, gone \cup {leaf}) /\ Fringe(G, gone \cup {leaf})
  <2>1. Clears(F, gone) /\ Fringe(F, gone)
    BY DEF Precise, Clears, Fringe
  <2> QED  BY <2>1, WrittenClear, WrittenFringe
<1>2. \A x : Strict(x, G) => Match(x, G)
  BY DEF Strict, Match, NumOf
<1>3. CASE d = 0
  <2>1. DOMAIN F = {} /\ \A n \in Kept(F) : Strict(F[n], F)
    BY <1>3 DEF Precise, Kept
  <2>2. ASSUME NEW n \in Kept(G) PROVE Strict(G[n], G)
    <3>1. CASE n = a[k - 1].Node
      <4>1. k - 1 \in 1..k
        BY DEF Deletion, OnWay
      <4>2. G[n] = w[k - 1]
        BY <3>1, <4>1 DEF Deletion, Replaced
      <4> QED  BY <2>1, <4>2, FirstStrict
    <3>2. CASE n # a[k - 1].Node
      BY <2>1, <3>2, StrictAbove
    <3> QED  BY <3>1, <3>2
  <2>3. \A n \in Kept(G) : Thin(G[n], G)
    BY <2>1, FirstThin
  <2>4. d + 1 = 1
    BY <1>3
  <2>5. \A n \in Kept(G) : Match(G[n], G)
    BY <1>2, <2>2
  <2>6. Precise(G, 1, gone \cup {leaf})
    <3>1. \A n \in Kept(G) : Strict(G[n], G) /\ Thin(G[n], G)
      BY <2>2, <2>3
    <3>2. \A n \in Kept(G) : Clear(G[n], gone \cup {leaf})
      BY <1>1 DEF Clears
    <3>3. \A n \in Inner, g \in gone \cup {leaf} : Under(g, n) => n \in DOMAIN G
      BY <1>1 DEF Fringe
    <3>4. 1 # 0
      OBVIOUS
    <3> QED  BY Zenon, <2>5, <3>1, <3>2, <3>3, <3>4 DEF Precise
  <2> QED  BY <2>4, <2>6
<1>4. CASE d = 1
  <2>1. \A n \in Kept(F) : Strict(F[n], F) /\ Thin(F[n], F)
    BY <1>4 DEF Precise
  <2>2. ASSUME NEW n \in Kept(G) PROVE Match(G[n], G)
    <3>1. CASE n = a[k - 1].Node
      <4>1. k - 1 \in 1..k
        BY DEF Deletion, OnWay
      <4>2. G[n] = w[k - 1]
        BY <3>1, <4>1 DEF Deletion, Replaced
      <4> QED  BY <2>1, <4>2, SecondMatch
    <3>2. CASE n # a[k - 1].Node
      BY <1>2, <2>1, <3>2, StrictAbove
    <3> QED  BY <3>1, <3>2
  <2> QED  BY <1>1, <1>4, <2>2 DEF Precise, Clears, Fringe
<1>5. CASE d > 1
  <2>1. d + 1 # 0 /\ d + 1 # 1 /\ ~(d + 1 <= 2)
    BY <1>5
  <2> QED  BY <1>1, <2>1 DEF Precise, Clears, Fringe
<1> QED  BY <1>3, <1>4, <1>5

\* Trees that agree on every node.
LEMMA PreciseLike ==
  ASSUME NEW F, NEW G, DOMAIN G = DOMAIN F, \A n \in DOMAIN F : G[n] = F[n],
         NEW d, NEW gone, Precise(F, d, gone)
  PROVE  Precise(G, d, gone)
<1>1. Kept(G) = Kept(F) /\ \A n \in Kept(F) : G[n] = F[n]
  BY DEF Kept
<1>2. \A c : NumOf(G, c) = NumOf(F, c)
  BY DEF NumOf
<1>3. \A x : /\ Strict(x, G) <=> Strict(x, F)
             /\ Match(x, G) <=> Match(x, F)
             /\ Thin(x, G) <=> Thin(x, F)
  BY <1>2 DEF Strict, Match, Thin
<1> QED  BY <1>1, <1>3 DEF Precise

\* So do the counters of the nodes over all updates.
LEMMA TopLike ==
  ASSUME NEW F, NEW G, DOMAIN G = DOMAIN F, \A n \in DOMAIN F : G[n] = F[n],
         NEW d, NEW c, Top(F, d, c)
  PROVE  Top(G, d, c)
BY DEF Top, NumOf, Removed
-----------------------------------------------------------------------------
\* In the first state nothing has happened yet.
LEMMA InitBooks == Init => Books
<1> SUFFICES ASSUME Init PROVE Books
  OBVIOUS
<1>1. IsFiniteSet({}) /\ Cardinality({}) = 0
  BY FS_EmptySet
<1> QED  BY <1>1 DEF Init, Books, Accidents, Sessions, Streams

\* A step that asks for nothing and works out nothing, as the accidents see it.
LEMMA BooksKept ==
  ASSUME LInv, LInv', Books, hist'.kills \in Nat, hist'.torn => hist.torn \/ hist'.kills > 0,
         hist.torn /\ hist'.torn => hist'.kills >= hist.kills,
         hist'.reused = hist.reused, hist'.mixed = hist.mixed, hist'.deleted = hist.deleted,
         hist'.dels = hist.dels, hist'.again = hist.again,
         pc' = "off" => ST' = db', pc' = "search" => srv'.cnt_d = STw'.cnt_d,
         pc' # "del"
  PROVE  Books'
<1>1. Accidents'
  <2>1. hist.kills \in Nat
    BY DEF Books, Accidents
  <2>2. hist'.torn => hist'.kills > 0
    BY <2>1 DEF Books, Accidents
  <2> QED  BY <2>2 DEF Books, Accidents
<1>2. Sessions'
  BY DEF Sessions
<1>3. Streams'
  BY DEF Streams
<1> QED  BY <1>1, <1>2, <1>3 DEF Books

\* The steps that neither ask for an update nor work one out.
LEMMA BooksSettled ==
  ASSUME LInv, LInv', Books,
         \/ Start \/ Exit \/ Kill \/ DelCrash \/ DelEnd \/ SearchEnd \/ AddFind \/ AddInsert
         \/ StartSearch \/ Expand \/ TakeLeaf \/ WalkNode \/ WalkLeaf
  PROVE  Books'
<1>1. hist.kills \in Nat
  BY DEF Books, Accidents
<1>2. CASE Start \/ Exit \/ DelCrash \/ DelEnd \/ SearchEnd \/ AddFind \/ AddInsert
  <2>1. hist' = hist
    BY <1>2 DEF Start, Exit, DelCrash, Lose, DelEnd, SearchEnd, AddFind, AddInsert
  <2>2. pc' \notin {"search", "del"}
    BY <1>2 DEF Start, Exit, DelCrash, Lose, DelEnd, SearchEnd, AddFind, AddInsert
  <2>3. pc' = "off" => ST' = db'
    BY <1>2 DEF Start, Exit, DelCrash, Lose, DelEnd, SearchEnd, AddFind, AddInsert
  <2> QED  BY <1>1, <2>1, <2>2, <2>3, BooksKept
<1>3. CASE Kill
  <2>1. hist' = [hist EXCEPT !.kills = @ + 1, !.torn = @ \/ Torn] /\ pc' = "off" /\ ST' = db /\ db' = db
    BY <1>3 DEF Kill, Lose
  <2>2. /\ hist'.docs = hist.docs /\ hist'.deleted = hist.deleted /\ hist'.dels = hist.dels
        /\ hist'.mixed = hist.mixed /\ hist'.again = hist.again /\ hist'.reused = hist.reused
        /\ hist'.kills = hist.kills + 1
    BY <2>1 DEF LInv, EInv, DInv, Fields
  <2> QED  BY <1>1, <2>1, <2>2, BooksKept
<1>4. CASE StartSearch
  <2>1. /\ hist'.docs = hist.docs /\ hist'.deleted = hist.deleted /\ hist'.dels = hist.dels
        /\ hist'.mixed = hist.mixed /\ hist'.again = hist.again /\ hist'.reused = hist.reused
        /\ hist'.kills = hist.kills /\ hist'.torn = hist.torn
    BY <1>4 DEF StartSearch, LInv, EInv, DInv, Fields
  <2>2. pc' = "search" /\ ST' = [STw EXCEPT !.K = hist.keys + 1] /\ srv'.cnt_d = STw.cnt_d
    BY <1>4 DEF StartSearch, NoSearch
  <2>3. STw \in STs
    BY Entries DEF LInv, EInv, DInv
  <2>4. STw'.cnt_d = STw.cnt_d
    BY <2>2, <2>3 DEF STw, Known, STs
  <2> QED  BY <1>1, <2>1, <2>2, <2>4, BooksKept
<1>5. CASE Expand \/ TakeLeaf \/ WalkNode \/ WalkLeaf
  <2>1. UNCHANGED <<pc, ST, hist>> /\ pc = "search"
    BY <1>5 DEF Expand, TakeLeaf, WalkNode, WalkLeaf, Turn
  <2>2. srv'.cnt_d = srv.cnt_d
    <3>1. Locals
      BY DEF LInv, EInv
    <3>2. CASE Expand
      BY <3>1, <3>2 DEF Expand, Locals
    <3>3. CASE TakeLeaf
      BY <3>1, <3>3 DEF TakeLeaf, Locals
    <3>4. CASE WalkNode
      BY <3>1, <3>4 DEF WalkNode, Locals
    <3>5. CASE WalkLeaf
      BY <3>1, <3>5 DEF WalkLeaf, Locals
    <3> QED  BY <1>5, <3>2, <3>3, <3>4, <3>5
  <2>3. STw' = STw
    BY <2>1 DEF STw, Known
  <2>4. srv'.cnt_d = STw'.cnt_d
    BY <2>1, <2>2, <2>3 DEF Books, Sessions
  <2> QED  BY <1>1, <2>1, <2>4, BooksKept
<1> QED  BY <1>2, <1>3, <1>4, <1>5

\* An addition that is sent, and a deletion that is asked for.
LEMMA BooksAsked ==
  ASSUME LInv, LInv', Books, AddSend \/ \E i \in 1..MaxIds : DelFind(i)
  PROVE  Books'
<1>1. CASE AddSend
  <2> DEFINE c == STw.cnt_i + 1
             K == IF Known THEN ST.K ELSE hist.keys + 1
             docs == Append(SubSeq(hist.docs, 1, c - 1), id)
             mixed == hist.mixed \/ hist.deleted # {}
             reused == hist.reused \/ \E i \in hist.deleted : OD_del[i] = c
             keys == IF Known THEN hist.keys ELSE K
  <2>1. hist' = [hist EXCEPT !.keys = keys, !.docs = docs, !.mixed = mixed, !.reused = reused] /\ pc' = "ready"
    BY <1>1 DEF AddSend
  <2>3. hist \in [docs : {hist.docs}, deleted : {hist.deleted}, dels : {hist.dels}, mixed : {hist.mixed},
                  again : {hist.again}, torn : {hist.torn}, reused : {hist.reused}, keys : {hist.keys}, kills : {hist.kills}]
    BY DEF LInv, EInv, DInv, Fields
  <2>5. reused => hist.reused \/ hist.deleted # {}
    OBVIOUS
  <2> HIDE DEF docs, reused, keys
  <2>4. /\ hist'.deleted = hist.deleted /\ hist'.torn = hist.torn /\ hist'.dels = hist.dels
        /\ hist'.again = hist.again /\ hist'.reused = reused /\ hist'.mixed = mixed
        /\ hist'.kills = hist.kills
    BY <2>1, <2>3
  <2>6. Accidents'
    BY <2>4, <2>5 DEF Books, Accidents
  <2>7. Sessions' /\ Streams'
    BY <2>1 DEF Sessions, Streams
  <2> QED  BY <2>6, <2>7 DEF Books
<1>2. ASSUME NEW i \in 1..MaxIds, DelFind(i) PROVE Books'
  <2>1. /\ hist'.docs = hist.docs /\ hist'.deleted = hist.deleted \cup {i} /\ hist'.dels = hist.dels + 1
        /\ hist'.torn = hist.torn /\ hist'.reused = hist.reused /\ hist'.mixed = hist.mixed
        /\ hist'.again = (hist.again \/ i \notin Live(STw.cnt_i))
        /\ hist'.kills = hist.kills /\ pc' = "delRead"
    BY <1>2 DEF DelFind, LInv, EInv, DInv, Fields
  <2>2. ASSUME ~hist'.again PROVE IsFiniteSet(hist'.deleted) /\ Cardinality(hist'.deleted) = hist'.dels
    <3>1. ~hist.again /\ i \notin hist.deleted
      BY <2>1, <2>2 DEF Live
    <3>2. IsFiniteSet(hist.deleted) /\ Cardinality(hist.deleted) = hist.dels
      BY <3>1 DEF Books, Accidents
    <3> QED  BY <2>1, <3>1, <3>2, FS_AddElement
  <2>3. Accidents'
    BY <2>1, <2>2 DEF Books, Accidents
  <2>4. Sessions' /\ Streams'
    BY <2>1 DEF Sessions, Streams
  <2> QED  BY <2>3, <2>4 DEF Books
<1> QED  BY <1>1, <1>2

\* The steps of a deletion that is under way.
LEMMA BooksDeleted ==
  ASSUME LInv, LInv', Books, DelRead \/ DelEntry \/ DelTree
  PROVE  Books'
<1>1. hist' = hist /\ pc' = "del"
  BY DEF DelRead, DelEntry, DelTree
<1>2. Accidents'
  BY <1>1 DEF Books, Accidents
<1>3. Sessions'
  BY <1>1 DEF Sessions
<1>4. sent.entry \in Nat /\ sent.tree \in Nat /\ sent'.entry \in Nat /\ ins \in Seq(Links) /\ Len(ins) \in Nat
  BY DEF LInv, EInv, DInv, Fields, Writing
<1>5. Streams'
  <2>1. CASE DelRead
    <3>1. pc = "delRead" /\ sent' = sent
      BY <2>1 DEF DelRead
    <3>2. sent' = [tree |-> 0, entry |-> 0]
      BY <3>1 DEF LInv, Arriving
    <3>3. sent'.tree = 0 /\ sent'.entry = 0
      BY <3>2
    <3>4. sent'.tree = Len(ins') => sent'.entry >= Len(ins') - 1
      BY <3>3
    <3> QED  BY <3>4 DEF Streams
  <2>2. CASE DelEntry
    <3>1. ins' = ins /\ pc = "del" /\ sent' = [sent EXCEPT !.entry = @ + 1]
      BY <2>2 DEF DelEntry
    <3>2. sent'.tree = sent.tree /\ sent'.entry = sent.entry + 1
      BY <3>1 DEF LInv, EInv, DInv, Fields
    <3>3. sent.tree = Len(ins) => sent.entry >= Len(ins) - 1
      BY <3>1 DEF Books, Streams
    <3> QED  BY <1>4, <3>1, <3>2, <3>3 DEF Streams
  <2>3. CASE DelTree
    <3>1. ins' = ins /\ sent' = [sent EXCEPT !.tree = @ + 1] /\ (sent.tree = Len(ins) - 1 => sent.entry = Len(ins) - 1)
      BY <2>3 DEF DelTree
    <3>2. sent'.tree = sent.tree + 1 /\ sent'.entry = sent.entry
      BY <3>1 DEF LInv, EInv, DInv, Fields
    <3> QED  BY <1>4, <3>1, <3>2 DEF Streams
  <2> QED  BY <2>1, <2>2, <2>3
<1> QED  BY <1>2, <1>3, <1>5 DEF Books

\* The accidents, the sessions and the streams are accounted for at every step.
LEMMA NextBooks == LInv /\ LInv' /\ Books /\ [Next]_vars => Books'
<1> SUFFICES ASSUME LInv, LInv', Books, [Next]_vars PROVE Books'
  OBVIOUS
<1>1. CASE UNCHANGED vars
  <2>1. UNCHANGED <<pc, ST, db, ins, sent, srv, hist>>
    BY <1>1 DEF vars
  <2>2. STw' = STw
    BY <2>1 DEF STw, Known
  <2>3. Accidents' /\ Sessions' /\ Streams'
    BY <2>1, <2>2 DEF Books, Accidents, Sessions, Streams
  <2> QED  BY <2>3 DEF Books
<1> QED  BY <1>1, BooksSettled, BooksAsked, BooksDeleted DEF Next, Add, Del, Search
-----------------------------------------------------------------------------
\* What a search may rely on is the same for a tree that agrees on every node.
LEMMA SumsLike ==
  ASSUME NEW F, NEW G, Alike(F, G), NEW E, NEW w, NEW m, NEW d, NEW gone, NEW c, NEW sn,
         Sums(F, E, w, m, d, gone, c, sn),
         NEW w2, NEW m2, Entered(F, E, w, m) => Entered(F, E, w2, m2)
  PROVE  Sums(G, E, w2, m2, d, gone, c, sn)
<1>1. DOMAIN G = DOMAIN F /\ \A n \in DOMAIN F : G[n] = F[n]
  BY DEF Alike
<1>2. Precise(G, d, gone) /\ Top(G, d, c)
  BY <1>1, PreciseLike, TopLike DEF Sums
<1>3. Kept(G) = Kept(F) /\ \A n \in Kept(F) : n \in DOMAIN F
  BY <1>1 DEF Kept
<1>4. Starts(G, gone, c, sn)
  BY <1>1 DEF Sums, Starts, Removed
<1>5. NodesOf(G, E)
  BY <1>1, <1>3 DEF Sums, NodesOf
<1>6. Entered(F, E, w2, m2)
  BY DEF Sums
<1>7. Entered(G, E, w2, m2)
  BY <1>1, <1>3, <1>6 DEF Entered
<1> QED  BY <1>2, <1>4, <1>5, <1>7 DEF Sums

\* A step that changes neither the tree to be, nor the entries, nor the counts.
LEMMA TallyKept ==
  ASSUME Tallied, Alike(TheTree, TheTree'), EDB' = EDB, Done' = Done, Gone' = Gone,
         STw'.cnt_i = STw.cnt_i, STw'.sn = STw.sn,
         Entered(TheTree, EDB, ins, sent.entry) => Entered(TheTree, EDB, ins', sent'.entry)
  PROVE  Tallied'
<1> DEFINE F == TheTree
           G == TheTree'
<1>1. Sums(F, EDB, ins, sent.entry, Done, Gone, STw.cnt_i, STw.sn)
  BY DEF Tallied
<1>2. Alike(F, G)
  OBVIOUS
<1>3. Entered(F, EDB, ins, sent.entry) => Entered(F, EDB, ins', sent'.entry)
  OBVIOUS
<1> HIDE DEF F, G
<1>4. Sums(G, EDB, ins', sent'.entry, Done, Gone, STw.cnt_i, STw.sn)
  BY <1>1, <1>2, <1>3, SumsLike
<1>5. Sums(G, EDB', ins', sent'.entry, Done', Gone', STw'.cnt_i, STw'.sn)
  BY <1>4
<1> QED  BY <1>5 DEF Tallied, G

\* A tree agrees with itself.
LEMMA AlikeIs == ASSUME NEW F PROVE Alike(F, F)
BY DEF Alike

\* A step that is not a deletion's.
LEMMA Elsewhere ==
  ASSUME Tallied, UNCHANGED <<OD_tree, EDB, ins, sent>>, Done' = Done, Gone' = Gone,
         STw'.cnt_i = STw.cnt_i, STw'.sn = STw.sn
  PROVE  Tallied'
<1>1. TheTree' = TheTree
  BY DEF TheTree
<1> QED  BY <1>1, AlikeIs, TallyKept

\* Steps that neither add nor delete leave the record of both as it is.
LEMMA QuietFull ==
  ASSUME LInv, LInv', Books, Full',
         \/ Start \/ Exit \/ AddFind \/ AddInsert \/ DelEnd \/ SearchEnd
         \/ StartSearch \/ Expand \/ TakeLeaf \/ WalkNode \/ WalkLeaf
  PROVE  /\ Full /\ Done' = Done /\ Gone' = Gone /\ STw'.cnt_i = STw.cnt_i /\ STw'.sn = STw.sn
         /\ hist'.docs = hist.docs
<1> USE DEF LInv
<1>1. pc # "delRead" /\ pc' # "delRead"
  BY DEF Start, Exit, AddFind, AddInsert, DelEnd, SearchEnd, StartSearch, Expand, TakeLeaf, WalkNode, WalkLeaf, Turn, Answered
<1>2. /\ hist'.docs = hist.docs /\ hist'.deleted = hist.deleted /\ hist'.dels = hist.dels
      /\ hist'.mixed = hist.mixed /\ hist'.again = hist.again /\ hist'.kills = hist.kills
  <2>1. CASE StartSearch
    BY <2>1 DEF StartSearch, EInv, DInv, Fields
  <2>2. CASE ~StartSearch
    <3>1. hist' = hist
      BY <2>2 DEF Start, Exit, AddFind, AddInsert, DelEnd, SearchEnd, StartSearch, Expand, TakeLeaf, WalkNode, WalkLeaf
    <3> QED  BY <3>1
  <2> QED  BY <2>1, <2>2
<1>3. STw'.cnt_i = STw.cnt_i /\ STw'.sn = STw.sn /\ STw'.cnt_d = STw.cnt_d
  <2>1. CASE StartSearch
    <3>1. ST' = [STw EXCEPT !.K = hist.keys + 1]
      BY <2>1 DEF StartSearch
    <3>2. STw \in STs
      BY Entries DEF EInv, DInv
    <3> QED  BY <3>1, <3>2 DEF STw, Known, STs
  <2>2. CASE ~StartSearch
    <3>1. ST' = ST
      <4>1. CASE Start
        BY <4>1 DEF Start, Books, Sessions
      <4>2. CASE ~Start
        BY <2>2, <4>2 DEF Exit, AddFind, AddInsert, DelEnd, SearchEnd, StartSearch, Expand, TakeLeaf, WalkNode, WalkLeaf
      <4> QED  BY <4>1, <4>2
    <3> QED  BY <3>1 DEF STw, Known
  <2> QED  BY <2>1, <2>2
<1>4. Done' = Done
  BY <1>1, <1>2 DEF Done
<1>5. Gone' = Gone
  <2>1. CASE AddInsert
    <3>1. PICK n \in 0..MaxIds : /\ DOMAIN OD_del = 1..n /\ id = n + 1
      BY <2>1 DEF AddInsert, EInv, DInv, Filled
    <3>2. n \in Nat /\ id \notin DOMAIN OD_del
      BY <3>1, Size, BoundsAssumption
    <3>3. \A x \in DOMAIN OD_del : OD_del'[x] = OD_del[x]
      BY <2>1, <3>2 DEF Put, AddInsert
    <3> QED  BY <1>1, <1>2, <3>3 DEF Gone, Mapped
  <2>2. CASE ~AddInsert
    <3>1. OD_del' = OD_del
      BY <2>2 DEF Start, Exit, AddFind, DelEnd, SearchEnd, StartSearch, Expand, TakeLeaf, WalkNode, WalkLeaf, server
    <3> QED  BY <1>1, <1>2, <3>1 DEF Gone
  <2> QED  BY <2>1, <2>2
<1> QED  BY <1>2, <1>3, <1>4, <1>5 DEF Full

\* The tree a deletion was to leave is the one it leaves.
LEMMA EndAlike == ASSUME LInv, LInv', Books, DelEnd PROVE Alike(TheTree, TheTree')
<1>1. OD_tree' = OD_tree /\ ins' = <<>> /\ sent.tree = Len(ins)
  BY DEF DelEnd, server
<1>2. \A j \in 1..Len(ins) : ins[j].Node \in DOMAIN OD_tree /\ OD_tree[ins[j].Node] = ins[j]
  BY <1>1 DEF LInv, Arriving
<1>3. Falling(ins, Len(ins)) /\ Falling(<<>>, 0)
  BY InsFall DEF Falling
<1> DEFINE F == Overlay(OD_tree, ins)
           G == Overlay(OD_tree, <<>>)
<1>4. DOMAIN F = DOMAIN OD_tree /\ \A n \in DOMAIN OD_tree : F[n] = OD_tree[n]
  BY <1>2, <1>3, OverlaySame
<1>5. DOMAIN G = DOMAIN OD_tree /\ \A n \in DOMAIN OD_tree : G[n] = OD_tree[n]
  <2>1. \A j \in 1..0 : (<<>>)[j].Node \in DOMAIN OD_tree /\ OD_tree[(<<>>)[j].Node] = (<<>>)[j]
    OBVIOUS
  <2> QED  BY <1>3, <2>1, OverlaySame
<1>6. TheTree = F /\ TheTree' = G
  BY <1>1 DEF TheTree
<1> HIDE DEF F, G
<1> QED  BY <1>4, <1>5, <1>6 DEF Alike

\* And with it what a search may rely on.
LEMMA QuietTally ==
  ASSUME LInv, LInv', Books, Full', Tallied,
         \/ Start \/ Exit \/ AddFind \/ AddInsert \/ DelEnd \/ SearchEnd
         \/ StartSearch \/ Expand \/ TakeLeaf \/ WalkNode \/ WalkLeaf
  PROVE  Tallied'
<1>1. Done' = Done /\ Gone' = Gone /\ STw'.cnt_i = STw.cnt_i /\ STw'.sn = STw.sn
  BY QuietFull
<1>2. CASE DelEnd
  <2>1. EDB' = EDB /\ ins' = <<>> /\ sent.tree = Len(ins) /\ pc = "del"
    BY <1>2 DEF DelEnd, server
  <2>2. sent.entry >= Len(ins) - 1 /\ sent.entry \in Nat /\ Len(ins) \in Nat
    BY <2>1 DEF Books, Streams, LInv, EInv, DInv, Fields, Writing
  <2>3. \A j \in 1..(Len(ins) - 1) : ~(j > sent.entry)
    BY <2>2
  <2>4. Entered(TheTree, EDB, ins, sent.entry) => Entered(TheTree, EDB, ins', sent'.entry)
    BY <2>3 DEF Entered
  <2>5. Alike(TheTree, TheTree')
    BY <1>2, EndAlike
  <2> QED  BY <1>1, <2>1, <2>4, <2>5, TallyKept
<1>3. CASE ~DelEnd
  <2>1. UNCHANGED <<OD_tree, EDB, ins, sent>>
    BY <1>3 DEF Start, Exit, AddFind, AddInsert, SearchEnd, StartSearch, Expand, TakeLeaf, WalkNode, WalkLeaf, server
  <2> QED  BY <1>1, <2>1, Elsewhere
<1> QED  BY <1>2, <1>3
-----------------------------------------------------------------------------
\* A node that arrives is the one the tree was to have.
LEMMA ArriveAlike == ASSUME LInv, DelTree PROVE Alike(TheTree, TheTree')
<1> DEFINE t == sent.tree + 1
           x == ins[t]
<1>1. ins' = ins /\ sent.tree < Len(ins) /\ OD_tree' = Put(OD_tree, x.Node, x)
  BY DEF DelTree
<1>2. t \in 1..Len(ins)
  BY <1>1 DEF LInv, EInv, DInv, Fields, Writing
<1>3. Falling(ins, Len(ins)) /\ DOMAIN ins = 1..Len(ins)
  BY InsFall DEF LInv, EInv, DInv, Writing
<1>4. /\ DOMAIN OD_tree' = DOMAIN OD_tree \cup {x.Node} /\ OD_tree'[x.Node] = x
      /\ \A n \in DOMAIN OD_tree : n # x.Node => OD_tree'[n] = OD_tree[n]
  BY <1>1 DEF Put
<1> DEFINE F == Overlay(OD_tree, ins)
           G == Overlay(OD_tree', ins)
<1>5. Overlaid(OD_tree, ins, Len(ins), F) /\ Overlaid(OD_tree', ins, Len(ins), G)
  BY <1>3, OverlayIs
<1>6. F = TheTree /\ G = TheTree'
  BY <1>1 DEF TheTree
<1> HIDE DEF F, G
<1>7. \A n : Wrote(ins, n) <=> \E j \in 1..Len(ins) : ins[j].Node = n
  BY <1>3 DEF Wrote
<1>8. Wrote(ins, x.Node)
  BY <1>2, <1>7
<1> HIDE DEF x
<1>9. \A n : n \in DOMAIN G <=> n \in DOMAIN F
  BY <1>4, <1>5, <1>8 DEF Overlaid
<1>10. \A n \in DOMAIN F : G[n] = F[n]
  <2> TAKE n \in DOMAIN F
  <2>1. CASE Wrote(ins, n)
    BY <1>5, <1>7, <2>1 DEF Overlaid
  <2>2. CASE ~Wrote(ins, n)
    BY <1>4, <1>5, <1>8, <2>2 DEF Overlaid
  <2> QED  BY <2>1, <2>2
<1> QED  BY <1>6, <1>9, <1>10 DEF Alike

\* So a node's arrival changes nothing a search may rely on once it may start.
LEMMA DelTreeTally ==
  ASSUME LInv, LInv', Books, Full', DelTree
  PROVE  Full /\ (Tallied => Tallied')
<1>1. /\ UNCHANGED <<pc, id, ST, ins, OD_del, EDB, hist>> /\ sent' = [sent EXCEPT !.tree = @ + 1]
  BY DEF DelTree
<1>2. sent'.entry = sent.entry
  BY <1>1 DEF LInv, EInv, DInv, Fields
<1>3. Done' = Done /\ Gone' = Gone /\ STw' = STw
  BY <1>1 DEF Done, Gone, STw, Known
<1>4. Full
  BY <1>1, <1>3 DEF Full
<1>5. ASSUME Tallied PROVE Tallied'
  BY <1>1, <1>2, <1>3, <1>5, ArriveAlike, TallyKept
<1> QED  BY <1>4, <1>5

\* A deletion that is asked for and not worked out yet changes nothing.
LEMMA DelFindTally ==
  ASSUME LInv, LInv', Books, Full', NEW i \in 1..MaxIds, DelFind(i)
  PROVE  Full /\ (Tallied => Tallied')
<1>1. /\ hist'.docs = hist.docs /\ hist'.deleted = hist.deleted \cup {i} /\ hist'.dels = hist.dels + 1
      /\ hist'.mixed = hist.mixed /\ hist'.again = (hist.again \/ i \notin Live(STw.cnt_i))
      /\ hist'.kills = hist.kills
  BY DEF DelFind, LInv, EInv, DInv, Fields
<1>2. /\ UNCHANGED <<OD_del, OD_tree, EDB, ins, sent, ST, db>> /\ pc = "ready" /\ pc' = "delRead" /\ id' = i
  BY DEF DelFind, server
<1>3. STw' = STw
  BY <1>2 DEF STw, Known
<1>4. ~hist.again /\ i \notin hist.deleted
  BY <1>1 DEF Full, Live
<1>5. Gone' = Gone
  BY <1>1, <1>2, <1>4 DEF Gone
<1>6. Done' = Done
  <2>1. hist.dels \in Int
    BY BoundsAssumption DEF LInv, EInv, DInv, Limits
  <2> QED  BY <1>1, <1>2, <2>1 DEF Done
<1>7. Full
  BY <1>1, <1>3, <1>4, <1>6 DEF Full
<1>8. ASSUME Tallied PROVE Tallied'
  BY <1>2, <1>3, <1>5, <1>6, <1>8, Elsewhere
<1> QED  BY <1>7, <1>8

\* An addition before any deletion.
LEMMA AddSendTally ==
  ASSUME LInv, LInv', Books, Full', AddSend
  PROVE  Full /\ (Tallied => Tallied')
<1> USE DEF LInv
<1> DEFINE c == STw.cnt_i + 1
           K == IF Known THEN ST.K ELSE hist.keys + 1
           docs == Append(SubSeq(hist.docs, 1, c - 1), id)
           mixed == hist.mixed \/ hist.deleted # {}
           reused == hist.reused \/ \E i \in hist.deleted : OD_del[i] = c
           keys == IF Known THEN hist.keys ELSE K
<1>1. /\ UNCHANGED <<OD_del, OD_tree, ins, sent, db, id>> /\ pc = "addSend" /\ pc' = "ready"
      /\ ST'.cnt_i = c /\ ST'.sn = getSn(c) /\ ST'.cnt_d = STw.cnt_d /\ ST' # <<>>
      /\ EDB' = Put(EDB, Leaf(c, K), [c |-> Doc(id), d |-> [h |-> c, to |-> STw.lastL]])
  BY DEF AddSend
<1>2. hist' = [hist EXCEPT !.keys = keys, !.docs = docs, !.mixed = mixed, !.reused = reused]
  BY DEF AddSend
<1>3. hist \in [docs : {hist.docs}, deleted : {hist.deleted}, dels : {hist.dels}, mixed : {hist.mixed},
                again : {hist.again}, torn : {hist.torn}, reused : {hist.reused}, keys : {hist.keys}, kills : {hist.kills}]
  BY DEF EInv, DInv, Fields
<1> HIDE DEF docs, reused, keys
<1>4. /\ hist'.deleted = hist.deleted /\ hist'.dels = hist.dels
      /\ hist'.again = hist.again /\ hist'.mixed = mixed /\ hist'.kills = hist.kills
  BY <1>2, <1>3
<1>5. ~hist.mixed /\ hist.deleted = {} /\ hist.dels = 0
  BY <1>4 DEF Full, Books, Accidents
<1>6. Done = 0 /\ Done' = 0 /\ Gone = {} /\ Gone' = {}
  BY <1>1, <1>4, <1>5 DEF Done, Gone
<1>7. STw' = ST'
  BY <1>1 DEF STw, Known
<1>8. Full
  BY <1>1, <1>4, <1>5, <1>6, <1>7 DEF Full
<1>9. STw.cnt_i \in Nat /\ c \in 1..N /\ c \in Nat
  <2>1. STw.cnt_i \in Nat
    BY Entries DEF EInv, DInv, STs
  <2>2. PICK n \in 0..MaxIds : STw.cnt_i < n
    BY DEF AddSend, EInv, DInv, Filled
  <2> QED  BY <2>1, <2>2, Size, BoundsAssumption
<1>10. ASSUME Tallied PROVE Tallied'
  <2> DEFINE F == TheTree
             L == Leaf(c, K)
             sn == getSn(c)
  <2>1. Sums(F, EDB, ins, sent.entry, 0, {}, STw.cnt_i, STw.sn)
    BY <1>6, <1>10 DEF Tallied
  <2>2. TheTree' = F
    BY <1>1 DEF TheTree
  <2>3. DOMAIN EDB' = DOMAIN EDB \cup {L} /\ \A l \in DOMAIN EDB : l # L => EDB'[l] = EDB[l]
    BY <1>1 DEF Put
  <2>4. L[1] = c /\ ~(L[1] > N)
    <3>1. L[1] = c
      BY DEF Leaf
    <3> QED  BY <1>9, <3>1, Size
  <2>5. sn \in Int /\ sn >= 1
    <3> HIDE DEF c, sn
    <3>1. getSn(c) \in 1..(2 * N - 1)
      BY <1>9, SnIs
    <3> QED  BY <3>1, Size DEF sn
  <2>6. STw'.cnt_i = c /\ STw'.sn = sn
    BY <1>1, <1>7
  <2> HIDE DEF F, L, sn, K
  <2>7. DOMAIN F = {} /\ Kept(F) = {}
    <3>1. DOMAIN F = {}
      BY <2>1 DEF Sums, Precise
    <3> QED  BY <3>1 DEF Kept
  <2>8. Precise(F, 0, {})
    BY <2>1 DEF Sums
  <2>9. Top(F, 0, c)
    BY <2>7 DEF Top, NumOf
  <2>10. Starts(F, {}, c, sn)
    BY <1>9, <2>5, <2>7 DEF Starts, Removed
  <2>11. LeavesOf(EDB', c)
    <3>1. LeavesOf(EDB, STw.cnt_i)
      BY <2>1 DEF Sums
    <3>2. \A l \in DOMAIN EDB : l[1] <= N => l[1] \in 1..c
      BY <1>9, <3>1 DEF LeavesOf
    <3> HIDE DEF c
    <3>3. c \in 1..c
      BY <1>9
    <3> QED  BY <2>3, <2>4, <3>2, <3>3 DEF LeavesOf
  <2>12. NodesOf(F, EDB')
    BY <2>1, <2>3, <2>4 DEF Sums, NodesOf
  <2>13. Entered(F, EDB', ins', sent'.entry)
    BY <2>7 DEF Entered
  <2>14. Sums(F, EDB', ins', sent'.entry, 0, {}, c, sn)
    <3> HIDE DEF c
    <3> QED  BY <2>8, <2>9, <2>10, <2>11, <2>12, <2>13 DEF Sums
  <2> HIDE DEF c
  <2>15. Sums(TheTree', EDB', ins', sent'.entry, Done', Gone', STw'.cnt_i, STw'.sn)
    BY <1>6, <2>2, <2>6, <2>14
  <2> QED  BY <2>15 DEF Tallied
<1> QED  BY <1>8, <1>10
-----------------------------------------------------------------------------
\* With nothing added after a deletion the invariant of NoLiveDocumentLost applies.
LEMMA FullSane == ASSUME LInv, Books, Full PROVE Sane /\ Leading
<1>1. Sane
  BY DEF Full, Books, Accidents, Sane
<1> QED  BY <1>1 DEF LInv

\* What a killed process or a deletion that is not counted leaves out.
LEMMA NotFull == ASSUME LInv, LInv', Books, Kill \/ DelCrash PROVE ~Full'
<1>1. CASE Kill
  <2>1. hist'.kills = hist.kills + 1
    BY <1>1 DEF Kill, Lose, LInv, EInv, DInv, Fields
  <2>2. hist.kills \in Nat
    BY DEF Books, Accidents
  <2> QED  BY <2>1, <2>2 DEF Full
<1>2. CASE DelCrash
  <2>1. pc = "delRead" /\ pc' = "off" /\ ST' = db /\ hist' = hist
    BY <1>2 DEF DelCrash, Lose
  <2>2. STw' = Saved
    BY <2>1 DEF STw, Known, Saved
  <2>3. Done' = hist.dels /\ Done = hist.dels - 1
    BY <2>1 DEF Done
  <2>4. Saved.cnt_d <= Done /\ hist.dels \in Int
    BY BoundsAssumption DEF LInv, EInv, DInv, Counted, Limits
  <2>5. Saved \in STs
    BY Entries DEF LInv, EInv, DInv
  <2>6. Saved.cnt_d \in 0..MaxDeletes
    BY <2>5 DEF STs
  <2>7. Saved.cnt_d \in Int
    BY <2>6, BoundsAssumption
  <2>8. Saved.cnt_d # hist.dels
    BY <2>3, <2>4, <2>7
  <2> QED  BY <2>2, <2>3, <2>8 DEF Full
<1> QED  BY <1>1, <1>2

\* The entry of node x is stored under its present counter.
Stored(F, E, x, lab, K, E2) ==
  /\ x.Node \in Kept(F) /\ F[x.Node] = x /\ x.Node > N /\ x.Node \in Int /\ x.Num \in Int /\ N \in Int
  /\ K \in 0..MaxKeys /\ lab = Node(x.Node, x.Num, K)
  /\ DOMAIN E2 = DOMAIN E \cup {lab} /\ E2[lab].c = x /\ \A l \in DOMAIN E : l # lab => E2[l] = E[l]

\* An entry that is stored is under its node's present counter.
LEMMA EntrySums ==
  ASSUME NEW F, NEW E, NEW w, NEW m \in Nat, NEW d, NEW gone, NEW c, NEW sn,
         Sums(F, E, w, m, d, gone, c, sn), NEW lab, NEW K, NEW E2, Stored(F, E, w[m + 1], lab, K, E2)
  PROVE  Sums(F, E2, w, m + 1, d, gone, c, sn)
<1> DEFINE x == w[m + 1]
<1>0. /\ x.Node \in Kept(F) /\ F[x.Node] = x /\ x.Node > N /\ x.Node \in Int /\ x.Num \in Int /\ N \in Int
      /\ K \in 0..MaxKeys /\ lab = Node(x.Node, x.Num, K)
      /\ DOMAIN E2 = DOMAIN E \cup {lab} /\ E2[lab].c = x /\ \A l \in DOMAIN E : l # lab => E2[l] = E[l]
  BY DEF Stored
<1>1. lab[1] = x.Node /\ lab[2] = x.Num /\ ~(lab[1] <= N)
  <2>1. lab[1] = x.Node /\ lab[2] = x.Num
    BY <1>0 DEF Node
  <2> QED  BY <1>0, <2>1
<1>2. LeavesOf(E2, c)
  BY <1>0, <1>1 DEF Sums, LeavesOf
<1>3. NodesOf(F, E2)
  <2>1. x.Node \in DOMAIN F
    BY <1>0 DEF Kept
  <2>2. \A l \in DOMAIN E : l[1] > N =>
          /\ l[1] \in DOMAIN F
          /\ l[1] \in Kept(F) => l[2] <= F[l[1]].Num /\ (l[2] = F[l[1]].Num => E[l].c = F[l[1]])
    BY DEF Sums, NodesOf
  <2> SUFFICES ASSUME NEW l \in DOMAIN E2, l[1] > N
               PROVE  /\ l[1] \in DOMAIN F
                      /\ l[1] \in Kept(F) => l[2] <= F[l[1]].Num /\ (l[2] = F[l[1]].Num => E2[l].c = F[l[1]])
    BY DEF NodesOf
  <2>3. CASE l = lab
    BY <1>0, <1>1, <2>1, <2>3
  <2>4. CASE l # lab
    BY <1>0, <2>2, <2>4
  <2> QED  BY <2>3, <2>4
<1>4. Entered(F, E2, w, m + 1)
  <2>1. Entered(F, E, w, m)
    BY DEF Sums
  <2> SUFFICES ASSUME NEW n \in Kept(F)
               PROVE  \/ \E J \in 0..MaxKeys : Node(n, F[n].Num, J) \in DOMAIN E2
                      \/ \E j \in 1..(Len(w) - 1) : j > m + 1 /\ w[j].Node = n
    BY DEF Entered
  <2>2. CASE \E J \in 0..MaxKeys : Node(n, F[n].Num, J) \in DOMAIN E
    BY <1>0, <2>2
  <2>3. CASE \E j \in 1..(Len(w) - 1) : j > m /\ w[j].Node = n
    <3>1. PICK j \in 1..(Len(w) - 1) : j > m /\ w[j].Node = n
      BY <2>3
    <3>2. CASE j = m + 1
      <4>1. n = x.Node /\ F[n] = x
        BY <1>0, <3>1, <3>2
      <4>2. Node(n, F[n].Num, K) \in DOMAIN E2
        BY <1>0, <4>1
      <4> QED  BY <1>0, <4>2
    <3>3. CASE j # m + 1
      BY <3>1, <3>3
    <3> QED  BY <3>2, <3>3
  <2> QED  BY <2>1, <2>2, <2>3 DEF Entered
<1> QED  BY <1>2, <1>3, <1>4 DEF Sums

\* The entries of a deletion are stored one by one, under their nodes' counters.
LEMMA DelEntryTally ==
  ASSUME LInv, LInv', Books, Full', DelEntry
  PROVE  Full /\ (Tallied => Tallied')
<1> USE DEF LInv
<1> DEFINE x == ins[sent.entry + 1]
           lab == Node(x.Node, x.Num, ST.K)
<1>1. /\ UNCHANGED <<pc, id, ST, db, ins, OD_del, OD_tree, hist>> /\ pc = "del" /\ sent.entry < Len(ins) - 1
      /\ EDB' = Put(EDB, lab, [c |-> x, d |-> [h |-> 0, to |-> NoLabel]])
      /\ sent' = [sent EXCEPT !.entry = @ + 1]
  BY DEF DelEntry
<1>2. sent'.entry = sent.entry + 1 /\ sent.entry + 1 \in 1..Len(ins) /\ sent.entry \in Nat
  <2>1. sent.entry \in Nat
    BY DEF EInv, DInv, Fields
  <2>2. sent'.entry = sent.entry + 1
    BY <1>1 DEF EInv, DInv, Fields
  <2> QED  BY <1>1, <2>1, <2>2 DEF EInv, DInv, Writing
<1>3. Done' = Done /\ Gone' = Gone /\ STw' = STw /\ TheTree' = TheTree
  BY <1>1 DEF Done, Gone, STw, Known, TheTree
<1>4. Full
  BY <1>1, <1>3 DEF Full
<1>5. x \in Links /\ x.Num \in Int /\ x.Num >= 1 /\ x.Node \in Int /\ x.Node > N /\ N \in Int
  <2>1. x \in Links
    BY <1>2 DEF EInv, DInv, Writing
  <2>2. x.Num >= 1
    BY <1>1, <1>2 DEF EInv, DInv, Writing
  <2>3. x.Node \in (N + 1)..(2 * N - 1) /\ x.Num \in -1..MaxDeletes
    BY <2>1 DEF Links
  <2> QED  BY <2>1, <2>2, <2>3, Size, BoundsAssumption
<1>6. x.Node \in Kept(TheTree) /\ TheTree[x.Node] = x
  <2> DEFINE F == Overlay(OD_tree, ins)
  <2>1. Falling(ins, Len(ins))
    BY InsFall
  <2>2. Overlaid(OD_tree, ins, Len(ins), F)
    BY <2>1, OverlayIs
  <2> HIDE DEF F
  <2>3. x.Node \in DOMAIN F /\ F[x.Node] = x
    <3>1. Wrote(ins, x.Node)
      BY <1>2 DEF Wrote, EInv, DInv, Writing
    <3> QED  BY <1>2, <2>2, <3>1 DEF Overlaid
  <2>4. x.Num # -1
    BY <1>5
  <2>5. x.Node \in Kept(F)
    BY <2>3, <2>4 DEF Kept
  <2> QED  BY <2>3, <2>5 DEF F, TheTree
<1>7. ST.K \in 0..MaxKeys
  <2>1. Known
    BY <1>1 DEF EInv, DInv, Writing
  <2>2. ST \in STs
    BY <2>1, Entries DEF EInv, DInv
  <2> QED  BY <2>2 DEF STs
<1>8. ASSUME Tallied PROVE Tallied'
  <2> DEFINE F == TheTree
  <2>1. Sums(F, EDB, ins, sent.entry, Done, Gone, STw.cnt_i, STw.sn)
    BY <1>8 DEF Tallied
  <2>2. /\ DOMAIN EDB' = DOMAIN EDB \cup {lab} /\ EDB'[lab].c = x
        /\ \A l \in DOMAIN EDB : l # lab => EDB'[l] = EDB[l]
    BY <1>1 DEF Put
  <2>3. x.Node \in Kept(F) /\ F[x.Node] = x
    BY <1>6
  <2>4. x = ins[sent.entry + 1] /\ lab = Node(x.Node, x.Num, ST.K)
    OBVIOUS
  <2> HIDE DEF F
  <2>7. Stored(F, EDB, ins[sent.entry + 1], lab, ST.K, EDB')
    <3> HIDE DEF lab, x
    <3>1. Stored(F, EDB, x, lab, ST.K, EDB')
      BY <1>5, <1>7, <2>2, <2>3, <2>4 DEF Stored
    <3> QED  BY <3>1, <2>4
  <2> HIDE DEF lab
  <2>5. Sums(F, EDB', ins, sent.entry + 1, Done, Gone, STw.cnt_i, STw.sn)
    BY <1>2, <2>1, <2>7, EntrySums
  <2>6. Sums(TheTree', EDB', ins', sent'.entry, Done', Gone', STw'.cnt_i, STw'.sn)
    BY <1>1, <1>2, <1>3, <2>5 DEF F
  <2> QED  BY <2>6 DEF Tallied
<1> QED  BY <1>4, <1>8

-----------------------------------------------------------------------------
\* What a deletion does to what a search may rely on.
LEMMA WrittenSums ==
  ASSUME NEW F, NEW leaf, NEW gone, NEW a, NEW k, NEW w, NEW G, Deletion(F, leaf, gone, a, k, w, G),
         Len(w) = k, \A j \in 1..k : w[j].Node = a[j].Node,
         gone \subseteq 1..N, NEW d \in Nat, NEW c \in Nat, leaf <= c, NEW sn \in Int,
         NEW E, \A l \in DOMAIN E : l[2] \in Int, Sums(F, E, <<>>, 0, d, gone, c, sn),
         NEW sn2, sn2 = IF a[k - 1].Node > sn THEN a[k - 1].Node ELSE sn
  PROVE  Sums(G, E, w, 0, d + 1, gone \cup {leaf}, c, sn2)
<1>1. Precise(G, d + 1, gone \cup {leaf}) /\ Top(G, d + 1, c)
  <2>1. Precise(F, d, gone) /\ Top(F, d, c)
    BY DEF Sums
  <2>2. Precise(G, d + 1, gone \cup {leaf})
    BY <2>1, WrittenPrecise
  <2>3. Top(G, d + 1, c)
    BY <2>1, WrittenTop
  <2> QED  BY <2>2, <2>3
<1>2. /\ k \in Nat /\ k >= 2 /\ k - 1 \in 1..k /\ leaf \in 1..N /\ leaf \in Int /\ N \in Int
      /\ \A j \in 1..k : /\ a[j].Node \in Inner /\ a[j].Node \in Int /\ a[j].Node > N
                         /\ ~Removed(F, a[j].Node) /\ a[j].Num >= 0 /\ a[j].Num \in Int
      /\ \A i, j \in 1..k : i < j => a[j].Node < a[i].Node
  <2>1. OnWay(F, leaf, gone, a, k)
    BY DEF Deletion
  <2>2. /\ k \in Nat /\ k >= 2 /\ leaf \in 1..N
        /\ \A j \in 1..k : a[j].Node \in Inner /\ ~Removed(F, a[j].Node) /\ a[j].Num >= 0 /\ a[j] \in Links
        /\ \A i, j \in 1..k : i < j => a[j].Node < a[i].Node
    BY <2>1 DEF OnWay
  <2>3. \A j \in 1..k : a[j].Num \in -1..MaxDeletes
    BY <2>2 DEF Links
  <2>4. \A j \in 1..k : a[j].Num \in Int
    BY <2>3, BoundsAssumption
  <2>5. \A j \in 1..k : a[j].Node \in Int /\ a[j].Node > N
    BY <2>2, InnerIs
  <2>6. k - 1 \in 1..k /\ leaf \in Int /\ N \in Int
    BY <2>2, Size
  <2> QED  BY <2>2, <2>4, <2>5, <2>6
<1>3. Replaced(F, a, k, w, G) /\ Taken(F, a, k)
  BY DEF Deletion
<1>4. \A j \in 1..k : j < k => w[j].Num = a[j].Num + 1
  BY DEF Deletion, CountsAre
<1>5. ASSUME NEW n, Removed(G, n) PROVE Removed(F, n) \/ n = a[k].Node
  <2>1. CASE \E j \in 1..k : a[j].Node = n
    <3>1. PICK j \in 1..k : a[j].Node = n
      BY <2>1
    <3>2. G[n] = w[j]
      BY <1>3, <3>1 DEF Replaced
    <3>3. w[j].Num = -1
      BY <1>5, <3>2 DEF Removed
    <3>4. ~(j < k)
      <4>1. a[j].Num >= 0 /\ a[j].Num \in Int
        BY <1>2
      <4>2. a[j].Num + 1 # -1
        BY <4>1
      <4> QED  BY <1>4, <3>3, <4>2
    <3>5. j = k
      BY <1>2, <3>4
    <3> QED  BY <3>1, <3>5
  <2>2. CASE \A j \in 1..k : a[j].Node # n
    <3>1. n \in DOMAIN G /\ G[n].Num = -1
      BY <1>5 DEF Removed
    <3>2. n \in DOMAIN F /\ G[n] = F[n]
      BY <1>3, <2>2, <3>1 DEF Replaced
    <3> QED  BY <3>1, <3>2 DEF Removed
  <2> QED  BY <2>1, <2>2
<1>6. Starts(G, gone \cup {leaf}, c, sn2)
  <2>1. sn \notin gone /\ ~Removed(F, sn)
    BY DEF Sums, Starts
  <2>2. c # 0
    BY <1>2
  <2>3. a[k].Node < a[k - 1].Node /\ k \in 1..k
    BY <1>2
  <2>4. CASE a[k - 1].Node > sn
    <3>1. sn2 = a[k - 1].Node /\ sn2 > N /\ sn2 \in Int /\ ~Removed(F, sn2)
      BY <1>2, <2>4
    <3>2. sn2 \notin gone /\ sn2 # leaf
      BY <1>2, <3>1
    <3>3. sn2 # a[k].Node
      BY <1>2, <2>3, <3>1
    <3>4. ~Removed(G, sn2)
      BY <1>5, <3>1, <3>3
    <3> QED  BY <2>2, <3>2, <3>4 DEF Starts
  <2>5. CASE ~(a[k - 1].Node > sn)
    <3>1. sn2 = sn
      BY <2>5
    <3>2. sn > N /\ sn > a[k].Node
      BY <1>2, <2>3, <2>5
    <3>3. sn # leaf /\ sn # a[k].Node
      BY <1>2, <3>2
    <3>4. ~Removed(G, sn)
      BY <1>5, <2>1, <3>3
    <3> QED  BY <2>1, <2>2, <3>1, <3>3, <3>4 DEF Starts
  <2> QED  BY <2>4, <2>5
<1>7. LeavesOf(E, c)
  BY DEF Sums
<1>8. NodesOf(G, E)
  <2>1. \A l \in DOMAIN E : l[1] > N =>
          /\ l[1] \in DOMAIN F
          /\ l[1] \in Kept(F) => l[2] <= F[l[1]].Num /\ (l[2] = F[l[1]].Num => E[l].c = F[l[1]])
    BY DEF Sums, NodesOf
  <2> SUFFICES ASSUME NEW l \in DOMAIN E, l[1] > N
               PROVE  /\ l[1] \in DOMAIN G
                      /\ l[1] \in Kept(G) => l[2] <= G[l[1]].Num /\ (l[2] = G[l[1]].Num => E[l].c = G[l[1]])
    BY DEF NodesOf
  <2>2. l[1] \in DOMAIN F /\ l[1] \in DOMAIN G
    BY <1>3, <2>1 DEF Replaced
  <2>3. ASSUME l[1] \in Kept(G)
        PROVE  l[2] <= G[l[1]].Num /\ (l[2] = G[l[1]].Num => E[l].c = G[l[1]])
    <3>1. CASE \E j \in 1..k : a[j].Node = l[1]
      <4>1. PICK j \in 1..k : a[j].Node = l[1]
        BY <3>1
      <4>2. G[l[1]] = w[j] /\ j < k
        <5> DEFINE n == l[1]
        <5>1. n \in Kept(G) /\ a[j].Node = n
          BY <2>3, <4>1
        <5> HIDE DEF n
        <5>2. G[n] = w[j] /\ j < k
          BY <5>1, WrittenKept
        <5> QED  BY <5>2 DEF n
      <4>3. a[j] = F[l[1]]
        BY <1>3, <2>2, <4>1 DEF Taken
      <4>4. l[1] \in Kept(F)
        <5>1. a[j].Num # -1
          BY <1>2
        <5> QED  BY <2>2, <4>3, <5>1 DEF Kept
      <4>5. l[2] <= a[j].Num
        BY <2>1, <4>3, <4>4
      <4>6. G[l[1]].Num = a[j].Num + 1 /\ l[2] \in Int /\ a[j].Num \in Int
        BY <1>2, <1>4, <4>2
      <4> QED  BY <4>5, <4>6
    <3>2. CASE \A j \in 1..k : a[j].Node # l[1]
      <4> DEFINE n == l[1]
      <4>1. n \in Kept(G) /\ \A j \in 1..k : a[j].Node # n
        BY <2>3, <3>2
      <4> HIDE DEF n
      <4>2. n \in Kept(F) /\ G[n] = F[n]
        BY <4>1, Unwritten
      <4> QED  BY <2>1, <4>2 DEF n
    <3> QED  BY <3>1, <3>2
  <2> QED  BY <2>2, <2>3
<1>9. Entered(G, E, w, 0)
  <2> SUFFICES ASSUME NEW n \in Kept(G)
               PROVE  \/ \E J \in 0..MaxKeys : Node(n, G[n].Num, J) \in DOMAIN E
                      \/ \E j \in 1..(Len(w) - 1) : j > 0 /\ w[j].Node = n
    BY DEF Entered
  <2>1. CASE \E j \in 1..k : a[j].Node = n
    <3>1. PICK j \in 1..k : a[j].Node = n
      BY <2>1
    <3>2. j < k
      BY <3>1, WrittenKept
    <3>3. j \in 1..(Len(w) - 1) /\ j > 0 /\ w[j].Node = n
      BY <1>2, <3>1, <3>2
    <3> QED  BY <3>3
  <2>2. CASE \A j \in 1..k : a[j].Node # n
    <3>1. n \in Kept(F) /\ G[n] = F[n]
      BY <2>2, Unwritten
    <3>2. Entered(F, E, <<>>, 0)
      BY DEF Sums
    <3>3. \/ \E J \in 0..MaxKeys : Node(n, F[n].Num, J) \in DOMAIN E
          \/ \E j \in 1..(Len(<<>>) - 1) : j > 0 /\ (<<>>)[j].Node = n
      BY <3>1, <3>2 DEF Entered
    <3>4. ~\E j \in 1..(Len(<<>>) - 1) : j > 0 /\ (<<>>)[j].Node = n
      OBVIOUS
    <3> QED  BY <3>1, <3>3, <3>4
  <2> QED  BY <2>1, <2>2
<1> QED  BY <1>1, <1>6, <1>7, <1>8, <1>9 DEF Sums
-----------------------------------------------------------------------------
\* With nothing written the tree is OD_tree.
LEMMA BareAlike ==
  ASSUME LInv, pc # "del" PROVE Alike(TheTree, OD_tree) /\ Alike(OD_tree, TheTree) /\ ins = <<>> /\ sent.entry = 0
<1>1. ins = <<>> /\ sent = [tree |-> 0, entry |-> 0]
  BY DEF LInv, Arriving
<1>2. Falling(<<>>, 0) /\ \A j \in 1..0 : (<<>>)[j].Node \in DOMAIN OD_tree /\ OD_tree[(<<>>)[j].Node] = (<<>>)[j]
  BY DEF Falling
<1> DEFINE G == Overlay(OD_tree, <<>>)
<1>3. DOMAIN G = DOMAIN OD_tree /\ \A n \in DOMAIN OD_tree : G[n] = OD_tree[n]
  BY <1>2, OverlaySame
<1>4. TheTree = G
  BY <1>1 DEF TheTree
<1> HIDE DEF G
<1> QED  BY <1>1, <1>3, <1>4 DEF Alike

\* A deletion that is worked out: its nodes are under way, none has an entry yet.
LEMMA DelReadTally ==
  ASSUME LInv, LInv', Books, Full', DelRead
  PROVE  Full /\ (Tallied => Tallied')
<1> USE DEF LInv
<1> DEFINE leaf == OD_del[id]
           a == Ancestors(leaf)
           w == Written(a, leaf)
           k == Len(a)
           e == hist.dels - 1
<1>1. /\ UNCHANGED <<OD_del, OD_tree, EDB, hist, sent, db, id>> /\ pc = "delRead" /\ pc' = "del"
      /\ ins' = w /\ a # <<>>
      /\ ST' = IF k < 2 THEN STw
               ELSE [STw EXCEPT !.cnt_d = @ + 1, !.sn = IF a[k - 1].Node > @ THEN a[k - 1].Node ELSE @]
  BY DEF DelRead, server
<1>2. /\ STw \in STs /\ STw' = ST'
  BY Zenon, <1>1, Entries DEF EInv, DInv, STw, Known, Writing
<1>3. STw.cnt_i \in Nat /\ STw.sn \in Int /\ STw.cnt_d \in Int
  <2>1. STw.cnt_i \in 0..MaxIds /\ STw.cnt_d \in 0..MaxDeletes /\ STw.sn \in 0..(2 * N)
    BY <1>2 DEF STs
  <2> QED  BY <2>1, Size, BoundsAssumption
<1>4. leaf \in 1..N /\ id \in DOMAIN OD_del
  <2>1. id \in DOMAIN OD_del
    BY <1>1 DEF EInv, DInv, Filled
  <2> QED  BY <2>1, Size, BoundsAssumption DEF EInv, DInv, TypeOK
<1>5. e \in Nat /\ e + 1 <= MaxDeletes /\ e + 1 \in Nat /\ TreeOf(e) /\ Done = e /\ Done' = e + 1 /\ STw.cnt_d <= e
  <2>1. Done = e /\ hist.dels \in 0..MaxDeletes /\ Done >= 0 /\ STw.cnt_d <= Done
    BY <1>1 DEF Done, EInv, DInv, Limits, Counted
  <2>2. TreeOf(Done)
    BY TreeIs DEF EInv
  <2>3. Done' = hist.dels
    BY <1>1 DEF Done
  <2> QED  BY <2>1, <2>2, <2>3, BoundsAssumption
<1>6. Descent(a, e)
  <2> HIDE DEF leaf, e
  <2> QED  BY <1>4, <1>5, AncestorsDescend
<1>7. Len(w) = k /\ k \in Nat /\ \A j \in 1..k : w[j].Node = a[j].Node
  <2>1. a \in Seq(Links)
    BY <1>6 DEF Descent
  <2> HIDE DEF leaf, e, a
  <2>2. Len(w) = Len(a) /\ \A j \in 1..Len(a) : w[j].Node = a[j].Node
    BY <1>5, <1>6, WrittenIs
  <2> QED  BY <2>1, <2>2
<1> HIDE DEF e, w, a
<1>8. STw'.cnt_d = Done' /\ hist'.mixed = hist.mixed /\ hist'.again = hist.again /\ hist'.kills = hist.kills
  BY <1>1 DEF Full
<1>9. k >= 2
  <2>1. CASE k < 2
    <3>1. STw'.cnt_d = STw.cnt_d
      BY <1>1, <1>2, <2>1
    <3> QED  BY <1>3, <1>5, <1>8, <3>1
  <2> QED  BY <1>7, <2>1
<1>10. /\ STw'.cnt_d = STw.cnt_d + 1 /\ STw'.cnt_i = STw.cnt_i
       /\ STw'.sn = IF a[k - 1].Node > STw.sn THEN a[k - 1].Node ELSE STw.sn
  <2>1. ~(k < 2)
    BY <1>7, <1>9
  <2>2. STw' = [STw EXCEPT !.cnt_d = @ + 1, !.sn = IF a[k - 1].Node > @ THEN a[k - 1].Node ELSE @]
    BY <1>1, <1>2, <2>1
  <2> QED  BY <1>2, <2>2 DEF STs
<1>11. Full
  <2>1. STw.cnt_d = Done
    BY <1>3, <1>5, <1>8, <1>10
  <2> QED  BY <1>8, <2>1 DEF Full
<1>12. ASSUME Tallied PROVE Tallied'
  <2>1. Sane /\ Leading
    BY <1>11, FullSane
  <2>2. id \in hist.deleted /\ leaf <= STw.cnt_i /\ leaf \notin Gone
    BY <1>1, <2>1 DEF Leading, Owned
  <2>3. Gone' = Gone \cup {leaf}
    BY <1>1, <2>2 DEF Gone
  <2>4. Tree(OD_tree, Gone)
    BY <1>1, <2>1 DEF Leading, Trees, Arriving
  <2>5. Gone \subseteq 1..N
    <3>1. \A x \in DOMAIN OD_del : OD_del[x] \in 1..N
      BY Size, BoundsAssumption DEF EInv, DInv, TypeOK
    <3> QED  BY <3>1 DEF Gone, Mapped
  <2>6. \A l \in DOMAIN EDB : l[2] \in Int
    <3>1. \A l \in DOMAIN EDB : l[2] \in 0..MaxDeletes + 1
      BY DEF EInv, DInv, TypeOK, Labels
    <3> QED  BY <3>1, BoundsAssumption
  <2>7. Sums(OD_tree, EDB, <<>>, 0, e, Gone, STw.cnt_i, STw.sn)
    <3> DEFINE F == TheTree
    <3>1. Sums(F, EDB, ins, sent.entry, Done, Gone, STw.cnt_i, STw.sn)
      BY <1>12 DEF Tallied
    <3>2. Alike(F, OD_tree) /\ ins = <<>> /\ sent.entry = 0
      BY <1>1, BareAlike
    <3> HIDE DEF F
    <3>3. Sums(F, EDB, <<>>, 0, e, Gone, STw.cnt_i, STw.sn)
      BY <1>5, <3>1, <3>2
    <3>4. Entered(F, EDB, <<>>, 0) => Entered(F, EDB, <<>>, 0)
      OBVIOUS
    <3> QED  BY <3>2, <3>3, <3>4, SumsLike
  <2> DEFINE G == Overlay(OD_tree, w)
  <2>8. Deletion(OD_tree, leaf, Gone, a, k, w, G)
    <3>1. a = Ancestors(leaf) /\ w = Written(a, leaf) /\ k = Len(a)
      BY DEF a, w
    <3> HIDE DEF leaf, k, G
    <3>2. Deletion(OD_tree, leaf, Gone, a, k, w, Overlay(OD_tree, w))
      BY <1>4, <1>5, <1>6, <1>9, <2>2, <2>4, <3>1, DeletionIs
    <3> QED  BY <3>2 DEF G
  <2>9. TheTree' = G
    BY <1>1 DEF TheTree
  <2> DEFINE sn2 == IF a[k - 1].Node > STw.sn THEN a[k - 1].Node ELSE STw.sn
  <2>10. sent'.entry = 0
    <3>1. sent'.entry = sent.entry
      BY <1>1
    <3> QED  BY <1>1, <3>1, BareAlike
  <2>11. STw'.sn = sn2
    BY <1>10
  <2>12. Sums(G, EDB, w, 0, e + 1, Gone \cup {leaf}, STw.cnt_i, sn2)
    <3> HIDE DEF leaf, k, G, sn2
    <3>1. sn2 = IF a[k - 1].Node > STw.sn THEN a[k - 1].Node ELSE STw.sn
      BY DEF sn2
    <3> QED  BY <1>3, <1>5, <1>7, <2>2, <2>5, <2>6, <2>7, <2>8, <3>1, WrittenSums
  <2> HIDE DEF leaf, k, G, sn2
  <2>13. Sums(TheTree', EDB', ins', sent'.entry, Done', Gone', STw'.cnt_i, STw'.sn)
    BY <1>1, <1>5, <1>10, <2>3, <2>9, <2>10, <2>11, <2>12
  <2> QED  BY <2>13 DEF Tallied
<1> QED  BY <1>11, <1>12

\* Nothing is stored at first.
LEMMA InitTally == Init => Tallied
<1> SUFFICES ASSUME Init PROVE Tallied
  OBVIOUS
<1>1. LInv /\ Books
  BY InitLInv, InitBooks
<1>2. /\ pc = "off" /\ DOMAIN OD_tree = {} /\ DOMAIN EDB = {} /\ hist.deleted = {} /\ hist.dels = 0
      /\ STw.cnt_i = 0 /\ STw.sn = 0
  BY DEF Init, STw, Known, NewST
<1>3. Done = 0 /\ Gone = {}
  BY <1>2 DEF Done, Gone
<1>4. Alike(OD_tree, TheTree) /\ ins = <<>> /\ sent.entry = 0
  BY <1>1, <1>2, BareAlike
<1>5. Kept(OD_tree) = {}
  BY <1>2 DEF Kept
<1>6. Precise(OD_tree, 0, {}) /\ Top(OD_tree, 0, 0) /\ Starts(OD_tree, {}, 0, 0)
  BY <1>2, <1>5 DEF Precise, Top, NumOf, Starts, Removed
<1>7. LeavesOf(EDB, 0) /\ NodesOf(OD_tree, EDB) /\ Entered(OD_tree, EDB, <<>>, 0)
  BY <1>2, <1>5 DEF LeavesOf, NodesOf, Entered
<1>8. Sums(OD_tree, EDB, <<>>, 0, 0, {}, 0, 0)
  BY <1>6, <1>7 DEF Sums
<1> DEFINE G == TheTree
<1>9. Alike(OD_tree, G)
  BY <1>4
<1> HIDE DEF G
<1>10. Entered(OD_tree, EDB, <<>>, 0) => Entered(OD_tree, EDB, <<>>, 0)
  OBVIOUS
<1>11. Sums(G, EDB, <<>>, 0, 0, {}, 0, 0)
  BY <1>8, <1>9, <1>10, SumsLike
<1>12. Sums(G, EDB, ins, sent.entry, Done, Gone, STw.cnt_i, STw.sn)
  BY <1>2, <1>3, <1>4, <1>11
<1> QED  BY <1>12 DEF Tallied, G

\* While nothing is added after a deletion and no process is killed, every step
\* keeps what a search may rely on.
LEMMA NextTally ==
  ASSUME LInv, LInv', Books, [Next]_vars, Full'
  PROVE  Full /\ (Tallied => Tallied')
<1>1. CASE \/ Start \/ Exit \/ AddFind \/ AddInsert \/ DelEnd \/ SearchEnd
           \/ StartSearch \/ Expand \/ TakeLeaf \/ WalkNode \/ WalkLeaf
  BY <1>1, QuietFull, QuietTally
<1>2. CASE Kill \/ DelCrash
  BY <1>2, NotFull
<1>3. CASE \E i \in 1..MaxIds : DelFind(i)
  BY <1>3, DelFindTally
<1>4. CASE AddSend \/ DelRead \/ DelEntry \/ DelTree
  BY <1>4, AddSendTally, DelReadTally, DelEntryTally, DelTreeTally
<1>5. CASE UNCHANGED vars
  <2>1. UNCHANGED <<pc, id, ST, db, ins, sent, OD_del, OD_tree, EDB, srv, hist>>
    BY <1>5 DEF vars
  <2>2. STw' = STw /\ Done' = Done /\ Gone' = Gone
    BY <2>1 DEF STw, Known, Done, Gone
  <2>3. Full
    BY <2>1, <2>2 DEF Full
  <2> QED  BY <2>1, <2>2, <2>3, Elsewhere
<1> QED  BY <1>1, <1>2, <1>3, <1>4, <1>5 DEF Next, Add, Del, Search
-----------------------------------------------------------------------------
\* The searches that are exact, and what holds during one.
Searching == pc = "search" /\ LInv /\ Books /\ Full /\ Tallied /\ OneKey /\ Done <= 2

\* What such a search may rely on, with the tree the server's own.
LEMMA SearchingIs ==
  ASSUME Searching
  PROVE  /\ Sums(OD_tree, EDB, <<>>, 0, Done, Gone, srv.cnt_i, STw.sn) /\ Tree(OD_tree, Gone) /\ Whole
         /\ Answering /\ SameKey /\ Gone \subseteq 1..N /\ Gone \subseteq Int
         /\ srv.cnt_i \in Nat /\ srv.cnt_i = STw.cnt_i
<1> USE DEF Searching
<1>1. Sane /\ Leading
  BY FullSane
<1>2. Answering /\ Whole
  BY <1>1 DEF Leading
<1>3. Tree(OD_tree, Gone)
  BY <1>1 DEF Leading, Trees, LInv, Arriving
<1>4. srv.cnt_i = STw.cnt_i /\ STw.cnt_i \in Nat
  <2>1. STw \in STs
    BY Entries DEF LInv, EInv, DInv
  <2>2. STw.cnt_i \in 0..MaxIds
    BY <2>1 DEF STs
  <2> QED  BY <1>2, <2>2, Size, BoundsAssumption DEF Answering
<1>5. SameKey
  <2>1. PICK ks \in [1..MaxIds -> 0..MaxKeys] : Chain(STw, ks, EDB, hist.docs)
    BY DEF LInv, EInv, Linked
  <2>2. \A i \in 1..STw.cnt_i : Leaf(i, ks[i]) \in DOMAIN EDB
    BY <2>1 DEF Chain, LeafIs
  <2>3. \A i \in 1..STw.cnt_i : Leaf(i, ks[i])[3] = ks[i]
    BY DEF Leaf
  <2>4. \A i \in 1..STw.cnt_i : Leaf(i, srv.K) \in DOMAIN EDB
    BY <2>2, <2>3 DEF OneKey
  <2> QED  BY <1>4, <2>4 DEF SameKey
<1>6. Gone \subseteq 1..N
  <2>1. \A x \in DOMAIN OD_del : OD_del[x] \in 1..N
    BY Size, BoundsAssumption DEF LInv, EInv, DInv, TypeOK
  <2> QED  BY <2>1 DEF Gone, LInv, Mapped
<1>7. Sums(OD_tree, EDB, <<>>, 0, Done, Gone, srv.cnt_i, STw.sn)
  <2> DEFINE F == TheTree
  <2>1. Sums(F, EDB, ins, sent.entry, Done, Gone, STw.cnt_i, STw.sn)
    BY DEF Tallied
  <2>2. Alike(F, OD_tree) /\ ins = <<>> /\ sent.entry = 0
    BY BareAlike
  <2> HIDE DEF F
  <2>3. Sums(F, EDB, <<>>, 0, Done, Gone, srv.cnt_i, STw.sn)
    BY <1>4, <2>1, <2>2
  <2>4. Entered(F, EDB, <<>>, 0) => Entered(F, EDB, <<>>, 0)
    OBVIOUS
  <2> QED  BY <2>2, <2>3, <2>4, SumsLike
<1>8. Gone \subseteq Int
  BY <1>6, Size
<1> QED  BY <1>2, <1>3, <1>4, <1>5, <1>6, <1>7, <1>8

\* A leaf whose entry a search reads under its key is an update.
LEMMA LeafRead ==
  ASSUME Searching, NEW n, n <= N, Leaf(n, srv.K) \in DOMAIN EDB
  PROVE  n \in 1..srv.cnt_i /\ EDB[Leaf(n, srv.K)].c = Doc(hist.docs[n])
<1>1. LeavesOf(EDB, srv.cnt_i)
  BY SearchingIs DEF Sums
<1>2. Leaf(n, srv.K)[1] = n
  BY DEF Leaf
<1>3. n \in 1..srv.cnt_i
  BY <1>1, <1>2 DEF LeavesOf
<1>4. srv.cnt_i > 0
  BY <1>3, SearchingIs
<1>5. Straight
  BY <1>4, SearchingIs DEF Answering
<1>6. EDB[Leaf(n, srv.K)] =
        [c |-> Doc(hist.docs[n]), d |-> [h |-> n, to |-> IF n = 1 THEN NoLabel ELSE Leaf(n - 1, srv.K)]]
  BY <1>3, <1>5 DEF Straight
<1>7. EDB[Leaf(n, srv.K)].c = Doc(hist.docs[n])
  BY <1>6
<1> QED  BY <1>3, <1>7

\* A step of the loop leaves the tree, what is gone and the documents.
LEMMA LoopKeeps ==
  ASSUME UNCHANGED <<pc, id, ST, db, ins, sent, server, hist>>
  PROVE  Gone' = Gone /\ OD_tree' = OD_tree /\ hist'.docs = hist.docs /\ EDB' = EDB
<1>1. OD_del' = OD_del /\ OD_tree' = OD_tree /\ EDB' = EDB
  BY DEF server
<1>2. Gone' = Gone
  BY <1>1 DEF Gone
<1> QED  BY <1>1, <1>2

\* A node whose entry is read gives a search its two children with their counters;
\* one with no entry has the leaves under it walked, none of them deleted.
LEMMA ExpandExact == ASSUME Searching, Exacting, Expand PROVE Exacting'
<1> DEFINE C == EDB[HeadLabel].c
           n == srv.q[1][1]
           right == IF lln(C.r) <= srv.cnt_i THEN <<<<C.r, C.rNum>>>> ELSE <<>>
<1>1. /\ UNCHANGED <<pc, id, ST, db, ins, sent, server, hist>> /\ pc = "search" /\ ~Walking /\ srv.q # <<>>
      /\ n > N /\ HeadLabel \in DOMAIN EDB
      /\ srv' = [srv EXCEPT !.q = Tail(@) \o <<<<C.l, C.lNum>>>> \o right, !.C = C]
  BY DEF Expand, Turn
<1>2. /\ srv'.q = Tail(srv.q) \o <<<<C.l, C.lNum>>>> \o right /\ srv'.C = C
      /\ srv'.K = srv.K /\ srv'.cnt_i = srv.cnt_i /\ srv'.k = srv.k /\ srv'.lln = srv.lln
      /\ srv'.L = srv.L /\ srv'.R = srv.R
  BY Zenon, <1>1 DEF Searching, LInv, EInv, Locals
<1>3. /\ srv.q \in Seq(Int \X Int) /\ Len(srv.q) \in Nat /\ Len(srv.q) >= 1 /\ Tail(srv.q) \in Seq(Int \X Int)
      /\ \A j \in 1..Len(Tail(srv.q)) : j + 1 \in 1..Len(srv.q) /\ Tail(srv.q)[j] = srv.q[j + 1]
  <2>1. srv.q \in Seq(Int \X Int)
    BY SearchingIs DEF Answering
  <2> QED  BY <1>1, <2>1, Rest
<1>4. Fine(srv.q[1], OD_tree, Gone) /\ ~(n <= N)
  <2>1. Fine(srv.q[1], OD_tree, Gone)
    BY <1>3 DEF Exacting
  <2>2. srv.q[1] \in Int \X Int
    BY <1>3
  <2> QED  BY <1>1, <2>1, <2>2, Size
<1>5. n \in Inner /\ ~Removed(OD_tree, n) /\ (n \in DOMAIN OD_tree => srv.q[1][2] = OD_tree[n].Num)
  BY <1>4 DEF Fine
<1>6. HeadLabel[1] = n /\ HeadLabel[2] = srv.q[1][2]
  BY DEF HeadLabel, Node
<1>7. n \in Kept(OD_tree) /\ C = OD_tree[n]
  <2>1. NodesOf(OD_tree, EDB)
    BY SearchingIs DEF Sums
  <2>2. n \in DOMAIN OD_tree
    BY <1>1, <1>6, <2>1 DEF NodesOf
  <2>3. n \in Kept(OD_tree)
    BY <1>5, <2>2 DEF Kept, Removed
  <2> QED  BY <1>1, <1>5, <1>6, <2>1, <2>2, <2>3 DEF NodesOf
<1>8. /\ C.l \in Nodes /\ C.r \in Nodes /\ ~Removed(OD_tree, C.l) /\ ~Removed(OD_tree, C.r)
      /\ Clear(C, Gone) /\ Match(C, OD_tree) /\ C \in Links
  <2>1. Sound(OD_tree[n], OD_tree, Gone)
    BY <1>7, SearchingIs DEF Tree, Kept
  <2>2. Precise(OD_tree, Done, Gone) /\ Done <= 2
    BY SearchingIs DEF Sums, Searching
  <2>3. Clear(OD_tree[n], Gone) /\ Match(OD_tree[n], OD_tree)
    BY <1>7, <2>2 DEF Precise
  <2>4. OD_tree[n] \in Links
    BY <1>7 DEF Searching, LInv, EInv, DInv, TypeOK, Kept
  <2> QED  BY <1>7, <2>1, <2>3, <2>4 DEF Sound, Covering, Hung
<1>9. C.l \in Int /\ C.r \in Int /\ C.lNum \in Int /\ C.rNum \in Int
  <2>1. C.l \in 1..(2 * N - 2) /\ C.r \in 1..(2 * N - 2) /\ C.lNum \in 0..MaxDeletes /\ C.rNum \in 0..MaxDeletes
    BY <1>8 DEF Links
  <2> QED  BY <2>1, Size, BoundsAssumption
<1> HIDE DEF C
<1> DEFINE cl == <<C.l, C.lNum>>
           cr == <<C.r, C.rNum>>
<1>10. cl \in Int \X Int /\ cr \in Int \X Int /\ cl[1] = C.l /\ cr[1] = C.r /\ cl[2] = C.lNum /\ cr[2] = C.rNum
  BY <1>9
<1>11. \A c \in Nodes : c \in Int /\ (~(c <= N) => c \in Inner)
  BY Size DEF Nodes, Inner
<1> HIDE DEF cl, cr
<1>12. Fine(cl, OD_tree, Gone)
  BY <1>8, <1>10, <1>11 DEF Fine, Clear, Match
<1>13. Fine(cr, OD_tree, Gone)
  BY <1>8, <1>10, <1>11 DEF Fine, Clear, Match
<1> DEFINE s == Tail(srv.q) \o <<cl>>
<1>14. More(Int \X Int, Tail(srv.q), cl, s)
  BY <1>3, <1>10, Pushed
<1>15. \A j \in 1..Len(s) : Fine(s[j], OD_tree, Gone)
  <2> HIDE DEF s
  <2> TAKE j \in 1..Len(s)
  <2>1. s[j] = cl \/ \E i \in 1..Len(Tail(srv.q)) : s[j] = Tail(srv.q)[i]
    BY <1>14 DEF More
  <2>2. CASE s[j] = cl
    BY <1>12, <2>2
  <2>3. CASE \E i \in 1..Len(Tail(srv.q)) : s[j] = Tail(srv.q)[i]
    BY <1>3, <2>3 DEF Exacting
  <2> QED  BY <2>1, <2>2, <2>3
<1>16. \A j \in 1..Len(srv'.q) : Fine(srv'.q[j], OD_tree, Gone)
  <2>1. srv'.q = s \o right
    BY <1>2 DEF cl
  <2>2. s \in Seq(Int \X Int)
    BY <1>14 DEF More
  <2> HIDE DEF s
  <2>3. CASE lln(C.r) <= srv.cnt_i
    <3>1. right = <<cr>>
      BY <2>3 DEF cr
    <3> HIDE DEF right
    <3>2. srv'.q = s \o <<cr>>
      BY <2>1, <3>1
    <3>3. More(Int \X Int, s, cr, srv'.q)
      BY <1>10, <2>2, <3>2, Pushed
    <3> TAKE j \in 1..Len(srv'.q)
    <3>4. srv'.q[j] = cr \/ \E i \in 1..Len(s) : srv'.q[j] = s[i]
      BY <3>3 DEF More
    <3> QED  BY <1>13, <1>15, <3>4
  <2>4. CASE ~(lln(C.r) <= srv.cnt_i)
    <3>1. right = <<>>
      BY <2>4
    <3> HIDE DEF right
    <3>2. srv'.q = s
      BY <2>1, <2>2, <3>1
    <3> QED  BY <1>15, <3>2
  <2> QED  BY <2>3, <2>4
<1>17. Gone' = Gone /\ OD_tree' = OD_tree /\ hist'.docs = hist.docs
  BY <1>1, LoopKeeps
<1>18. ~Walking' /\ srv'.lln \in Int /\ srv'.k \in Int
  BY <1>1, <1>2 DEF Walking, Exacting
<1>19. Rightful(srv'.C, srv'.cnt_i, Gone, hist.docs)
  BY <1>2, <1>8 DEF Rightful
<1>20. \A j \in 1..Len(srv'.R) : Rightful(srv'.R[j], srv'.cnt_i, Gone, hist.docs)
  <2>1. \A j \in 1..Len(srv.R) : Rightful(srv.R[j], srv.cnt_i, Gone, hist.docs)
    BY DEF Exacting
  <2> QED  BY <1>2, <2>1
<1> QED  BY <1>16, <1>17, <1>18, <1>19, <1>20 DEF Exacting
-----------------------------------------------------------------------------
\* The results with one more behind them.
LEMMA MoreResults ==
  ASSUME NEW S, NEW R \in Seq(S), NEW x \in S, NEW T, T = Append(R, x)
  PROVE  \A j \in 1..Len(T) : T[j] = x \/ \E i \in 1..Len(R) : T[j] = R[i]
<1>1. Len(T) = Len(R) + 1 /\ T[Len(R) + 1] = x /\ Len(R) \in Nat
  OBVIOUS
<1>2. \A j \in 1..Len(R) : T[j] = R[j]
  OBVIOUS
<1>3. \A j \in 1..Len(T) : j \in 1..Len(R) \/ j = Len(R) + 1
  BY <1>1
<1> QED  BY <1>1, <1>2, <1>3

\* What a search reads is an entry's content, or what it read before.
LEMMA ReadCell ==
  ASSUME Searching, NEW l, NEW e, e = (IF l \in DOMAIN EDB THEN EDB[l].c ELSE srv.C)
  PROVE  e \in Cells
<1>1. srv.C \in Cells
  BY SearchingIs DEF Answering
<1>2. CASE l \in DOMAIN EDB
  BY <1>2 DEF Searching, LInv, EInv, DInv, TypeOK
<1> QED  BY <1>1, <1>2

\* A leaf in the queue is not deleted, so the document read there is left.
LEMMA TakeLeafExact == ASSUME Searching, Exacting, TakeLeaf PROVE Exacting'
<1> DEFINE n == srv.q[1][1]
           e == Read(Leaf(n, srv.K), [c |-> srv.C])
           x == e.c
<1>1. /\ UNCHANGED <<pc, id, ST, db, ins, sent, server, hist>> /\ pc = "search" /\ ~Walking /\ srv.q # <<>>
      /\ n <= N
      /\ srv' = [srv EXCEPT !.q = Tail(@), !.C = x, !.R = Append(@, x)]
  BY DEF TakeLeaf, Turn
<1>2. /\ srv'.q = Tail(srv.q) /\ srv'.C = x /\ srv'.R = Append(srv.R, x)
      /\ srv'.K = srv.K /\ srv'.cnt_i = srv.cnt_i /\ srv'.k = srv.k /\ srv'.lln = srv.lln
  BY Zenon, <1>1 DEF Searching, LInv, EInv, Locals
<1>3. /\ srv.q \in Seq(Int \X Int) /\ Len(srv.q) >= 1
      /\ \A j \in 1..Len(Tail(srv.q)) : j + 1 \in 1..Len(srv.q) /\ Tail(srv.q)[j] = srv.q[j + 1]
  <2>1. srv.q \in Seq(Int \X Int)
    BY SearchingIs DEF Answering
  <2> QED  BY <1>1, <2>1, Rest
<1>4. n \notin Gone
  <2>1. Fine(srv.q[1], OD_tree, Gone)
    BY <1>3 DEF Exacting
  <2> QED  BY <1>1, <2>1 DEF Fine
<1>5. x = (IF Leaf(n, srv.K) \in DOMAIN EDB THEN EDB[Leaf(n, srv.K)].c ELSE srv.C)
  BY DEF Read
<1> HIDE DEF e, x, n
<1>6. Rightful(x, srv.cnt_i, Gone, hist.docs)
  <2>1. CASE Leaf(n, srv.K) \in DOMAIN EDB
    <3>1. n \in 1..srv.cnt_i /\ EDB[Leaf(n, srv.K)].c = Doc(hist.docs[n])
      BY <1>1, <2>1, LeafRead
    <3>2. x = Doc(hist.docs[n]) /\ n \in (1..srv.cnt_i) \ Gone
      BY <1>4, <1>5, <2>1, <3>1
    <3> QED  BY <3>2 DEF Rightful
  <2>2. CASE Leaf(n, srv.K) \notin DOMAIN EDB
    BY <1>5, <2>2 DEF Exacting
  <2> QED  BY <2>1, <2>2
<1>7. \A j \in 1..Len(srv'.R) : Rightful(srv'.R[j], srv.cnt_i, Gone, hist.docs)
  <2>1. srv.R \in Seq(Cells)
    BY SearchingIs DEF Answering
  <2>2. x \in Cells
    BY <1>5, ReadCell
  <2>3. \A j \in 1..Len(srv'.R) : srv'.R[j] = x \/ \E i \in 1..Len(srv.R) : srv'.R[j] = srv.R[i]
    BY <1>2, <2>1, <2>2, MoreResults
  <2>4. \A j \in 1..Len(srv.R) : Rightful(srv.R[j], srv.cnt_i, Gone, hist.docs)
    BY DEF Exacting
  <2> QED  BY <1>6, <2>3, <2>4
<1>8. \A j \in 1..Len(srv'.q) : Fine(srv'.q[j], OD_tree, Gone)
  BY <1>2, <1>3 DEF Exacting
<1>9. Gone' = Gone /\ OD_tree' = OD_tree /\ hist'.docs = hist.docs
  BY <1>1, LoopKeeps
<1>10. ~Walking' /\ srv'.lln \in Int /\ srv'.k \in Int
  BY <1>1, <1>2 DEF Walking, Exacting
<1>11. Rightful(srv'.C, srv'.cnt_i, Gone, hist.docs)
  BY <1>2, <1>6
<1> QED  BY <1>2, <1>7, <1>8, <1>9, <1>10, <1>11 DEF Exacting

\* No leaf under a node without an entry is gone.
LEMMA WalkNodeExact == ASSUME Searching, Exacting, WalkNode PROVE Exacting'
<1> DEFINE n == srv.q[1][1]
           k == IF srv.cnt_i < rln(n) THEN srv.cnt_i ELSE rln(n)
<1>1. /\ UNCHANGED <<pc, id, ST, db, ins, sent, server, hist>> /\ pc = "search" /\ ~Walking /\ srv.q # <<>>
      /\ n > N /\ HeadLabel \notin DOMAIN EDB
      /\ srv' = [srv EXCEPT !.q = Tail(@), !.k = k, !.lln = lln(n), !.L = Leaf(k, srv.K)]
  BY DEF WalkNode, Turn
<1>2. /\ srv'.q = Tail(srv.q) /\ srv'.k = k /\ srv'.lln = lln(n)
      /\ srv'.cnt_i = srv.cnt_i /\ srv'.C = srv.C /\ srv'.R = srv.R
  BY <1>1 DEF Searching, LInv, EInv, Locals
<1>3. /\ srv.q \in Seq(Int \X Int) /\ Len(srv.q) >= 1 /\ srv.q[1] \in Int \X Int
      /\ \A j \in 1..Len(Tail(srv.q)) : j + 1 \in 1..Len(srv.q) /\ Tail(srv.q)[j] = srv.q[j + 1]
  <2>1. srv.q \in Seq(Int \X Int)
    BY SearchingIs DEF Answering
  <2> QED  BY <1>1, <2>1, Rest
<1>4. n \in Inner /\ ~Removed(OD_tree, n) /\ (n \in DOMAIN OD_tree => srv.q[1][2] = OD_tree[n].Num)
  <2>1. Fine(srv.q[1], OD_tree, Gone)
    BY <1>3 DEF Exacting
  <2>2. ~(n <= N)
    BY <1>1, <1>3, Size
  <2> QED  BY <2>1, <2>2 DEF Fine
<1>5. n \notin DOMAIN OD_tree
  <2> SUFFICES ASSUME n \in DOMAIN OD_tree PROVE FALSE
    OBVIOUS
  <2>1. n \in Kept(OD_tree)
    BY <1>4 DEF Kept, Removed
  <2>2. Entered(OD_tree, EDB, <<>>, 0)
    BY SearchingIs DEF Sums
  <2>3. \/ \E K \in 0..MaxKeys : Node(n, OD_tree[n].Num, K) \in DOMAIN EDB
        \/ \E j \in 1..(Len(<<>>) - 1) : j > 0 /\ (<<>>)[j].Node = n
    <3> HIDE DEF n
    <3> QED  BY <2>1, <2>2 DEF Entered
  <2>4. ~\E j \in 1..(Len(<<>>) - 1) : j > 0 /\ (<<>>)[j].Node = n
    OBVIOUS
  <2>5. PICK K \in 0..MaxKeys : Node(n, OD_tree[n].Num, K) \in DOMAIN EDB
    BY <2>3, <2>4
  <2>6. Node(n, OD_tree[n].Num, K)[3] = K
    BY DEF Node
  <2>7. K = srv.K
    BY <2>5, <2>6 DEF Searching, OneKey
  <2>8. HeadLabel = Node(n, OD_tree[n].Num, K)
    BY <1>4, <2>7 DEF HeadLabel
  <2> QED  BY <1>1, <2>5, <2>8
<1>6. \A g \in Gone : ~Under(g, n)
  <2>1. Precise(OD_tree, Done, Gone)
    BY SearchingIs DEF Sums
  <2> QED  BY <1>4, <1>5, <2>1 DEF Precise
<1>7. lln(n) \in Int /\ rln(n) \in Int /\ lln(n) >= 1 /\ srv.cnt_i \in Nat
  <2> HIDE DEF n
  <2>1. lln(n) \in 1..N /\ rln(n) \in 1..N
    BY <1>4, InnerIs, Path
  <2> QED  BY <2>1, Size, SearchingIs
<1>8. k \in Int /\ k <= srv.cnt_i /\ k <= rln(n)
  BY <1>7
<1>9. \A i \in lln(n)..k : i \notin Gone
  <2> HIDE DEF n, k
  <2> QED  BY <1>6, <1>7, <1>8 DEF Under
<1>10. \A j \in 1..Len(srv'.q) : Fine(srv'.q[j], OD_tree, Gone)
  BY <1>2, <1>3 DEF Exacting
<1>11. Gone' = Gone /\ OD_tree' = OD_tree /\ hist'.docs = hist.docs
  BY <1>1, LoopKeeps
<1> HIDE DEF n, k
<1> QED  BY <1>2, <1>7, <1>8, <1>9, <1>10, <1>11 DEF Exacting

\* Nor is a leaf of the walk.
LEMMA WalkLeafExact == ASSUME Searching, Exacting, WalkLeaf PROVE Exacting'
<1> DEFINE e == Read(srv.L, [c |-> srv.C, d |-> srv.D])
           x == e.c
<1>1. /\ UNCHANGED <<pc, id, ST, db, ins, sent, server, hist>> /\ pc = "search" /\ Walking
      /\ srv' = [srv EXCEPT !.C = x, !.D = e.d, !.R = Append(@, x),
                            !.k = @ - 1, !.L = Follow(e.d, srv.k)]
  BY Zenon DEF WalkLeaf
<1>2. /\ srv'.q = srv.q /\ srv'.k = srv.k - 1 /\ srv'.lln = srv.lln
      /\ srv'.cnt_i = srv.cnt_i /\ srv'.C = x /\ srv'.R = Append(srv.R, x)
  BY Zenon, <1>1 DEF Searching, LInv, EInv, Locals
<1>3. /\ srv.lln >= 1 /\ srv.k <= srv.cnt_i /\ srv.lln \in Int /\ srv.k \in Int /\ srv.cnt_i \in Nat
      /\ srv.lln <= srv.k /\ \A i \in srv.lln..srv.k : i \notin Gone
  <2>1. srv.lln \in Int /\ srv.k \in Int /\ srv.cnt_i \in Nat /\ srv.k >= srv.lln
    BY <1>1, SearchingIs DEF Exacting, Walking
  <2> QED  BY <1>1, <2>1 DEF Exacting
<1>4. srv.cnt_i > 0
  BY <1>3
<1>5. srv.L = Leaf(srv.k, srv.K) /\ srv.k \in 1..srv.cnt_i
  BY <1>1, <1>4, SearchingIs DEF Answering
<1>6. srv.k <= N
  <2>1. srv.cnt_i \in 0..MaxIds
    <3>1. STw \in STs
      BY Entries DEF Searching, LInv, EInv, DInv
    <3> QED  BY <3>1, SearchingIs DEF STs
  <2> QED  BY <1>3, <2>1, Size, BoundsAssumption
<1>7. srv.L \in DOMAIN EDB /\ EDB[srv.L].c = Doc(hist.docs[srv.k])
  BY <1>5, <1>6, SearchingIs, LeafRead DEF SameKey
<1>8. x = Doc(hist.docs[srv.k])
  BY <1>7 DEF Read
<1>9. x = (IF srv.L \in DOMAIN EDB THEN EDB[srv.L].c ELSE srv.C)
  BY <1>7, <1>8
<1> HIDE DEF e, x
<1>10. Rightful(x, srv.cnt_i, Gone, hist.docs)
  <2>1. srv.k \in (1..srv.cnt_i) \ Gone
    BY <1>3, <1>5
  <2> QED  BY <1>8, <2>1 DEF Rightful
<1>11. \A j \in 1..Len(srv'.R) : Rightful(srv'.R[j], srv.cnt_i, Gone, hist.docs)
  <2>1. srv.R \in Seq(Cells)
    BY SearchingIs DEF Answering
  <2>2. x \in Cells
    BY <1>9, ReadCell
  <2>3. \A j \in 1..Len(srv'.R) : srv'.R[j] = x \/ \E i \in 1..Len(srv.R) : srv'.R[j] = srv.R[i]
    BY <1>2, <2>1, <2>2, MoreResults
  <2>4. \A j \in 1..Len(srv.R) : Rightful(srv.R[j], srv.cnt_i, Gone, hist.docs)
    BY DEF Exacting
  <2> QED  BY <1>10, <2>3, <2>4
<1>12. Gone' = Gone /\ OD_tree' = OD_tree /\ hist'.docs = hist.docs
  BY <1>1, LoopKeeps
<1>13. /\ srv'.lln \in Int /\ srv'.k \in Int /\ srv'.lln >= 1 /\ srv'.k <= srv'.cnt_i
       /\ \A i \in srv'.lln..srv'.k : i \notin Gone
  BY <1>2, <1>3
<1>14. \A j \in 1..Len(srv'.q) : Fine(srv'.q[j], OD_tree, Gone)
  BY <1>2 DEF Exacting
<1> QED  BY <1>2, <1>10, <1>11, <1>12, <1>13, <1>14 DEF Exacting

\* A search starts from a node that has not been spliced out, with its counter.
LEMMA StartSearchExact == ASSUME LInv, Books, Full, Tallied, StartSearch, Gone' = Gone PROVE Exacting'
<1>1. /\ OD_tree' = OD_tree /\ pc = "ready"
      /\ srv'.q = <<<<STw.sn, STw.cnt_d>>>>
      /\ srv'.k = 0 /\ srv'.lln = 1 /\ srv'.C = Doc(0) /\ srv'.R = <<>>
  BY DEF StartSearch, server, NoSearch
<1>2. Sums(OD_tree, EDB, <<>>, 0, Done, Gone, STw.cnt_i, STw.sn)
  <2> DEFINE F == TheTree
  <2>1. Sums(F, EDB, ins, sent.entry, Done, Gone, STw.cnt_i, STw.sn)
    BY DEF Tallied
  <2>2. Alike(F, OD_tree) /\ ins = <<>> /\ sent.entry = 0
    BY <1>1, BareAlike
  <2> HIDE DEF F
  <2>3. Sums(F, EDB, <<>>, 0, Done, Gone, STw.cnt_i, STw.sn)
    BY <2>1, <2>2
  <2>4. Entered(F, EDB, <<>>, 0) => Entered(F, EDB, <<>>, 0)
    OBVIOUS
  <2> QED  BY <2>2, <2>3, <2>4, SumsLike
<1>3. STw.cnt_i \in Nat /\ STw.cnt_d = Done
  <2>1. STw \in STs
    BY Entries DEF LInv, EInv, DInv
  <2> QED  BY <2>1 DEF Full, STs
<1>4. Rooted(STw) /\ Starts(OD_tree, Gone, STw.cnt_i, STw.sn) /\ Top(OD_tree, Done, STw.cnt_i)
  BY <1>2, FullSane DEF Leading, Sums
<1> DEFINE y == <<STw.sn, STw.cnt_d>>
<1>5. y[1] = STw.sn /\ y[2] = Done
  BY <1>3
<1> HIDE DEF y
<1>6. Fine(y, OD_tree, Gone)
  <2>1. CASE STw.sn <= N
    BY <1>4, <1>5, <2>1 DEF Fine, Starts
  <2>2. CASE ~(STw.sn <= N)
    <3>1. STw.cnt_i # 0
      BY <1>4, <2>2, Size DEF Starts
    <3>2. STw.sn \in Nodes /\ lln(STw.sn) = 1 /\ STw.cnt_i <= rln(STw.sn)
      BY <1>3, <1>4, <3>1 DEF Rooted
    <3>3. STw.sn \in Inner
      BY <2>2, <3>2, Size DEF Nodes, Inner
    <3>4. ~Removed(OD_tree, STw.sn)
      BY <1>4 DEF Starts
    <3>5. NumOf(OD_tree, STw.sn) = Done
      BY <1>4, <3>2, <3>3, <3>4 DEF Top
    <3> QED  BY <1>5, <2>2, <3>3, <3>4, <3>5 DEF Fine, NumOf
  <2> QED  BY <2>1, <2>2
<1>7. \A j \in 1..Len(srv'.q) : Fine(srv'.q[j], OD_tree, Gone)
  <2>1. srv'.q = <<y>>
    BY <1>1 DEF y
  <2> QED  BY <1>6, <2>1
<1>8. ~Walking' /\ srv'.lln \in Int /\ srv'.k \in Int
  BY <1>1 DEF Walking
<1>9. Rightful(srv'.C, srv'.cnt_i, Gone', hist'.docs)
  BY <1>1 DEF Rightful
<1>10. \A j \in 1..Len(srv'.R) : FALSE
  BY <1>1
<1> QED  BY <1>1, <1>7, <1>8, <1>9, <1>10 DEF Exacting
-----------------------------------------------------------------------------
\* The invariant holds at first,
LEMMA InitFInv == Init => FInv
<1> SUFFICES ASSUME Init PROVE FInv
  OBVIOUS
<1>1. LInv /\ Books /\ Tallied
  BY InitLInv, InitBooks, InitTally
<1>2. pc # "search"
  BY DEF Init
<1> QED  BY <1>1, <1>2 DEF FInv, Staying, Books, Tallied

\* every step keeps it,
LEMMA NextFInv == FInv /\ [Next]_vars => FInv'
<1> SUFFICES ASSUME FInv, [Next]_vars PROVE FInv'
  OBVIOUS
<1>1. LInv /\ Books /\ (Full => Tallied) /\ (Full /\ pc = "search" /\ OneKey /\ Done <= 2 => Exacting)
  BY DEF FInv, Staying, Books, Tallied
<1>2. LInv'
  BY <1>1, NextLInv
<1>3. Books'
  BY <1>1, <1>2, NextBooks
<1>4. ASSUME Full' PROVE Tallied' /\ Full /\ Tallied
  BY <1>1, <1>2, <1>4, NextTally
<1>5. ASSUME Full', pc' = "search", OneKey', Done' <= 2 PROVE Exacting'
  <2>1. Full /\ Tallied
    BY <1>4, <1>5
  <2>2. CASE StartSearch
    <3>1. Gone' = Gone
      BY <1>1, <1>2, <1>5, <2>2, QuietFull
    <3> QED  BY <1>1, <2>1, <2>2, <3>1, StartSearchExact
  <2>3. CASE Expand \/ TakeLeaf \/ WalkNode \/ WalkLeaf
    <3>1. Done' = Done
      BY <1>1, <1>2, <1>5, <2>3, QuietFull
    <3>2. EDB' = EDB /\ pc = "search"
      BY <2>3 DEF Expand, TakeLeaf, WalkNode, WalkLeaf, Turn, server
    <3>3. srv'.K = srv.K
      <4>1. Locals
        BY <1>1 DEF LInv, EInv
      <4>2. CASE Expand
        BY <4>1, <4>2 DEF Expand, Locals
      <4>3. CASE TakeLeaf
        BY <4>1, <4>3 DEF TakeLeaf, Locals
      <4>4. CASE WalkNode
        BY <4>1, <4>4 DEF WalkNode, Locals
      <4>5. CASE WalkLeaf
        BY <4>1, <4>5 DEF WalkLeaf, Locals
      <4> QED  BY <2>3, <4>2, <4>3, <4>4, <4>5
    <3>4. OneKey
      BY <1>5, <3>2, <3>3 DEF OneKey
    <3>5. Searching /\ Exacting
      BY <1>1, <1>5, <2>1, <3>1, <3>2, <3>4 DEF Searching
    <3> QED  BY <2>3, <3>5, ExpandExact, TakeLeafExact, WalkNodeExact, WalkLeafExact
  <2>4. CASE UNCHANGED vars
    <3>1. UNCHANGED <<pc, id, ST, db, ins, sent, OD_del, OD_tree, EDB, srv, hist>>
      BY <2>4 DEF vars
    <3>2. Gone' = Gone /\ Done' = Done
      BY <3>1 DEF Gone, Done
    <3>3. Exacting
      BY <1>1, <1>5, <2>1, <3>1, <3>2 DEF OneKey
    <3> QED  BY <3>1, <3>2, <3>3 DEF Exacting, Walking
  <2>5. CASE Start \/ Exit \/ Kill \/ AddFind \/ AddInsert \/ AddSend \/ DelRead \/ DelCrash \/ DelEnd \/ SearchEnd
    BY <1>5, <2>5 DEF Start, Exit, Kill, Lose, AddFind, AddInsert, AddSend, DelRead, DelCrash, DelEnd, SearchEnd
  <2>6. CASE DelEntry \/ DelTree \/ \E i \in 1..MaxIds : DelFind(i)
    BY <1>5, <2>6 DEF DelEntry, DelTree, DelFind
  <2> QED  BY <2>2, <2>3, <2>4, <2>5, <2>6 DEF Next, Add, Del, Search
<1> QED  BY <1>2, <1>3, <1>4, <1>5 DEF FInv, Staying, Books, Tallied

\* and under it a search of at most two deletions finds exactly what is left: none
\* of what is left is missing by LInvLive, and every result is Rightful.
LEMMA FInvFew == FInv => FewDeletesHold
<1> SUFFICES ASSUME FInv, Answered, ~hist.mixed, ~hist.again, hist.kills = 0,
                    srv.cnt_d = Cardinality(hist.deleted), srv.cnt_d <= 2, OneKey
             PROVE  Found(srv.R) = Live(srv.cnt_i)
  BY DEF FewDeletesHold, OneKey
<1>1. LInv /\ Books
  BY DEF FInv, Books
<1>2. pc = "search" /\ srv.q = <<>> /\ ~Walking
  BY DEF Answered
<1>3. Done = hist.dels /\ hist.dels = srv.cnt_d /\ srv.cnt_d = STw.cnt_d
  BY <1>1, <1>2 DEF Done, Books, Accidents, Sessions
<1>4. Full
  BY <1>3 DEF Full
<1>5. Searching /\ Exacting
  BY <1>1, <1>2, <1>3, <1>4 DEF FInv, Staying, Tallied, Searching
<1>6. SameKey /\ Answering /\ srv.cnt_i = STw.cnt_i
  BY <1>5, SearchingIs
<1>7. Sane
  BY <1>1, <1>4, FullSane
<1>8. Live(srv.cnt_i) \subseteq Found(srv.R)
  <2>1. LiveReturned
    BY <1>1, LInvLive
  <2> QED  BY <1>6, <1>7, <2>1 DEF LiveReturned, Sane
<1>9. ASSUME NEW y \in Found(srv.R) PROVE y \in Live(srv.cnt_i)
  <2>1. PICK j \in DOMAIN srv.R : "id" \in DOMAIN srv.R[j] /\ y = srv.R[j].id /\ y # 0
    BY <1>9 DEF Found
  <2>2. j \in 1..Len(srv.R)
    BY <1>6 DEF Answering
  <2>3. Rightful(srv.R[j], srv.cnt_i, Gone, hist.docs)
    BY <1>5, <2>2 DEF Exacting
  <2>4. srv.R[j] \notin Links
    <3>1. \A x \in Links : "id" \notin DOMAIN x
      BY DEF Links
    <3> QED  BY <2>1, <3>1
  <2>5. srv.R[j] # Doc(0)
    BY <2>1 DEF Doc
  <2>6. PICK i \in (1..srv.cnt_i) \ Gone : srv.R[j] = Doc(hist.docs[i])
    BY <2>3, <2>4, <2>5 DEF Rightful
  <2>7. y = hist.docs[i]
    BY <2>1, <2>6 DEF Doc
  <2>8. OD_del[y] = i
    BY <1>1, <1>6, <2>6, <2>7 DEF LInv, Mapped
  <2>9. y \notin hist.deleted
    BY <1>2, <2>6, <2>8 DEF Gone
  <2>10. STw.cnt_i \in 0..Len(hist.docs) /\ hist.docs \in Seq(0..MaxIds)
    BY <1>1, Entries DEF LInv, EInv, DInv, STs, Behind
  <2> DEFINE s == SubSeq(hist.docs, 1, STw.cnt_i)
  <2>11. s \in Seq(0..MaxIds) /\ Len(s) = STw.cnt_i /\ \A m \in 1..STw.cnt_i : s[m] = hist.docs[m]
    <3> DEFINE c == STw.cnt_i
               d == hist.docs
    <3>1. c \in 0..Len(d) /\ d \in Seq(0..MaxIds)
      BY <2>10
    <3> HIDE DEF c, d
    <3>2. /\ SubSeq(d, 1, c) \in Seq(0..MaxIds) /\ Len(SubSeq(d, 1, c)) = c
          /\ \A m \in 1..c : SubSeq(d, 1, c)[m] = d[m]
      BY <3>1, Prefix
    <3> QED  BY <3>2 DEF c, d
  <2> HIDE DEF s
  <2>12. i \in DOMAIN s /\ s[i] = y
    BY <1>6, <2>6, <2>7, <2>11
  <2>13. y \in Docs(s)
    BY <2>12 DEF Docs
  <2> QED  BY <1>6, <2>9, <2>13 DEF Live, s
<1> QED  BY <1>8, <1>9

\* For a tree of any depth and any number of documents and keys: while nothing is
\* added after a deletion, no document is deleted twice, no process is killed and
\* no search has changed the key of the entries, the first two deletions of a
\* keyword take effect.  A search then finds every document that was added and
\* not deleted, and no other.
THEOREM FewDeletesTakeEffect == Spec => []FewDeletesHold
<1>1. Spec => []FInv
  BY InitFInv, NextFInv, PTL DEF Spec
<1> QED  BY <1>1, FInvFew, PTL

-----------------------------------------------------------------------------
\* The first numbers of the levels are those the offsets give.
LEMMA FirstOfIs == \A j \in 0..Depth : FirstOf[j] = 2 * N - Pow2[Depth + 1 - j] + 1
<1> DEFINE First(j) == 2 * N - Pow2[Depth + 1 - j] + 1
           Body(f) == [j \in 0..Depth |-> IF j = 0 THEN 1 ELSE f[j - 1] + Pow2[Depth - (j - 1)]]
           g == [j \in 0..Depth |-> First(j)]
<1>1. Depth \in Nat /\ N \in Nat /\ 2 * N = Pow2[Depth + 1]
  BY DepthAssumption, Size
<1>2. First(0) = 1
  BY <1>1
<1>3. ASSUME NEW j \in 0..Depth, j # 0
      PROVE  j - 1 \in 0..Depth /\ First(j) = First(j - 1) + Pow2[Depth - (j - 1)]
  <2>1. /\ j - 1 \in 0..Depth /\ Depth + 1 - j \in Nat /\ Depth - (j - 1) = Depth + 1 - j
        /\ Depth + 1 - (j - 1) = (Depth + 1 - j) + 1
    BY <1>1, <1>3
  <2>2. Pow2[Depth + 1 - (j - 1)] = 2 * Pow2[Depth + 1 - j] /\ Pow2[Depth + 1 - j] \in Nat
    BY <2>1, PowStep, PowAbove
  <2> QED  BY <1>1, <2>1, <2>2
<1> HIDE DEF First
<1>4. g = Body(g)
  BY <1>2, <1>3
<1>5. FirstOf = Body(FirstOf)
  <2> HIDE DEF g
  <2>1. \E f : f = [j \in 0..Depth |-> IF j = 0 THEN 1 ELSE f[j - 1] + Pow2[Depth - (j - 1)]]
    BY <1>4
  <2> QED  BY <2>1 DEF FirstOf
<1> HIDE DEF g
<1> DEFINE S == {j \in Nat : j <= Depth => FirstOf[j] = First(j)}
<1>6. 0 \in S
  BY <1>1, <1>2, <1>5
<1>7. ASSUME NEW j \in S PROVE j + 1 \in S
  <2> SUFFICES ASSUME j + 1 <= Depth PROVE FirstOf[j + 1] = First(j + 1)
    OBVIOUS
  <2>1. j \in Nat /\ j \in 0..Depth /\ j + 1 \in 0..Depth /\ j + 1 # 0 /\ (j + 1) - 1 = j
    BY <1>1
  <2>2. FirstOf[j + 1] = FirstOf[j] + Pow2[Depth - j]
    BY <1>5, <2>1
  <2>3. First(j + 1) = First(j) + Pow2[Depth - j]
    BY <1>3, <2>1
  <2> QED  BY <1>1, <2>1, <2>2, <2>3
<1> HIDE DEF S
<1>8. S = Nat
  <2>1. S \in SUBSET Nat
    BY DEF S
  <2> QED  BY <1>6, <1>7, <2>1, Induction
<1>9. \A j \in 0..Depth : FirstOf[j] = First(j)
  BY <1>1, <1>8 DEF S
<1> QED  BY <1>9 DEF First

\* A number belongs to one level.
LEMMA LevelOfIs ==
  ASSUME NEW j \in 0..Depth, NEW m \in 1..Pow2[Depth - j], NEW n,
         n = m + (2 * N - Pow2[Depth + 1 - j])
  PROVE  LevelOf(n) = j
<1> DEFINE In(k) == FirstOf[k] <= n /\ n < FirstOf[k] + Pow2[Depth - k]
<1>1. Depth \in Nat /\ N \in Nat /\ \A k \in 0..Depth : Depth + 1 - k \in Nat /\ Depth - k \in Nat
                                                     /\ Depth + 1 - k = (Depth - k) + 1
  BY DepthAssumption, Size
<1>2. \A k \in 0..Depth : /\ Pow2[Depth - k] \in Nat /\ Pow2[Depth + 1 - k] = 2 * Pow2[Depth - k]
                          /\ FirstOf[k] = 2 * N - Pow2[Depth + 1 - k] + 1
  BY <1>1, PowAbove, PowStep, FirstOfIs
<1>3. In(j) /\ n \in Int
  BY <1>1, <1>2
<1>4. ASSUME NEW k \in 0..Depth, In(k) PROVE k = j
  <2>1. CASE k < j
    <3>1. Depth + 1 - j <= Depth - k
      BY <1>1, <2>1
    <3>2. Pow2[Depth + 1 - j] <= Pow2[Depth - k]
      BY <1>1, <3>1, PowGrows
    <3>3. n < 2 * N - 2 * Pow2[Depth - k] + 1 + Pow2[Depth - k]
      BY <1>2, <1>4
    <3>4. n >= 2 * N - 2 * Pow2[Depth - j] + 1 /\ 2 * Pow2[Depth - j] <= Pow2[Depth - k]
      BY <1>2, <1>3, <3>2
    <3> QED  BY <1>1, <1>2, <1>3, <3>3, <3>4
  <2>2. CASE j < k
    <3>1. Depth + 1 - k <= Depth - j
      BY <1>1, <2>2
    <3>2. Pow2[Depth + 1 - k] <= Pow2[Depth - j]
      BY <1>1, <3>1, PowGrows
    <3>3. n < 2 * N - 2 * Pow2[Depth - j] + 1 + Pow2[Depth - j]
      BY <1>2, <1>3
    <3>4. n >= 2 * N - 2 * Pow2[Depth - k] + 1 /\ 2 * Pow2[Depth - k] <= Pow2[Depth - j]
      BY <1>2, <1>4, <3>2
    <3> QED  BY <1>1, <1>2, <1>3, <3>3, <3>4
  <2> QED  BY <1>1, <2>1, <2>2
<1>5. LevelOf(n) = CHOOSE k \in 0..Depth : In(k)
  BY DEF LevelOf
<1> HIDE DEF In
<1> QED  BY <1>3, <1>4, <1>5

\* A node above the leaves is the one of its level above the first leaf under it.
LEMMA InnerIsAbove ==
  ASSUME NEW n \in TreeNodes, n \notin Leaves
  PROVE  n \in Nodes /\ \E i \in 1..N : \E j \in 0..(Depth - 1) : i = lln(n) /\ n = NodeAt(i, j + 1)
<1>1. n \in Nodes /\ N \in Nat /\ Depth \in Nat
  BY Size, DepthAssumption DEF TreeNodes, Nodes
<1>2. lln(n) \in 1..N /\ rln(n) \in 1..N /\ lln(n) <= rln(n)
  BY <1>1, Path
<1>3. PICK k \in 0..Depth : \A i \in 1..N : Under(i, n) => n = NodeAt(i, k)
  BY <1>1, Path
<1>4. n = NodeAt(lln(n), k)
  BY <1>2, <1>3 DEF Under
<1>5. k # 0
  BY <1>2, <1>4, LeafLevel DEF Leaves
<1>6. k - 1 \in 0..(Depth - 1) /\ (k - 1) + 1 = k
  BY <1>1, <1>5
<1> QED  BY <1>1, <1>2, <1>4, <1>6

\* The children of an ancestor are the one before it on the way and its sibling.
LEMMA ChildrenAre ==
  ASSUME NEW i \in 1..N, NEW j \in 0..(Depth - 1)
  PROVE  Children(NodeAt(i, j + 1)) = {LeftOf(NodeAt(i, j)), RightOf(NodeAt(i, j))}
<1> DEFINE p == CeilDiv(i, Pow2[j + 1])
           y == NodeAt(i, j + 1)
<1>1. /\ j \in Nat /\ j \in 0..Depth /\ j + 1 \in 0..Depth /\ Depth + 1 - (j + 1) = Depth - j
      /\ (j + 1) - 1 = j /\ Depth - j \in Nat /\ Depth + 1 - j \in Nat /\ Depth - (j + 1) \in Nat
      /\ N \in Nat
  BY DepthAssumption, Size
<1>2. p \in 1..Pow2[Depth - (j + 1)] /\ y = p + (2 * N - Pow2[Depth + 1 - (j + 1)])
  BY <1>1, NumberOf
<1>3. LevelOf(y) = j + 1
  BY <1>1, <1>2, LevelOfIs
<1>4. /\ FirstOf[j + 1] = 2 * N - Pow2[Depth + 1 - (j + 1)] + 1
      /\ FirstOf[j] = 2 * N - Pow2[Depth + 1 - j] + 1
  BY <1>1, FirstOfIs
<1>5. /\ LeftOf(NodeAt(i, j)) = (2 * p - 1) + (2 * N - Pow2[Depth + 1 - j])
      /\ RightOf(NodeAt(i, j)) = 2 * p + (2 * N - Pow2[Depth + 1 - j])
  <2>1. \A x, z : x = NodeAt(i, j) /\ z = NodeAt(i, j + 1) =>
          /\ LeftOf(x) = (2 * CeilDiv(i, Pow2[j + 1]) - 1) + (2 * N - Pow2[Depth + 1 - j])
          /\ RightOf(x) = 2 * CeilDiv(i, Pow2[j + 1]) + (2 * N - Pow2[Depth + 1 - j])
    BY Kids
  <2> QED  BY <2>1
<1>6. /\ Pow2[Depth + 1 - j] \in Nat /\ Pow2[Depth - j] \in Nat /\ Pow2[Depth - (j + 1)] \in Nat
  BY <1>1, PowAbove
<1>7. p \in Int /\ y - FirstOf[j + 1] + 1 = p
  BY <1>1, <1>2, <1>4, <1>6
<1>8. Children(y) = {FirstOf[j] + 2 * p - 2, FirstOf[j] + 2 * p - 1}
  BY <1>1, <1>3, <1>7 DEF Children
<1> HIDE DEF p, y
<1>9. /\ FirstOf[j] + 2 * p - 2 = (2 * p - 1) + (2 * N - Pow2[Depth + 1 - j])
      /\ FirstOf[j] + 2 * p - 1 = 2 * p + (2 * N - Pow2[Depth + 1 - j])
  BY <1>1, <1>4, <1>6, <1>7
<1> QED  BY <1>5, <1>8, <1>9 DEF y

\* The children of a node are nodes with smaller numbers, and halve its leaves.
LEMMA Halves ==
  ASSUME NEW n \in TreeNodes, n \notin Leaves
  PROVE  /\ \A c \in Children(n) : c \in TreeNodes /\ c < n
         /\ UNION {lln(c)..rln(c) : c \in Children(n)} = lln(n)..rln(n)
<1>1. PICK i \in 1..N, j \in 0..(Depth - 1) : n = NodeAt(i, j + 1)
  BY InnerIsAbove
<1> DEFINE a == LeftOf(NodeAt(i, j))
           b == RightOf(NodeAt(i, j))
<1>2. Children(n) = {a, b}
  BY <1>1, ChildrenAre
<1>3. /\ a \in Nodes /\ b \in Nodes
      /\ lln(a) = lln(n) /\ rln(b) = rln(n) /\ lln(b) = rln(a) + 1
  BY <1>1, Kids
<1>4. a \in 1..(n - 1) /\ b \in 1..(n - 1)
  BY <1>1, ChildrenBelow
<1>5. n \in Int
  BY Size DEF TreeNodes
<1>6. /\ lln(a) \in Int /\ rln(a) \in Int /\ lln(b) \in Int /\ rln(b) \in Int
      /\ lln(a) <= rln(a) /\ lln(b) <= rln(b)
  BY <1>3, Path, Size
<1> HIDE DEF a, b
<1>7. \A c \in {a, b} : c \in TreeNodes /\ c < n
  BY <1>3, <1>4, <1>5 DEF TreeNodes, Nodes
<1>8. UNION {lln(c)..rln(c) : c \in {a, b}} = (lln(a)..rln(a)) \cup (lln(b)..rln(b))
  OBVIOUS
<1>9. (lln(a)..rln(a)) \cup (lln(b)..rln(b)) = lln(a)..rln(b)
  BY <1>3, <1>6
<1> QED  BY <1>2, <1>3, <1>7, <1>8, <1>9

\* The leaves under a node, found along the links, are the range of its numbers.
LEMMA LeavesUnderAre == \A n \in TreeNodes : LeavesUnder[n] = lln(n)..rln(n)
<1> DEFINE g == [n \in TreeNodes |-> lln(n)..rln(n)]
<1>1. \A n \in TreeNodes : n \in Leaves => lln(n)..rln(n) = {n}
  BY LeafSpan, Size DEF Leaves
<1>2. g = [n \in TreeNodes |-> IF n \in Leaves THEN {n} ELSE UNION {g[c] : c \in Children(n)}]
  <2>1. ASSUME NEW n \in TreeNodes
        PROVE  g[n] = IF n \in Leaves THEN {n} ELSE UNION {g[c] : c \in Children(n)}
    <3>1. CASE n \in Leaves
      BY <1>1, <3>1
    <3>2. CASE n \notin Leaves
      <4>1. \A c \in Children(n) : g[c] = lln(c)..rln(c)
        BY <3>2, Halves
      <4>2. {g[c] : c \in Children(n)} = {lln(c)..rln(c) : c \in Children(n)}
        BY <4>1
      <4> QED  BY <3>2, <4>2, Halves
    <3> QED  BY <3>1, <3>2
  <2> QED  BY <2>1
<1>3. \A n \in TreeNodes :
        LeavesUnder[n] = IF n \in Leaves THEN {n} ELSE UNION {LeavesUnder[c] : c \in Children(n)}
  <2> HIDE DEF g
  <2>1. \E f : f = [n \in TreeNodes |-> IF n \in Leaves THEN {n} ELSE UNION {f[c] : c \in Children(n)}]
    BY <1>2
  <2>2. LeavesUnder =
          [n \in TreeNodes |-> IF n \in Leaves THEN {n} ELSE UNION {LeavesUnder[c] : c \in Children(n)}]
    BY <2>1 DEF LeavesUnder
  <2> QED  BY <2>2
<1> HIDE DEF g
<1> DEFINE Bad == {n \in TreeNodes : LeavesUnder[n] # lln(n)..rln(n)}
<1>4. ASSUME NEW x \in Bad PROVE FALSE
  <2>1. Bad \in SUBSET Nat
    BY Size DEF TreeNodes
  <2>2. PICK n \in Bad : \A k \in Bad : n <= k
    <3> HIDE DEF Bad
    <3> QED  BY <1>4, <2>1, LeastElement
  <2>3. n \in TreeNodes /\ LeavesUnder[n] # lln(n)..rln(n) /\ n \in Nat
    BY <2>1
  <2>4. n \notin Leaves
    BY <1>1, <1>3, <2>3
  <2>5. ASSUME NEW c \in Children(n) PROVE LeavesUnder[c] = lln(c)..rln(c)
    <3>1. c \in TreeNodes /\ c < n
      BY <2>3, <2>4, Halves
    <3>2. c \notin Bad
      <4>1. c \in Int /\ n \in Int
        BY <3>1, Size DEF TreeNodes
      <4>2. c \in Bad => n <= c
        <5> HIDE DEF Bad
        <5> QED  BY <2>2
      <4> HIDE DEF Bad
      <4> QED  BY <3>1, <4>1, <4>2
    <3> QED  BY <3>1, <3>2
  <2>6. {LeavesUnder[c] : c \in Children(n)} = {lln(c)..rln(c) : c \in Children(n)}
    BY <2>5
  <2> QED  BY <1>3, <2>3, <2>4, <2>6, Halves
<1> QED  BY <1>4

\* The range of leaves the server walks for a node is the set of the leaves under
\* it, and these are the leaves whose deletion updates it, for a tree of any depth.
THEOREM RangesAreSubtrees ==
  (\A n \in TreeNodes : SubtreeRange(n)) /\ (Spec => []RangeIsSubtree)
<1>1. \A n \in TreeNodes : SubtreeRange(n)
  <2> SUFFICES ASSUME NEW n \in TreeNodes
               PROVE  /\ lln(n)..rln(n) = LeavesUnder[n]
                      /\ n \notin Leaves => \A leaf \in Leaves :
                           leaf \in LeavesUnder[n] <=> \E d \in 1..Depth : InternalNodes(leaf)[d] = n
    BY DEF SubtreeRange
  <2>1. LeavesUnder[n] = lln(n)..rln(n) /\ n \in Nodes /\ Depth \in Nat /\ N \in Nat
    BY LeavesUnderAre, DepthAssumption, Size DEF TreeNodes, Nodes
  <2>2. lln(n) \in Int /\ rln(n) \in Int
    BY <2>1, Path
  <2>3. ASSUME n \notin Leaves, NEW leaf \in Leaves, leaf \in LeavesUnder[n]
        PROVE  \E d \in 1..Depth : InternalNodes(leaf)[d] = n
    <3>1. leaf \in 1..N /\ Under(leaf, n)
      BY <2>1, <2>2, <2>3 DEF Leaves, Under
    <3>2. PICK j \in 0..Depth : n = NodeAt(leaf, j)
      BY <2>1, <3>1, Path
    <3>3. j # 0
      BY <2>3, <3>1, <3>2, LeafLevel
    <3>4. Depth + 1 - j \in 1..Depth /\ Depth + 1 - (Depth + 1 - j) = j
      BY <2>1, <3>3
    <3> QED  BY <3>2, <3>4 DEF InternalNodes
  <2>4. ASSUME NEW leaf \in Leaves, NEW d \in 1..Depth, InternalNodes(leaf)[d] = n
        PROVE  leaf \in LeavesUnder[n]
    <3>1. leaf \in 1..N /\ Depth + 1 - d \in 0..Depth /\ n = NodeAt(leaf, Depth + 1 - d)
      BY <2>1, <2>4 DEF InternalNodes, Leaves
    <3>2. Under(leaf, n)
      BY <3>1, OnPath
    <3> QED  BY <2>1, <2>2, <3>1, <3>2 DEF Under
  <2> QED  BY <2>1, <2>3, <2>4
<1>2. RangeIsSubtree
  BY <1>1 DEF RangeIsSubtree
<1> QED  BY <1>1, <1>2, PTL

\* A search starts from the lowest node that has every update under it, for any
\* number of updates and a tree of any depth.
THEOREM SearchesStartLowest ==
  (\A leaf \in Leaves : LowestStart(leaf)) /\ (Spec => []SnIsLowest)
<1>1. \A leaf \in Leaves : LowestStart(leaf)
  <2> SUFFICES ASSUME NEW leaf \in Leaves
               PROVE  LET Above == {n \in TreeNodes : 1..leaf \subseteq LeavesUnder[n]}
                      IN  /\ getSn(leaf) \in Above
                          /\ \A n \in Above : LeavesUnder[getSn(leaf)] \subseteq LeavesUnder[n]
    BY DEF LowestStart
  <2> DEFINE s == getSn(leaf)
             J == CeilLog2(leaf)
  <2>1. /\ leaf \in 1..N /\ leaf \in Nat /\ leaf >= 1 /\ N \in Nat /\ Depth \in Nat /\ 1 \in 1..N
    BY Size, DepthAssumption DEF Leaves
  <2>2. /\ J \in 0..Depth /\ (J # 0 => Pow2[J - 1] < leaf)
        /\ s = 1 + (2 * N - Pow2[Depth + 1 - J]) /\ s \in TreeNodes
    BY <2>1, SnIs DEF TreeNodes
  <2>3. lln(s) = 1 /\ rln(s) \in Nat /\ rln(s) >= leaf
    BY <2>1, SnCovers
  <2>4. LeavesUnder[s] = 1..rln(s)
    BY <2>2, <2>3, LeavesUnderAre
  <2>5. 1..leaf \subseteq LeavesUnder[s]
    BY <2>1, <2>3, <2>4
  <2>6. ASSUME NEW n \in TreeNodes, 1..leaf \subseteq LeavesUnder[n]
        PROVE  LeavesUnder[s] \subseteq LeavesUnder[n]
    <3>1. n \in Nodes /\ s \in Nodes /\ LeavesUnder[n] = lln(n)..rln(n)
      BY <2>2, LeavesUnderAre DEF TreeNodes, Nodes
    <3>2. lln(n) \in 1..N /\ rln(n) \in 1..N
      BY <3>1, Path
    <3>3. lln(n) = 1 /\ leaf <= rln(n)
      <4>1. 1 \in lln(n)..rln(n) /\ leaf \in lln(n)..rln(n)
        BY <2>1, <2>6, <3>1
      <4> QED  BY <2>1, <3>2, <4>1
    <3>4. Under(1, n)
      BY <2>1, <3>2, <3>3 DEF Under
    <3>5. PICK k \in 0..Depth : n = NodeAt(1, k)
      BY <2>1, <3>1, <3>4, Path
    <3>6. rln(n) = Pow2[k] /\ Pow2[k] \in Nat
      <4>1. k \in Nat /\ Pow2[k] \in Nat \ {0}
        BY PowAbove
      <4>2. CeilDiv(1, Pow2[k]) = 1
        <5>1. 1 <= Pow2[k] * 1
          BY <4>1
        <5>2. CeilDiv(1, Pow2[k]) \in Nat \ {0} /\ CeilDiv(1, Pow2[k]) <= 1
          BY <4>1, <5>1, Ceil
        <5> QED  BY <5>2
      <4>3. rln(NodeAt(1, k)) = CeilDiv(1, Pow2[k]) * Pow2[k]
        BY <2>1, NumberOf
      <4> QED  BY <3>5, <4>1, <4>2, <4>3
    <3>7. J <= k
      <4>1. CASE k < J
        <5>1. J # 0 /\ J - 1 \in Nat /\ k \in Nat /\ k <= J - 1
          BY <2>2, <4>1
        <5>2. Pow2[k] <= Pow2[J - 1] /\ Pow2[J - 1] \in Nat
          BY <5>1, PowGrows, PowAbove
        <5> QED  BY <2>1, <2>2, <3>3, <3>6, <5>1, <5>2
      <4> QED  BY <2>2, <4>1
    <3>8. rln(s) = Pow2[J]
      <4>1. 1 \in 1..Pow2[Depth - J] /\ Pow2[J] \in Nat
        <5>1. Depth - J \in Nat /\ J \in Nat
          BY <2>1, <2>2
        <5>2. Pow2[Depth - J] \in Nat /\ Pow2[Depth - J] >= 1 /\ Pow2[J] \in Nat
          BY <5>1, PowAbove
        <5> QED  BY <5>2
      <4>2. rln(s) = 1 * Pow2[J]
        BY <2>2, <4>1, RangeOf
      <4> QED  BY <4>1, <4>2
    <3>9. rln(s) <= rln(n)
      <4>1. J \in Nat /\ k \in Nat
        BY <2>2
      <4>2. Pow2[J] <= Pow2[k]
        BY <3>7, <4>1, PowGrows
      <4> QED  BY <3>6, <3>8, <4>2
    <3> QED  BY <2>3, <2>4, <3>1, <3>2, <3>3, <3>9
  <2> QED  BY <2>2, <2>5, <2>6
<1>2. SnIsLowest
  BY <1>1 DEF SnIsLowest
<1> QED  BY <1>1, <1>2, PTL

\* The children the client gives a fresh ancestor of a leaf are its children, the
\* left one first, for a tree of any depth.
THEOREM AncestorsGetTheirChildren ==
  /\ \A leaf \in Leaves, d \in 1..Depth : OwnChildren(leaf, d)
  /\ Spec => []FreshChildren
<1>1. \A leaf \in Leaves, d \in 1..Depth : OwnChildren(leaf, d)
  <2> SUFFICES ASSUME NEW leaf \in Leaves, NEW d \in 1..Depth
               PROVE  LET n == InternalNodes(leaf)
                          c == IF d = Depth THEN leaf ELSE n[d + 1]
                      IN  Children(n[d]) = {LeftOf(c), RightOf(c)} /\ LeftOf(c) < RightOf(c)
    BY DEF OwnChildren
  <2>1. /\ leaf \in 1..N /\ Depth \in Nat /\ Depth - d \in 0..(Depth - 1)
        /\ Depth + 1 - d = (Depth - d) + 1
    BY DepthAssumption DEF Leaves
  <2> DEFINE c == IF d = Depth THEN leaf ELSE InternalNodes(leaf)[d + 1]
  <2>2. InternalNodes(leaf)[d] = NodeAt(leaf, (Depth - d) + 1)
    BY <2>1 DEF InternalNodes
  <2>3. c = NodeAt(leaf, Depth - d)
    <3>1. CASE d = Depth
      BY <2>1, <3>1, LeafLevel
    <3>2. CASE d # Depth
      <4>1. d + 1 \in 1..Depth /\ Depth + 1 - (d + 1) = Depth - d
        BY <2>1, <3>2
      <4> QED  BY <3>2, <4>1 DEF InternalNodes
    <3> QED  BY <3>1, <3>2
  <2> HIDE DEF c
  <2>4. Children(InternalNodes(leaf)[d]) = {LeftOf(c), RightOf(c)}
    BY <2>1, <2>2, <2>3, ChildrenAre
  <2>5. c \in Nat
    <3>1. Depth - d \in 0..Depth
      BY <2>1
    <3> QED  BY <2>1, <2>3, <3>1, InLevel
  <2>6. LeftOf(c) < RightOf(c)
    BY <2>5 DEF LeftOf, RightOf
  <2> QED  BY <2>4, <2>6 DEF c
<1>2. FreshChildren
  BY <1>1 DEF FreshChildren
<1> QED  BY <1>1, <1>2, PTL

=============================================================================
