----------------------------- MODULE Rose2Tree -----------------------------
(***************************************************************************)
(* The node numbering of Rose^2 (src/ROSE-2): a complete binary tree whose *)
(* leaves 1..N are the updates of one keyword in order, level 1 follows    *)
(* from N + 1 on, and the root is 2N - 1.  The client computes the numbers *)
(* from a leaf, the server computes levels and leaves back from a number,  *)
(* both in floating point; for the N of the code every result is exact.    *)
(***************************************************************************)
EXTENDS Integers, Sequences

CONSTANT Depth   \* log2(N); 14 in the code
ASSUME DepthAssumption == Depth \in Nat \ {0}

\* pow(2, n)
Pow2[n \in Nat] == IF n = 0 THEN 1 ELSE 2 * Pow2[n - 1]

N == Pow2[Depth]

CeilDiv(a, b) == (a + b - 1) \div b

\* ceil(log2(c))
CeilLog2(c) == CHOOSE j \in 0..c : Pow2[j] >= c /\ (j = 0 \/ Pow2[j - 1] < c)

\* N / 2^(j-1) * (2^j - 1): the nodes below level j
Offset(j) == IF j = 0 THEN 0 ELSE (N * (Pow2[j] - 1)) \div Pow2[j - 1]

\* The node of level j above leaf i.
NodeAt(i, j) == CeilDiv(i, Pow2[j]) + Offset(j)

\* Mutation: the level is rounded down.
getSnFloor(cnt_i) ==
  LET j == CHOOSE j \in 0..cnt_i : Pow2[j] <= cnt_i /\ cnt_i < Pow2[j + 1] IN NodeAt(cnt_i, j)

\* getSn_Rose_2: the node a search of cnt_i updates starts from.
getSn(cnt_i) == NodeAt(cnt_i, CeilLog2(cnt_i))

\* Mutation: the levels are counted from one above the root.
InternalNodesHigh(cnt_i) == [d \in 1..Depth |-> NodeAt(cnt_i, Depth + 2 - d)]

\* get_internal_nodes_Rose_2: the ancestors of a leaf, from the root down.
InternalNodes(cnt_i) == [d \in 1..Depth |-> NodeAt(cnt_i, Depth + 1 - d)]

\* Mutation: a right child is taken for a left one.
RightOfNext(n) == n + 1

\* A node and its sibling, the left one first.
LeftOf(n)  == IF n % 2 = 0 THEN n - 1 ELSE n
RightOf(n) == IF n % 2 = 0 THEN n ELSE n + 1

\* Mutation: strictly below the level.
get_hStrict(n) == CHOOSE h \in 0..(Depth + 2) :
                    Pow2[h] * (2 * N - n) > 2 * N /\ (h = 0 \/ Pow2[h - 1] * (2 * N - n) <= 2 * N)

\* get_h: ceil(1 + log2(N) - log2(2N - n)), one more than the level of n.
get_h(n) == CHOOSE h \in 0..(Depth + 1) :
              Pow2[h] * (2 * N - n) >= 2 * N /\ (h = 0 \/ Pow2[h - 1] * (2 * N - n) < 2 * N)

\* The first and the last leaf under n.
lln(n) == 2 * N + Pow2[get_h(n) - 1] * (n - 1) - Pow2[get_h(n)] * N + 1
rln(n) == lln(n) + Pow2[get_h(n) - 1] - 1
=============================================================================
