---------------------------- MODULE Rose2Numbers ----------------------------
(***************************************************************************)
(* What the numbering of Rose2Tree promises: it is that of one binary tree *)
(* built from its links, where the nodes of a level are numbered from left *)
(* to right, after those of the level below.                               *)
(***************************************************************************)
EXTENDS Rose2

Leaves == 1..N
TreeNodes == 1..(2 * N - 1)

\* The reference: node n of level j + 1 has nodes 2m - 1 and 2m of level j
\* below it, where m is its rank in its level.
FirstOf[j \in 0..Depth] == IF j = 0 THEN 1 ELSE FirstOf[j - 1] + Pow2[Depth - (j - 1)]
LevelOf(n) == CHOOSE j \in 0..Depth : FirstOf[j] <= n /\ n < FirstOf[j] + Pow2[Depth - j]
Children(n) == LET j == LevelOf(n)
                   m == n - FirstOf[j] + 1
               IN  {FirstOf[j - 1] + 2 * m - 2, FirstOf[j - 1] + 2 * m - 1}
LeavesUnder[n \in TreeNodes] ==
  IF n \in Leaves THEN {n} ELSE UNION {LeavesUnder[c] : c \in Children(n)}

\* The range the server walks for a node is the set of leaves under it, which
\* are the leaves whose deletion updates it at the client.
SubtreeRange(n) ==
  /\ lln(n)..rln(n) = LeavesUnder[n]
  /\ n \notin Leaves => \A leaf \in Leaves :
       leaf \in LeavesUnder[n] <=> \E d \in 1..Depth : InternalNodes(leaf)[d] = n

\* Of the nodes with every update under them the search starts from the lowest.
LowestStart(leaf) ==
  LET Over == {n \in TreeNodes : 1..leaf \subseteq LeavesUnder[n]}
  IN  /\ getSn(leaf) \in Over
      /\ \A n \in Over : LeavesUnder[getSn(leaf)] \subseteq LeavesUnder[n]

\* The children the client gives a fresh ancestor are its children.
OwnChildren(leaf, d) ==
  LET n == InternalNodes(leaf)
      c == IF d = Depth THEN leaf ELSE n[d + 1]
  IN  Children(n[d]) = {LeftOf(c), RightOf(c)} /\ LeftOf(c) < RightOf(c)

\* The numbers do not depend on the state: TLC looks at them once, while the
\* index is empty.
Before == EDB = <<>> /\ pc = "off"

\* Every node's range is its subtree.
RangeIsSubtree == Before => \A n \in TreeNodes : SubtreeRange(n)
\* Every number of updates has its lowest node for a start.
SnIsLowest == Before => \A leaf \in Leaves : LowestStart(leaf)
\* Every ancestor of every leaf gets its own children.
FreshChildren == Before => \A leaf \in Leaves, d \in 1..Depth : OwnChildren(leaf, d)
=============================================================================
