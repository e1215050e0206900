----------------------------- MODULE OMAPProofs -----------------------------
(***************************************************************************)
(* Proofs about the oblivious map, for every geometry, every set of keys   *)
(* and every content.                                                      *)
(*  1. The types, and that no step of an operation drops a block, whatever *)
(*     paths it fetches, moves and writes back (IInv).                     *)
(*  2. The shape of a search tree that is rotated: span says which keys    *)
(*     belong at or below a node, and IsTree that links and spans agree.   *)
(*  3. What the operators of PathORAM and OMAP keep of the nodes (Keeps),  *)
(*     and which copy of a node is the newest (Apart, NewestIs).           *)
(*  4. The way an insert goes down and comes back (Chain).                 *)
(*  5. The refinement: every step is a step of PlainMap or none (MInv).    *)
(***************************************************************************)
EXTENDS OMAP, FiniteSetTheorems, SequenceTheorems, TLAPS

StoreOK == DOMAIN store = Buckets /\ \A b \in Buckets : Blocks(store[b])

\* Every bucket read so far has its blocks in the cache; none was written yet.
Held(m) == /\ m.writeview = {}
           /\ \A b \in m.readview : DOMAIN store[b] \subseteq DOMAIN m.cache

\* What the operators on the ORAM keep: its types, Held, and that a path to be
\* written back was read.
Good(m) == IsORAM(m) /\ Held(m) /\ Paths(m.leafList) \subseteq m.readview

\* From m to n the cache only gains blocks.
Grown(m, n) == Good(n) /\ DOMAIN m.cache \subseteq DOMAIN n.cache

USE DEF Side, NoPos

LEMMA PathsInBuckets ==
  ASSUME NEW S \in SUBSET Leaves
  PROVE  Paths(S) \subseteq Buckets
BY DEF Paths, Buckets

LEMMA PathsOfTwo ==
  ASSUME NEW S, NEW T
  PROVE  Paths(S \cup T) = Paths(S) \cup Paths(T)
BY DEF Paths

\* FetchPaths reads blocks into the cache and changes nothing else.
LEMMA FetchPathsIsGood ==
  ASSUME NEW m, IsORAM(m), Held(m), StoreOK, NEW S \in SUBSET Leaves
  PROVE  LET n == FetchPaths(m, S)
         IN  /\ IsORAM(n) /\ Held(n)
             /\ n.readview = m.readview \cup Paths(S)
             /\ n.leafList = m.leafList /\ n.modified = m.modified
             /\ DOMAIN m.cache \subseteq DOMAIN n.cache
             /\ \A k \in DOMAIN m.cache : n.cache[k] = m.cache[k]
<1> DEFINE n == FetchPaths(m, S)
           new == Paths(S) \ m.readview
           found == UNION {DOMAIN store[b] : b \in new}
           Home(k) == CHOOSE b \in new : k \in DOMAIN store[b]
           C == [k \in DOMAIN m.cache \cup found |->
                   IF k \in DOMAIN m.cache THEN m.cache[k] ELSE store[Home(k)][k]]
<1>1. n = [m EXCEPT !.readview = @ \cup new, !.cache = C]
  BY DEF FetchPaths
<1>2. new \subseteq Buckets
  BY PathsInBuckets
<1>3. \A k \in found : Home(k) \in new /\ k \in DOMAIN store[Home(k)]
  OBVIOUS
<1>4. \A b \in new : Blocks(store[b])
  BY <1>2 DEF StoreOK
<1>5. \A k \in found : k \in Key /\ store[Home(k)][k] \in Nodes
  BY <1>3, <1>4 DEF Blocks
<1>6. Blocks(m.cache)
  BY DEF IsORAM
<1>7. Blocks(C)
  BY <1>5, <1>6 DEF Blocks
<1>8. /\ n.readview = m.readview \cup new /\ n.cache = C
      /\ n.leafList = m.leafList /\ n.modified = m.modified /\ n.writeview = m.writeview
      /\ n.lost = m.lost /\ n.readCnt = m.readCnt
      /\ n \in [cache : {C}, leafList : SUBSET Leaves, readview : SUBSET Buckets,
                writeview : SUBSET Buckets, modified : SUBSET Key, readCnt : Nat, lost : BOOLEAN]
  BY Zenon, <1>1, <1>2 DEF IsORAM
<1>9. IsORAM(n)
  BY <1>7, <1>8 DEF IsORAM
<1>10. Held(n)
  BY <1>8 DEF Held
<1> QED
  BY <1>8, <1>9, <1>10

\* The same of one path, with its count.
LEMMA FetchPathIsGood ==
  ASSUME NEW m, Good(m), StoreOK, NEW leaf \in Leaves
  PROVE  LET n == FetchPath(m, leaf)
         IN  /\ Grown(m, n)
             /\ Path(leaf) \subseteq n.readview
             /\ n.leafList = m.leafList
             /\ \A k \in DOMAIN m.cache : n.cache[k] = m.cache[k]
<1> DEFINE f == FetchPaths(m, {leaf})
           n == FetchPath(m, leaf)
<1>1. /\ IsORAM(f) /\ Held(f)
      /\ f.readview = m.readview \cup Paths({leaf})
      /\ f.leafList = m.leafList
      /\ DOMAIN m.cache \subseteq DOMAIN f.cache
      /\ \A k \in DOMAIN m.cache : f.cache[k] = m.cache[k]
  BY FetchPathsIsGood DEF Good
<1>2. Paths({leaf}) = Path(leaf)
  BY DEF Paths
<1>3. n = [f EXCEPT !.readCnt = @ + 1]
  BY DEF FetchPath
<1> HIDE DEF f, n
<1>a. f \in [cache : {f.cache}, leafList : SUBSET Leaves, readview : SUBSET Buckets,
             writeview : SUBSET Buckets, modified : SUBSET Key, readCnt : Nat, lost : BOOLEAN]
  BY <1>1 DEF IsORAM
<1>4. /\ n.cache = f.cache /\ n.readview = f.readview /\ n.leafList = f.leafList
      /\ n.writeview = f.writeview
      /\ n \in [cache : {f.cache}, leafList : SUBSET Leaves, readview : SUBSET Buckets,
                writeview : SUBSET Buckets, modified : SUBSET Key, readCnt : Nat, lost : BOOLEAN]
  BY <1>a, <1>3
<1>5. IsORAM(n) /\ Held(n)
  BY Zenon, <1>1, <1>4 DEF IsORAM, Held
<1>6. Good(n)
  BY <1>1, <1>4, <1>5 DEF Good
<1> QED
  BY <1>1, <1>2, <1>4, <1>6 DEF Grown, n

\* The fields other than the cache.
Record(C) == [cache : {C}, leafList : SUBSET Leaves, readview : SUBSET Buckets,
              writeview : SUBSET Buckets, modified : SUBSET Key, readCnt : Nat, lost : BOOLEAN]

\* A change of the cache that keeps its blocks, of paths that were read.
LEMMA ChangeIsGood ==
  ASSUME NEW m, Good(m), NEW n, n \in Record(n.cache), Blocks(n.cache),
         DOMAIN m.cache \subseteq DOMAIN n.cache,
         Paths(n.leafList) \subseteq m.readview,
         n.readview = m.readview, n.writeview = m.writeview
  PROVE  Grown(m, n)
<1>1. IsORAM(n)
  BY DEF IsORAM, Record
<1>2. Held(n)
  BY DEF Held, Good
<1> QED
  BY <1>1, <1>2 DEF Good, Grown

LEMMA GoodFields ==
  ASSUME NEW m, Good(m)
  PROVE  /\ m \in Record(m.cache) /\ Blocks(m.cache)
         /\ Paths(m.leafList) \subseteq m.readview
BY DEF Good, IsORAM, Record

\* A node changed in place is still a node.
LEMMA BlocksChange ==
  ASSUME NEW f, Blocks(f), NEW k \in DOMAIN f, NEW node \in Nodes
  PROVE  Blocks([f EXCEPT ![k] = node]) /\ DOMAIN [f EXCEPT ![k] = node] = DOMAIN f
BY DEF Blocks

LEMMA NodeFields ==
  ASSUME NEW n \in Nodes
  PROVE  /\ n \in [value : Value, pos : Leaves, height : Nat,
                   kid : [Side -> NodeKey], kidPos : [Side -> Leaves \cup {NoPos}]]
         /\ \A s \in Side : n.kid[s] \in NodeKey /\ Placing(n.kid[s], n.kidPos[s])
BY DEF Nodes

LEMMA NodeAt ==
  ASSUME NEW m, Good(m), NEW k \in DOMAIN m.cache
  PROVE  k \in Key /\ m.cache[k] \in Nodes
BY DEF Good, IsORAM, Blocks

\* ReadNode finds the node, or loses it.
LEMMA ReadNodeIsGood ==
  ASSUME NEW m, Good(m), StoreOK, NEW k \in NodeKey, NEW pos, Placing(k, pos)
  PROVE  LET n == ReadNode(m, k, pos)
         IN  Grown(m, n) /\ (k \in DOMAIN n.cache \/ k = 0 \/ n.lost)
<1> DEFINE f == IF k \in DOMAIN m.cache /\ pos \in m.leafList THEN m ELSE FetchPath(m, pos)
           n == ReadNode(m, k, pos)
<1>1. CASE k = 0
  BY <1>1 DEF ReadNode, Grown
<1>2. CASE k # 0
  <2>1. pos \in Leaves /\ k \in Key
    BY <1>2 DEF Placing, NodeKey
  <2>2. Grown(m, f) /\ Path(pos) \subseteq f.readview
    <3>1. CASE k \in DOMAIN m.cache /\ pos \in m.leafList
      <4>1. Path(pos) \subseteq m.readview
        BY <3>1 DEF Good, Paths
      <4> QED
        BY <3>1, <4>1 DEF Grown
    <3>2. CASE ~(k \in DOMAIN m.cache /\ pos \in m.leafList)
      BY <3>2, <2>1, FetchPathIsGood
    <3> QED
      BY <3>1, <3>2
  <2>3. n = IF k \notin DOMAIN f.cache THEN [f EXCEPT !.lost = TRUE]
            ELSE [f EXCEPT !.cache[k].pos = pos,
                           !.leafList = @ \cup {pos}, !.modified = @ \cup {k}]
    BY <1>2 DEF ReadNode
  <2> HIDE DEF f, n
  <2>4. Good(f) /\ DOMAIN m.cache \subseteq DOMAIN f.cache
    BY <2>2 DEF Grown
  <2>5. f \in Record(f.cache) /\ Blocks(f.cache) /\ Paths(f.leafList) \subseteq f.readview
    BY <2>4, GoodFields
  <2>6. CASE k \notin DOMAIN f.cache
    <3>1. /\ n \in Record(n.cache) /\ n.cache = f.cache /\ n.leafList = f.leafList
          /\ n.readview = f.readview /\ n.writeview = f.writeview /\ n.lost
      BY Zenon, <2>3, <2>5, <2>6 DEF Record
    <3>2. Grown(f, n)
      BY <3>1, <2>4, <2>5, ChangeIsGood
    <3> QED
      BY <3>1, <3>2, <2>4 DEF Grown, n
  <2>7. CASE k \in DOMAIN f.cache
    <3> DEFINE node == [f.cache[k] EXCEPT !.pos = pos]
               C == [f.cache EXCEPT ![k] = node]
    <3>1. node \in Nodes
      BY <2>7, <2>4, <2>1, NodeAt DEF Nodes
    <3>2. Blocks(C) /\ DOMAIN C = DOMAIN f.cache
      BY <3>1, <2>5, <2>7, BlocksChange
    <3>3. n = [f EXCEPT !.cache = C, !.leafList = f.leafList \cup {pos},
                        !.modified = f.modified \cup {k}]
      BY <2>3, <2>5, <2>7 DEF Record
    <3> HIDE DEF C
    <3>4. /\ n \in Record(n.cache) /\ n.cache = C /\ n.leafList = f.leafList \cup {pos}
          /\ n.readview = f.readview /\ n.writeview = f.writeview
      BY Zenon, <3>3, <2>5, <2>1 DEF Record
    <3>5. Paths(n.leafList) \subseteq f.readview
      BY <3>4, <2>2, <2>5 DEF Paths
    <3>6. Grown(f, n)
      BY Zenon, <3>2, <3>4, <3>5, <2>4, ChangeIsGood
    <3> QED
      BY <3>6, <3>4, <3>2, <2>4, <2>7 DEF Grown, n
  <2> QED
    BY <2>6, <2>7
<1> QED
  BY <1>1, <1>2

LEMMA GrownTwice ==
  ASSUME NEW m, NEW n, NEW o, Grown(m, n), Grown(n, o)
  PROVE  Grown(m, o)
BY DEF Grown

\* A change of one node in place, as n->left = ... makes it.
LEMMA NodeChangeIsGood ==
  ASSUME NEW m, Good(m), NEW k \in DOMAIN m.cache, NEW node \in Nodes,
         NEW n, n = [m EXCEPT !.cache[k] = node]
  PROVE  Grown(m, n) /\ DOMAIN n.cache = DOMAIN m.cache /\ n.cache[k] = node
<1> DEFINE C == [m.cache EXCEPT ![k] = node]
<1>1. m \in Record(m.cache) /\ Blocks(m.cache) /\ Paths(m.leafList) \subseteq m.readview
  BY GoodFields
<1>2. Blocks(C) /\ DOMAIN C = DOMAIN m.cache
  BY <1>1, BlocksChange
<1>3. C[k] = node
  OBVIOUS
<1>4. n = [m EXCEPT !.cache = C]
  BY <1>1 DEF Record
<1> HIDE DEF C
<1>5. /\ n \in Record(n.cache) /\ n.cache = C /\ n.leafList = m.leafList
      /\ n.readview = m.readview /\ n.writeview = m.writeview
  BY <1>1, <1>4 DEF Record
<1>6. Grown(m, n)
  BY Zenon, <1>1, <1>2, <1>5, ChangeIsGood
<1> QED
  BY <1>2, <1>3, <1>5, <1>6

\* The same with the node noted as modified.
LEMMA NodeNotedIsGood ==
  ASSUME NEW m, Good(m), NEW k \in DOMAIN m.cache, NEW node \in Nodes,
         NEW n, n = [m EXCEPT !.cache[k] = node, !.modified = @ \cup {k}]
  PROVE  Grown(m, n) /\ DOMAIN n.cache = DOMAIN m.cache
<1> DEFINE C == [m.cache EXCEPT ![k] = node]
           M == m.modified \cup {k}
<1>1. m \in Record(m.cache) /\ Blocks(m.cache) /\ Paths(m.leafList) \subseteq m.readview
  BY GoodFields
<1>2. Blocks(C) /\ DOMAIN C = DOMAIN m.cache
  BY <1>1, BlocksChange
<1>3. M \in SUBSET Key
  BY <1>1, NodeAt DEF Record
<1>4. n = [m EXCEPT !.cache = C, !.modified = M]
  BY <1>1 DEF Record
<1> HIDE DEF C, M
<1>5. /\ n \in Record(n.cache) /\ n.cache = C /\ n.leafList = m.leafList
      /\ n.readview = m.readview /\ n.writeview = m.writeview
  BY Zenon, <1>1, <1>3, <1>4 DEF Record
<1>6. Grown(m, n)
  BY Zenon, <1>1, <1>2, <1>5, ChangeIsGood
<1> QED
  BY <1>2, <1>5, <1>6

LEMMA LinkIsGood ==
  ASSUME NEW m, Good(m), NEW n \in DOMAIN m.cache, NEW s \in Side,
         NEW c \in NodeKey, NEW pos \in Leaves \cup {NoPos}, Placing(c, pos)
  PROVE  LET l == Link(m, n, s, c, pos)
         IN  Grown(m, l) /\ DOMAIN l.cache = DOMAIN m.cache /\ l.cache[n].kid[s] = c
<1> DEFINE l == Link(m, n, s, c, pos)
           old == m.cache[n]
           node == [old EXCEPT !.kid[s] = c, !.kidPos[s] = pos]
<1>1. m \in Record(m.cache) /\ Blocks(m.cache)
  BY GoodFields
<1>2. old \in Nodes
  BY NodeAt
<1>3. /\ old \in [value : Value, pos : Leaves, height : Nat,
                  kid : [Side -> NodeKey], kidPos : [Side -> Leaves \cup {NoPos}]]
      /\ \A r \in Side : Placing(old.kid[r], old.kidPos[r])
  BY <1>2, NodeFields
<1>4. /\ node \in [value : Value, pos : Leaves, height : Nat,
                   kid : [Side -> NodeKey], kidPos : [Side -> Leaves \cup {NoPos}]]
      /\ node.kid = [old.kid EXCEPT ![s] = c] /\ node.kidPos = [old.kidPos EXCEPT ![s] = pos]
  BY Zenon, <1>3
<1>5. \A r \in Side : Placing(node.kid[r], node.kidPos[r])
  BY <1>3, <1>4
<1>6. node \in Nodes
  BY Zenon, <1>4, <1>5 DEF Nodes
<1>7. l = [m EXCEPT !.cache[n] = node]
  BY Zenon, <1>1, <1>3 DEF Link, Record, Blocks
<1>8. node.kid[s] = c
  BY <1>3, <1>4
<1> HIDE DEF l, node
<1>9. Grown(m, l) /\ DOMAIN l.cache = DOMAIN m.cache /\ l.cache[n] = node
  BY <1>6, <1>7, NodeChangeIsGood
<1> QED
  BY <1>8, <1>9 DEF l

LEMMA ReadKidIsGood ==
  ASSUME NEW m, Good(m), StoreOK, NEW n \in DOMAIN m.cache, NEW s \in Side
  PROVE  Grown(m, ReadKid(m, n, s))
<1>1. m.cache[n].kid[s] \in NodeKey /\ Placing(m.cache[n].kid[s], m.cache[n].kidPos[s])
  BY NodeAt, NodeFields
<1> QED
  BY <1>1, ReadNodeIsGood DEF ReadKid

LEMMA HeightIsNat ==
  ASSUME NEW m, Good(m), NEW k
  PROVE  Height(m, k) \in Nat
BY NodeAt, NodeFields DEF Height

LEMMA SetHeightIsGood ==
  ASSUME NEW m, Good(m), StoreOK, NEW n \in DOMAIN m.cache
  PROVE  Grown(m, SetHeight(m, n))
<1> DEFINE m0 == ReadKid(m, n, "l")
           m1 == ReadKid(m0, n, "r")
           l == Height(m1, m.cache[n].kid["l"])
           r == Height(m1, m.cache[n].kid["r"])
           h == 1 + (IF l > r THEN l ELSE r)
           node == [m1.cache[n] EXCEPT !.height = h]
           o == SetHeight(m, n)
<1>1. Grown(m, m0)
  BY ReadKidIsGood
<1>2. Good(m0) /\ n \in DOMAIN m0.cache
  BY <1>1 DEF Grown
<1> HIDE DEF m0
<1>3. Grown(m0, m1)
  BY <1>2, ReadKidIsGood
<1>4. Good(m1) /\ n \in DOMAIN m1.cache
  BY <1>2, <1>3 DEF Grown
<1> HIDE DEF m1
<1>5. l \in Nat /\ r \in Nat
  BY <1>4, HeightIsNat
<1>6. h \in Nat
  BY <1>5
<1>7. o = [m1 EXCEPT !.cache[n].height = h, !.modified = @ \cup {n}]
  BY DEF SetHeight, m1, m0
<1> HIDE DEF l, r, h, o
<1>8. m1 \in Record(m1.cache) /\ Blocks(m1.cache)
  BY <1>4, GoodFields
<1>9. node \in Nodes
  BY <1>4, <1>6, NodeAt DEF Nodes
<1>10. o = [m1 EXCEPT !.cache[n] = node, !.modified = @ \cup {n}]
  BY <1>4, <1>7, <1>8 DEF Record
<1> HIDE DEF node
<1>11. Grown(m1, o)
  BY Zenon, <1>4, <1>9, <1>10, NodeNotedIsGood
<1> QED
  BY <1>1, <1>3, <1>11, GrownTwice DEF o

\* What a rotation needs is there, or the node is lost.
LEMMA RotateIsGood ==
  ASSUME NEW m, Good(m), StoreOK, NEW y \in DOMAIN m.cache, NEW s \in Side
  PROVE  LET o == Rotate(m, y, s)
         IN  Grown(m, o) /\ (o.lost \/ m.cache[y].kid[s] \in DOMAIN m.cache)
<1> DEFINE x == m.cache[y].kid[s]
           t == m.cache[x].kid[Other(s)]
           tPos == IF t = 0 THEN NoPos ELSE m.cache[t].pos
           m0 == Link(m, x, Other(s), y, m.cache[y].pos)
           m1 == Link(m0, y, s, t, tPos)
           o == Rotate(m, y, s)
<1>1. Other(s) \in Side
  BY DEF Other
<1>2. CASE x \notin DOMAIN m.cache \/ t \notin DOMAIN m.cache \cup {0}
  <2>1. o = [m EXCEPT !.lost = TRUE]
    BY Zenon, <1>2 DEF Rotate
  <2>2. m \in Record(m.cache) /\ Blocks(m.cache) /\ Paths(m.leafList) \subseteq m.readview
    BY GoodFields
  <2> HIDE DEF o, x, t
  <2>3. /\ o \in Record(o.cache) /\ o.cache = m.cache /\ o.leafList = m.leafList
        /\ o.readview = m.readview /\ o.writeview = m.writeview /\ o.lost
    BY Zenon, <2>1, <2>2 DEF Record
  <2>4. Grown(m, o)
    BY <2>2, <2>3, ChangeIsGood
  <2> QED
    BY <2>3, <2>4 DEF o
<1>3. CASE x \in DOMAIN m.cache /\ t \in DOMAIN m.cache \cup {0}
  <2>1. o = SetHeight(SetHeight(m1, y), x)
    BY Zenon, <1>3 DEF Rotate
  <2>2. y \in NodeKey /\ m.cache[y].pos \in Leaves /\ Placing(y, m.cache[y].pos)
    BY NodeAt, NodeFields DEF NodeKey, Placing
  <2>3. t \in NodeKey /\ tPos \in Leaves \cup {NoPos} /\ Placing(t, tPos)
    <3> HIDE DEF t
    <3>1. CASE t = 0
      BY <3>1 DEF NodeKey, Placing
    <3>2. CASE t # 0
      <4>1. t \in Key /\ m.cache[t] \in Nodes
        BY <1>3, <3>2, NodeAt
      <4>2. m.cache[t].pos \in Leaves
        BY <4>1, NodeFields
      <4> QED
        BY <3>2, <4>1, <4>2 DEF NodeKey, Placing
    <3> QED
      BY <3>1, <3>2
  <2> HIDE DEF t, tPos, x
  <2>4. Grown(m, m0) /\ DOMAIN m0.cache = DOMAIN m.cache
    BY <1>1, <1>3, <2>2, LinkIsGood
  <2> HIDE DEF m0
  <2>5. Good(m0)
    BY <2>4 DEF Grown
  <2>6. Grown(m0, m1) /\ DOMAIN m1.cache = DOMAIN m0.cache
    BY <2>3, <2>4, <2>5, LinkIsGood
  <2> HIDE DEF m1
  <2>7. Good(m1)
    BY <2>6 DEF Grown
  <2> DEFINE m2 == SetHeight(m1, y)
  <2>8. Grown(m1, m2)
    BY <2>4, <2>6, <2>7, SetHeightIsGood
  <2>9. Good(m2) /\ x \in DOMAIN m2.cache
    BY <1>3, <2>4, <2>6, <2>8 DEF Grown
  <2> HIDE DEF m2
  <2>10. Grown(m2, SetHeight(m2, x))
    BY <2>9, SetHeightIsGood
  <2>11. Grown(m2, o)
    BY <2>1, <2>10 DEF m2
  <2>12. Grown(m, m2)
    BY <2>4, <2>6, <2>8, GrownTwice
  <2>13. Grown(m, o)
    BY <2>11, <2>12, GrownTwice
  <2> QED
    BY <1>3, <2>13 DEF x
<1> QED
  BY <1>2, <1>3

\* Between a node and its subtree: the top that Rebalance returns is in the cache.
LEMMA RebalanceIsGood ==
  ASSUME NEW m, Good(m), StoreOK, NEW n \in DOMAIN m.cache, NEW k
  PROVE  LET up == Rebalance(m, n, k)
         IN  Grown(m, up.m) /\ (up.m.lost \/ up.top \in DOMAIN up.m.cache)
<1> DEFINE kid == m.cache[n].kid
           l == Height(m, kid["l"])
           r == Height(m, kid["r"])
           s == IF l - r > 1 THEN "l" ELSE "r"
           c == kid[s]
           g == m.cache[c].kid[Other(s)]
           m1 == Rotate(m, c, Other(s))
           m2 == Link(m1, n, s, g, m1.cache[g].pos)
           up == Rebalance(m, n, k)
<1>1. l \in Nat /\ r \in Nat /\ s \in Side /\ Other(s) \in Side
  BY HeightIsNat DEF Other
<1>2. \/ up = Result(m, n)
      \/ /\ l - r \notin -1..1
         /\ \/ up = Result(Rotate(m, n, s), c)
            \/ m1.lost /\ up = Result(m1, n)
            \/ ~m1.lost /\ up = Result(Rotate(m2, n, s), g)
  BY Zenon DEF Rebalance
<1>3. CASE up = Result(m, n)
  BY <1>3 DEF Result, Grown
<1>4. CASE l - r \notin -1..1
  <2>1. c \in DOMAIN m.cache
    <3>1. l - r > 1 \/ r - l > 1
      BY <1>1, <1>4
    <3>2. CASE l - r > 1
      <4>1. l # 0
        BY <1>1, <3>2
      <4> QED
        BY <3>2, <4>1 DEF Height
    <3>3. CASE r - l > 1
      <4>1. r # 0 /\ ~(l - r > 1)
        BY <1>1, <3>3
      <4> QED
        BY <4>1 DEF Height
    <3> QED
      BY <3>1, <3>2, <3>3
  <2> HIDE DEF l, r, s, up
  <2>2. CASE up = Result(Rotate(m, n, s), c)
    <3>1. Grown(m, Rotate(m, n, s))
      BY <1>1, RotateIsGood
    <3>2. c \in DOMAIN Rotate(m, n, s).cache
      BY <2>1, <3>1 DEF Grown
    <3> QED
      BY <2>2, <3>1, <3>2 DEF Result, up
  <2>3. Grown(m, m1) /\ (m1.lost \/ g \in DOMAIN m.cache)
    BY <1>1, <2>1, RotateIsGood
  <2>4. CASE m1.lost /\ up = Result(m1, n)
    BY <2>3, <2>4 DEF Result, up
  <2>5. CASE ~m1.lost /\ up = Result(Rotate(m2, n, s), g)
    <3>1. Good(m1) /\ n \in DOMAIN m1.cache /\ g \in DOMAIN m1.cache
      BY Zenon, <2>3, <2>5 DEF Grown
    <3> HIDE DEF g, m1
    <3>2. g \in Key /\ m1.cache[g] \in Nodes
      BY <3>1, NodeAt
    <3>3. g \in NodeKey /\ m1.cache[g].pos \in Leaves /\ Placing(g, m1.cache[g].pos)
      BY <3>2, NodeFields DEF NodeKey, Placing
    <3>4. Grown(m1, m2) /\ DOMAIN m2.cache = DOMAIN m1.cache
      BY <1>1, <3>1, <3>3, LinkIsGood
    <3>5. Good(m2)
      BY <3>4 DEF Grown
    <3> HIDE DEF m2
    <3>6. Grown(m2, Rotate(m2, n, s))
      BY <1>1, <3>1, <3>4, <3>5, RotateIsGood
    <3>7. Grown(m, Rotate(m2, n, s))
      BY <2>3, <3>4, <3>6, GrownTwice
    <3>8. g \in DOMAIN Rotate(m2, n, s).cache
      BY <3>1, <3>4, <3>6 DEF Grown
    <3> QED
      BY <2>5, <3>7, <3>8 DEF Result, up
  <2> QED
    BY Zenon, <1>2, <1>3, <2>2, <2>4, <2>5 DEF up
<1> QED
  BY Zenon, <1>2, <1>3, <1>4

\* WriteNode adds the node, and the path it has to be written to was read.
LEMMA WriteNodeIsGood ==
  ASSUME NEW m, Good(m), StoreOK, NEW k \in Key, NEW node \in Nodes
  PROVE  Grown(m, WriteNode(m, k, node))
<1> DEFINE m1 == FetchPath(m, node.pos)
           o == WriteNode(m, k, node)
           M == m.modified \cup {k}
<1>1. m \in Record(m.cache) /\ Blocks(m.cache) /\ Paths(m.leafList) \subseteq m.readview
  BY GoodFields
<1>2. node.pos \in Leaves
  BY NodeFields
<1>3. CASE k \in DOMAIN m.cache
  <2>1. o = [m EXCEPT !.modified = M]
    BY <1>1, <1>3 DEF WriteNode, Record
  <2>2. M \in SUBSET Key
    BY <1>1 DEF Record
  <2> HIDE DEF o, M
  <2>3. /\ o \in Record(o.cache) /\ o.cache = m.cache /\ o.leafList = m.leafList
        /\ o.readview = m.readview /\ o.writeview = m.writeview
    BY <1>1, <2>1, <2>2 DEF Record
  <2> QED
    BY <1>1, <2>3, ChangeIsGood DEF o
<1>4. CASE k \notin DOMAIN m.cache
  <2> DEFINE C == [j \in DOMAIN m1.cache \cup {k} |-> IF j = k THEN node ELSE m1.cache[j]]
             L == m1.leafList \cup {node.pos}
             M1 == m1.modified \cup {k}
  <2>1. Grown(m, m1) /\ Path(node.pos) \subseteq m1.readview
    BY <1>2, FetchPathIsGood
  <2>2. Good(m1)
    BY <2>1 DEF Grown
  <2>3. m1 \in Record(m1.cache) /\ Blocks(m1.cache) /\ Paths(m1.leafList) \subseteq m1.readview
    BY <2>2, GoodFields
  <2>4. o = [m1 EXCEPT !.cache = C, !.leafList = L, !.modified = M1]
    BY <1>4, <2>3 DEF WriteNode, Record
  <2> HIDE DEF m1, o
  <2>5. L \in SUBSET Leaves /\ M1 \in SUBSET Key
    BY <1>2, <2>3 DEF Record
  <2>6. Blocks(C) /\ DOMAIN m1.cache \subseteq DOMAIN C
    BY <2>3 DEF Blocks
  <2>7. Paths(L) \subseteq m1.readview
    BY <2>1, <2>3 DEF Paths
  <2> HIDE DEF C, L, M1
  <2>8. /\ o \in Record(o.cache) /\ o.cache = C /\ o.leafList = L
        /\ o.readview = m1.readview /\ o.writeview = m1.writeview
    BY Zenon, <2>3, <2>4, <2>5 DEF Record
  <2>9. Grown(m1, o)
    BY <2>2, <2>6, <2>7, <2>8, ChangeIsGood
  <2> QED
    BY <2>1, <2>9, GrownTwice DEF o
<1> QED
  BY <1>3, <1>4

-----------------------------------------------------------------------------
Sized == \A b \in Buckets : Cardinality(DOMAIN store[b]) <= geo.Z

\* What was fetched and not written back yet is in the cache, or was written
\* back elsewhere; only fetched paths are written.
Kept ==
  /\ Paths(oram.leafList) \subseteq oram.readview
  /\ \A b \in oram.readview \ oram.writeview : \A k \in DOMAIN store[b] :
       k \in DOMAIN oram.cache \/ \E c \in oram.writeview : k \in DOMAIN store[c]

Memory == StoreOK /\ Sized /\ IsORAM(oram) /\ Kept

Control ==
  /\ geo \in Geometry
  /\ Place(root) /\ Place(at)
  /\ pc \in {"idle", "find", "down", "up", "finish", "write", "lost", "broken"}
  /\ pc = "idle" \/ op \in Calls
  /\ path \in Seq(Key)
  /\ res \in Value \cup {None}
  /\ pc # "write" => oram.writeview = {}
  /\ pc \in {"down", "up"} => /\ op.do = "insert"
                              /\ \A i \in 1..Len(path) : path[i] \in DOMAIN oram.cache
  /\ pc \in {"idle", "find", "finish", "write"} => path = <<>>

IInv == Memory /\ Control

LEMMA GeoKept ==
  ASSUME geo' = geo
  PROVE  /\ Leaves' = Leaves /\ Buckets' = Buckets /\ Nodes' = Nodes
         /\ \A leaf : Path(leaf)' = Path(leaf)
<1>1. Leaves' = Leaves
  BY DEF Leaves
<1>2. \A leaf : Path(leaf)' = Path(leaf)
  BY DEF Path, GetNodeOnPath
<1>3. Buckets' = Buckets
  BY DEF Buckets, Paths, Path, GetNodeOnPath, Leaves
<1>4. Nodes' = Nodes
  BY <1>1 DEF Nodes, Placing
<1> QED
  BY <1>1, <1>2, <1>3, <1>4

LEMMA MemoryKept ==
  ASSUME Memory, geo' = geo, store' = store, Good(oram')
  PROVE  Memory'
<1>1. StoreOK'
  BY GeoKept DEF Memory, StoreOK, Blocks
<1>2. Sized'
  BY GeoKept DEF Memory, Sized
<1>3. IsORAM(oram)'
  BY GeoKept DEF Good, IsORAM, Blocks
<1>4. Kept'
  BY GeoKept DEF Good, Held, Kept, Paths
<1> QED
  BY <1>1, <1>2, <1>3, <1>4 DEF Memory

LEMMA GoodWhenNotWriting ==
  ASSUME IInv, pc # "write"
  PROVE  Good(oram) /\ StoreOK
BY DEF IInv, Memory, Control, Kept, Good, Held

LEMMA GrownKeepsStored ==
  ASSUME geo' = geo, store' = store, Grown(oram, oram')
  PROVE  Stored \subseteq Stored'
<1>1. Buckets' = Buckets
  BY GeoKept
<1> QED
  BY <1>1 DEF Stored, Grown

LEMMA InitInv == Init => IInv
<1> SUFFICES ASSUME Init PROVE IInv
  OBVIOUS
<1> USE DEF Init
<1>1. StoreOK
  BY DEF StoreOK, Blocks
<1>2. Sized
  <2>1. geo.Z \in Nat
    BY GeometryAssumption
  <2>2. \A b \in Buckets : DOMAIN store[b] = {}
    OBVIOUS
  <2>3. Cardinality({}) = 0
    BY FS_EmptySet
  <2> QED
    BY <2>1, <2>2, <2>3 DEF Sized
<1>3. IsORAM(oram)
  BY DEF IsORAM, NewORAM, Blocks
<1>4. Kept
  BY DEF Kept, NewORAM, Paths
<1>5. Control
  BY DEF Control, NewORAM, Place, NoNode, NodeKey, Placing
<1> QED
  BY <1>1, <1>2, <1>3, <1>4, <1>5 DEF IInv, Memory

\* What a step that leaves the memory alone, or only fetches, must still show.
LEMMA StepIsGood ==
  ASSUME IInv, geo' = geo, store' = store, Grown(oram, oram'), Control'
  PROVE  IInv' /\ Stored \subseteq Stored'
<1>1. Memory'
  BY MemoryKept DEF IInv, Grown
<1> QED
  BY <1>1, GrownKeepsStored DEF IInv

LEMMA PlaceKept ==
  ASSUME geo' = geo
  PROVE  /\ Place(at') => Place(at)'
         /\ Place(root') => Place(root)'
BY GeoKept DEF Place, Placing

\* A node that was read can be stepped from.
LEMMA AtNodeIsGood ==
  ASSUME IInv, pc # "write", at.key # 0
  PROVE  /\ Grown(oram, AtNode)
         /\ AtNode.lost \/ at.key \in DOMAIN AtNode.cache
         /\ Place(Next1(AtNode))
<1>1. Good(oram) /\ StoreOK
  BY GoodWhenNotWriting
<1>2. at.key \in NodeKey /\ Placing(at.key, at.pos)
  BY DEF IInv, Control, Place
<1>3. Grown(oram, AtNode) /\ (AtNode.lost \/ at.key \in DOMAIN AtNode.cache)
  BY <1>1, <1>2, ReadNodeIsGood DEF AtNode
<1>4. Place(at)
  BY DEF IInv, Control
<1>5. CASE AtNode.lost
  <2>1. Next1(AtNode) = at
    BY <1>5 DEF Next1
  <2> QED
    BY <1>3, <1>4, <2>1
<1>6. CASE ~AtNode.lost
  <2> DEFINE s == SideOf(op.key, at.key)
             n == AtNode.cache[at.key]
  <2>1. s \in Side
    BY DEF SideOf
  <2>2. n \in Nodes
    BY <1>3, <1>6, NodeAt DEF Grown
  <2>3. /\ n.kid[s] \in NodeKey /\ Placing(n.kid[s], n.kidPos[s])
        /\ n.kidPos[s] \in Leaves \cup {NoPos}
    BY <2>1, <2>2, NodeFields
  <2>4. Next1(AtNode) = [key |-> n.kid[s], pos |-> n.kidPos[s]]
    BY <1>6 DEF Next1, Kid
  <2> DEFINE p == [key |-> n.kid[s], pos |-> n.kidPos[s]]
  <2> HIDE DEF n, s
  <2>5. p.key = n.kid[s] /\ p.pos = n.kidPos[s]
    OBVIOUS
  <2>6. p \in [key : NodeKey, pos : Leaves \cup {NoPos}]
    BY <2>3
  <2> HIDE DEF p
  <2>7. Place(p)
    BY <2>3, <2>5, <2>6 DEF Place
  <2> QED
    BY <1>3, <2>4, <2>7 DEF p
<1> QED
  BY <1>3, <1>5, <1>6

LEMMA GoodIsUnwritten ==
  ASSUME NEW m, NEW n, Grown(m, n)
  PROVE  n.writeview = {} /\ n.lost \in BOOLEAN
BY DEF Grown, Good, Held, IsORAM

LEMMA StartIsGood ==
  ASSUME IInv, NEW k \in geo.keys, StartFind(k) \/ \E v \in geo.values : StartInsert(k, v)
  PROVE  IInv' /\ Stored \subseteq Stored'
<1>1. pc = "idle" /\ geo' = geo /\ store' = store /\ oram' = oram /\ root' = root
      /\ path' = path /\ res' = res /\ at' = root
  BY DEF StartFind, StartInsert
<1>2. Good(oram) /\ path = <<>>
  BY <1>1, GoodWhenNotWriting DEF IInv, Control
<1>3. geo.keys \subseteq Key /\ geo.values \subseteq Value
  BY GeometryAssumption DEF IInv, Control
<1>4. op' \in Calls /\ pc' \in {"find", "down"} /\ (pc' = "down" => op'.do = "insert")
  BY <1>3 DEF StartFind, StartInsert, Calls
<1>5. Place(root)' /\ Place(at)'
  BY <1>1, PlaceKept DEF IInv, Control
<1>6. Control'
  <2>1. oram.writeview = {} /\ geo \in Geometry /\ path \in Seq(Key) /\ res \in Value \cup {None}
    BY <1>1 DEF IInv, Control
  <2> QED
    BY <2>1, <1>1, <1>2, <1>4, <1>5 DEF Control
<1> QED
  BY <1>1, <1>2, <1>6, StepIsGood DEF Grown

LEMMA FindMissIsGood ==
  ASSUME IInv, FindMiss
  PROVE  IInv' /\ Stored \subseteq Stored'
<1>1. /\ pc = "find" /\ pc' \in {"write", "finish"} /\ geo' = geo /\ store' = store
      /\ oram' = oram /\ root' = root /\ at' = at /\ op' = op /\ path' = path /\ res' = res
  BY DEF FindMiss
<1>2. Good(oram)
  BY <1>1, GoodWhenNotWriting
<1>3. Place(root)' /\ Place(at)'
  BY <1>1, PlaceKept DEF IInv, Control
<1>4. Control'
  BY <1>1, <1>3 DEF IInv, Control
<1> QED
  BY <1>1, <1>2, <1>4, StepIsGood DEF Grown

LEMMA FindHitIsGood ==
  ASSUME IInv, FindHit
  PROVE  IInv' /\ Stored \subseteq Stored'
<1>1. /\ pc = "find" /\ at.key = op.key /\ geo' = geo /\ store' = store
      /\ oram' = AtNode /\ root' = root /\ at' = at /\ op' = op /\ path' = path
      /\ pc' \in {"lost", "finish"}
      /\ res' = IF oram'.lost THEN None ELSE oram'.cache[at.key].value
  BY DEF FindHit, Goto
<1>2. op.key \in Key /\ op \in Calls
  BY <1>1 DEF IInv, Control, Calls
<1>3. at.key # 0
  BY <1>1, <1>2, KeyAssumption
<1>4. Grown(oram, oram') /\ (oram'.lost \/ at.key \in DOMAIN oram'.cache)
  BY <1>1, <1>3, AtNodeIsGood
<1>5. res' \in Value \cup {None}
  <2>1. CASE oram'.lost
    BY <1>1, <2>1
  <2>2. CASE ~oram'.lost
    <3>1. oram'.cache[at.key] \in Nodes
      BY <1>4, <2>2 DEF Grown, Good, IsORAM, Blocks
    <3>2. oram'.cache[at.key].value \in Value
      BY <3>1, NodeFields
    <3> QED
      BY <1>1, <2>2, <3>2
  <2> QED
    BY <2>1, <2>2
<1>6. Place(root)' /\ Place(at)'
  BY <1>1, PlaceKept DEF IInv, Control
<1>7. oram'.writeview = {}
  BY <1>4, GoodIsUnwritten
<1>8. Control'
  BY <1>1, <1>2, <1>5, <1>6, <1>7 DEF IInv, Control
<1> QED
  BY <1>1, <1>4, <1>8, StepIsGood

LEMMA FindDownIsGood ==
  ASSUME IInv, FindDown
  PROVE  IInv' /\ Stored \subseteq Stored'
<1>1. /\ pc = "find" /\ at.key # 0 /\ geo' = geo /\ store' = store
      /\ oram' = AtNode /\ root' = root /\ at' = Next1(oram') /\ op' = op /\ path' = path
      /\ pc' \in {"lost", "find"} /\ res' = res
  BY DEF FindDown, Goto
<1>2. Grown(oram, oram') /\ Place(at')
  BY <1>1, AtNodeIsGood
<1>3. Place(root)' /\ Place(at)'
  BY <1>1, <1>2, PlaceKept DEF IInv, Control
<1>4. oram'.writeview = {}
  BY <1>2, GoodIsUnwritten
<1>5. Control'
  BY <1>1, <1>3, <1>4 DEF IInv, Control
<1> QED
  BY <1>1, <1>2, <1>5, StepIsGood

\* The nodes a walk remembers stay in the cache.
LEMMA PathKept ==
  ASSUME IInv, pc \in {"down", "up"}, Grown(oram, oram'), path' = path
  PROVE  \A i \in 1..Len(path') : path'[i] \in DOMAIN oram'.cache
BY DEF IInv, Control, Grown

LEMMA InsertDownIsGood ==
  ASSUME IInv, InsertDown
  PROVE  IInv' /\ Stored \subseteq Stored'
<1>1. /\ pc = "down" /\ at.key # 0 /\ geo' = geo /\ store' = store
      /\ oram' = AtNode /\ root' = root /\ at' = Next1(oram') /\ op' = op
      /\ path' = <<at.key>> \o path /\ res' = res
      /\ pc' = IF oram'.lost THEN "lost" ELSE "down"
  BY DEF InsertDown, Goto
<1>2. Grown(oram, oram') /\ Place(at') /\ (oram'.lost \/ at.key \in DOMAIN oram'.cache)
  BY <1>1, AtNodeIsGood
<1>3. Place(root)' /\ Place(at)'
  BY <1>1, <1>2, PlaceKept DEF IInv, Control
<1>4. oram'.writeview = {}
  BY <1>2, GoodIsUnwritten
<1>5. at.key \in Key /\ path \in Seq(Key)
  BY <1>1 DEF IInv, Control, Place, NodeKey
<1>6. /\ path' \in Seq(Key) /\ Len(path') = Len(path) + 1
      /\ path'[1] = at.key
      /\ \A i \in 2..Len(path') : path'[i] = path[i - 1]
  BY <1>1, <1>5
<1>7. pc' = "down" => \A i \in 1..Len(path') : path'[i] \in DOMAIN oram'.cache
  <2> SUFFICES ASSUME pc' = "down", NEW i \in 1..Len(path')
               PROVE  path'[i] \in DOMAIN oram'.cache
    OBVIOUS
  <2>1. at.key \in DOMAIN oram'.cache
    BY <1>1, <1>2
  <2>2. CASE i = 1
    BY <1>6, <2>1, <2>2
  <2>3. CASE i # 1
    <3>1. i \in 2..Len(path') /\ i - 1 \in 1..Len(path)
      BY <1>5, <1>6, <2>3
    <3>2. path[i - 1] \in DOMAIN oram.cache
      BY <1>1, <3>1 DEF IInv, Control
    <3> QED
      BY <1>2, <1>6, <3>1, <3>2 DEF Grown
  <2> QED
    BY <2>2, <2>3
<1>8. pc' \in {"lost", "down"} /\ op.do = "insert" /\ op \in Calls
  BY <1>1 DEF IInv, Control
<1>9. Control'
  BY <1>1, <1>3, <1>4, <1>6, <1>7, <1>8 DEF IInv, Control
<1> QED
  BY <1>1, <1>2, <1>9, StepIsGood

LEMMA InsertNewIsGood ==
  ASSUME IInv, InsertNew
  PROVE  IInv' /\ Stored \subseteq Stored'
<1>1. /\ pc = "down" /\ geo' = geo /\ store' = store
      /\ root' = root /\ op' = op /\ path' = path /\ res' = res /\ pc' = "up"
  BY DEF InsertNew
<1>2. PICK leaf \in Leaves :
        /\ oram' = WriteNode(oram, op.key, NewNode(op.value, leaf))
        /\ at' = [key |-> op.key, pos |-> leaf]
  BY DEF InsertNew
<1>3. op \in Calls /\ op.do = "insert"
  BY <1>1 DEF IInv, Control
<1>4. op.key \in Key /\ op.value \in Value
  BY <1>3 DEF Calls
<1>5. NewNode(op.value, leaf) \in Nodes
  BY <1>4 DEF NewNode, Nodes, Placing, NodeKey
<1>6. Grown(oram, oram')
  BY <1>1, <1>2, <1>4, <1>5, GoodWhenNotWriting, WriteNodeIsGood
<1>7. Place(at')
  BY <1>2, <1>4 DEF Place, Placing, NodeKey
<1>8. Place(root)' /\ Place(at)'
  BY <1>1, <1>7, PlaceKept DEF IInv, Control
<1>9. oram'.writeview = {}
  BY <1>6, GoodIsUnwritten
<1>10. \A i \in 1..Len(path') : path'[i] \in DOMAIN oram'.cache
  BY <1>1, <1>6, PathKept
<1>11. Control'
  BY <1>1, <1>3, <1>8, <1>9, <1>10 DEF IInv, Control
<1> QED
  BY <1>1, <1>6, <1>11, StepIsGood

LEMMA InsertSameIsGood ==
  ASSUME IInv, InsertSame
  PROVE  IInv' /\ Stored \subseteq Stored'
<1> DEFINE m == AtNode
           node == [m.cache[at.key] EXCEPT !.value = op.value]
<1>1. /\ pc = "down" /\ at.key = op.key /\ geo' = geo /\ store' = store
      /\ root' = root /\ at' = at /\ op' = op /\ path' = path /\ res' = res
      /\ pc' \in {"lost", "up"}
      /\ oram' = IF m.lost THEN m ELSE [m EXCEPT !.cache[at.key].value = op.value]
  BY DEF InsertSame, Goto
<1>2. op \in Calls /\ op.do = "insert"
  BY <1>1 DEF IInv, Control
<1>3. op.key \in Key /\ op.value \in Value
  BY <1>2 DEF Calls
<1>4. at.key # 0
  BY <1>1, <1>3, KeyAssumption
<1>5. Grown(oram, m) /\ (m.lost \/ at.key \in DOMAIN m.cache)
  BY <1>1, <1>4, AtNodeIsGood
<1> HIDE DEF m
<1>6. Grown(oram, oram')
  <2>1. CASE m.lost
    BY <1>1, <1>5, <2>1
  <2>2. CASE ~m.lost
    <3>1. Good(m) /\ at.key \in DOMAIN m.cache
      BY <1>5, <2>2 DEF Grown
    <3>2. m.cache[at.key] \in Nodes /\ m \in Record(m.cache) /\ Blocks(m.cache)
      BY <3>1, NodeAt, GoodFields
    <3>3. node \in Nodes
      BY <1>3, <3>2 DEF Nodes
    <3>4. oram' = [m EXCEPT !.cache[at.key] = node]
      BY <1>1, <2>2, <3>1, <3>2 DEF Record
    <3> HIDE DEF node
    <3>5. Grown(m, oram')
      BY <3>1, <3>3, <3>4, NodeChangeIsGood
    <3> QED
      BY <1>5, <3>5, GrownTwice
  <2> QED
    BY <2>1, <2>2
<1>7. Place(root)' /\ Place(at)'
  BY <1>1, PlaceKept DEF IInv, Control
<1>8. oram'.writeview = {}
  BY <1>6, GoodIsUnwritten
<1>9. \A i \in 1..Len(path') : path'[i] \in DOMAIN oram'.cache
  BY <1>1, <1>6, PathKept
<1>10. Control'
  BY <1>1, <1>2, <1>7, <1>8, <1>9 DEF IInv, Control
<1> QED
  BY <1>1, <1>6, <1>10, StepIsGood

LEMMA InsertUpIsGood ==
  ASSUME IInv, InsertUp
  PROVE  IInv' /\ Stored \subseteq Stored'
<1> DEFINE n == Head(path)
           s == SideOf(op.key, n)
           linked == Link(oram, n, s, at.key, at.pos)
           m == SetHeight(linked, n)
           up == IF m.lost THEN Result(m, n) ELSE Rebalance(m, n, op.key)
<1>1. /\ pc = "up" /\ path # <<>> /\ geo' = geo /\ store' = store
      /\ root' = root /\ op' = op /\ path' = Tail(path) /\ res' = res
      /\ pc' = (IF oram'.lost THEN "broken" ELSE "up") /\ oram' = up.m
      /\ at' = IF up.m.lost THEN at ELSE [key |-> up.top, pos |-> up.m.cache[up.top].pos]
  BY Zenon DEF InsertUp
<1>2. Good(oram) /\ StoreOK
  BY Zenon, <1>1, GoodWhenNotWriting
<1>3. /\ path \in Seq(Key) /\ op \in Calls /\ op.do = "insert" /\ Place(at)
      /\ \A i \in 1..Len(path) : path[i] \in DOMAIN oram.cache
  BY Zenon, <1>1 DEF IInv, Control
<1>4. n = path[1] /\ 1 \in 1..Len(path)
  <2>1. Len(path) \in Nat \ {0}
    BY Zenon, <1>1, <1>3, EmptySeq
  <2> QED
    BY <1>3, <2>1
<1>5. n \in DOMAIN oram.cache /\ s \in Side
  BY <1>3, <1>4 DEF SideOf
<1> HIDE DEF n, s, up
<1>6. Grown(oram, linked)
  BY <1>2, <1>3, <1>5, LinkIsGood DEF Place
<1>7. Good(linked) /\ n \in DOMAIN linked.cache
  BY <1>5, <1>6 DEF Grown
<1> HIDE DEF linked
<1>8. Grown(linked, m)
  BY <1>2, <1>7, SetHeightIsGood
<1>9. Good(m) /\ n \in DOMAIN m.cache
  BY <1>7, <1>8 DEF Grown
<1> HIDE DEF m
<1>10. Grown(m, up.m) /\ (up.m.lost \/ up.top \in DOMAIN up.m.cache)
  <2>1. CASE m.lost
    BY <1>9, <2>1 DEF up, Result, Grown
  <2>2. CASE ~m.lost
    <3>1. up = Rebalance(m, n, op.key)
      BY <2>2 DEF up
    <3> QED
      BY <1>2, <1>9, <3>1, RebalanceIsGood
  <2> QED
    BY <2>1, <2>2
<1>11. Grown(oram, oram')
  BY <1>1, <1>6, <1>8, <1>10, GrownTwice
<1>12. Place(at')
  <2>1. CASE up.m.lost
    BY <1>1, <1>3, <2>1
  <2>2. CASE ~up.m.lost
    <3>1. Good(up.m) /\ up.top \in DOMAIN up.m.cache
      BY <1>10, <2>2 DEF Grown
    <3>2. up.top \in Key /\ up.m.cache[up.top] \in Nodes
      BY <3>1, NodeAt
    <3>3. up.m.cache[up.top].pos \in Leaves
      BY <3>2, NodeFields
    <3>4. at' = [key |-> up.top, pos |-> up.m.cache[up.top].pos]
      BY <1>1, <2>2
    <3> QED
      BY <3>2, <3>3, <3>4 DEF Place, Placing, NodeKey
  <2> QED
    BY <2>1, <2>2
<1>13. Place(root)' /\ Place(at)'
  BY <1>1, <1>12, PlaceKept DEF IInv, Control
<1>14. oram'.writeview = {}
  BY <1>11, GoodIsUnwritten
<1>15. path' \in Seq(Key) /\ \A i \in 1..Len(path') : path'[i] \in DOMAIN oram'.cache
  <2>1. /\ path' \in Seq(Key) /\ Len(path') = Len(path) - 1 /\ Len(path) \in Nat
        /\ \A i \in 1..Len(path') : path'[i] = path[i + 1]
    BY <1>1, <1>3
  <2>2. \A i \in 1..Len(path') : i + 1 \in 1..Len(path)
    BY <2>1
  <2> QED
    BY Zenon, <1>3, <1>11, <2>1, <2>2 DEF Grown
<1>16. Control'
  BY <1>1, <1>3, <1>13, <1>14, <1>15 DEF IInv, Control
<1> QED
  BY <1>1, <1>11, <1>16, StepIsGood

LEMMA InsertDoneIsGood ==
  ASSUME IInv, InsertDone
  PROVE  IInv' /\ Stored \subseteq Stored'
<1>1. /\ pc = "up" /\ path = <<>> /\ pc' = "finish" /\ geo' = geo /\ store' = store
      /\ oram' = oram /\ root' = at /\ at' = at /\ op' = op /\ path' = path /\ res' = res
  BY DEF InsertDone
<1>2. Good(oram)
  BY <1>1, GoodWhenNotWriting
<1>3. Place(root)' /\ Place(at)'
  BY <1>1, PlaceKept DEF IInv, Control
<1>4. Control'
  BY <1>1, <1>3 DEF IInv, Control
<1> QED
  BY <1>1, <1>2, <1>4, StepIsGood DEF Grown

\* Where Finish sends a block, and what it tells its parent, are leaves.
LEMMA RefreshIsGood ==
  ASSUME NEW m, Good(m), NEW leafOf, \A k \in m.modified : leafOf[k] \in Leaves
  PROVE  Blocks(Refresh(m, leafOf)) /\ DOMAIN Refresh(m, leafOf) = DOMAIN m.cache
<1> DEFINE Reached(k) == m.cache[k].height \in 1..maxHeightOfAVLTree
           Pos(k) == IF Reached(k) /\ k \in m.modified THEN leafOf[k] ELSE m.cache[k].pos
           Told(n, c, old) == IF c \notin DOMAIN m.cache THEN old
                              ELSE IF m.cache[c].height < n.height THEN Pos(c)
                              ELSE m.cache[c].pos
           New(k) == LET n == m.cache[k]
                     IN  IF ~Reached(k) THEN n
                         ELSE [n EXCEPT !.pos = Pos(k),
                                        !.kidPos = [s \in {"l", "r"} |-> Told(n, n.kid[s], n.kidPos[s])]]
<1>1. Refresh(m, leafOf) = [k \in DOMAIN m.cache |-> New(k)]
  BY DEF Refresh
<1>2. \A k \in DOMAIN m.cache : k \in Key /\ m.cache[k] \in Nodes
  BY NodeAt
<1>3. ASSUME NEW k \in DOMAIN m.cache PROVE Pos(k) \in Leaves /\ m.cache[k].pos \in Leaves
  BY <1>2, NodeFields
<1>4. ASSUME NEW k \in DOMAIN m.cache PROVE New(k) \in Nodes
  <2> DEFINE n == m.cache[k]
             kidPos == [s \in {"l", "r"} |-> Told(n, n.kid[s], n.kidPos[s])]
             o == [n EXCEPT !.pos = Pos(k), !.kidPos = kidPos]
  <2>1. /\ n \in [value : Value, pos : Leaves, height : Nat,
                  kid : [Side -> NodeKey], kidPos : [Side -> Leaves \cup {NoPos}]]
        /\ \A s \in Side : n.kid[s] \in NodeKey /\ Placing(n.kid[s], n.kidPos[s])
    BY <1>2, NodeFields
  <2>2. Pos(k) \in Leaves
    BY <1>3
  <2>3. ASSUME NEW s \in Side
        PROVE  /\ kidPos[s] \in Leaves \cup {NoPos}
               /\ Placing(n.kid[s], kidPos[s])
    <3> DEFINE c == n.kid[s]
    <3>1. kidPos[s] = Told(n, c, n.kidPos[s])
      OBVIOUS
    <3>2. CASE c \notin DOMAIN m.cache
      <4>1. kidPos[s] = n.kidPos[s]
        BY Zenon, <3>1, <3>2
      <4> QED
        BY Zenon, <2>1, <4>1
    <3>3. CASE c \in DOMAIN m.cache
      <4>1. Pos(c) \in Leaves /\ m.cache[c].pos \in Leaves
        BY <1>3, <3>3
      <4> HIDE DEF Pos
      <4>2. kidPos[s] \in Leaves
        BY <3>1, <3>3, <4>1
      <4> QED
        BY <4>2 DEF Placing
    <3> QED
      BY Zenon, <3>2, <3>3
  <2>4. kidPos \in [Side -> Leaves \cup {NoPos}]
    BY Zenon, <2>3
  <2> HIDE DEF Pos, Told, kidPos
  <2>5. /\ o \in [value : Value, pos : Leaves, height : Nat,
                  kid : [Side -> NodeKey], kidPos : [Side -> Leaves \cup {NoPos}]]
        /\ o.kid = n.kid /\ o.kidPos = kidPos
    BY Zenon, <2>1, <2>2, <2>4
  <2> HIDE DEF o
  <2>6. o \in Nodes
    BY <2>1, <2>3, <2>5 DEF Nodes
  <2> QED
    BY <1>2, <2>6 DEF o, kidPos
<1> HIDE DEF New
<1> QED
  BY <1>1, <1>2, <1>4 DEF Blocks

LEMMA FinishIsGood ==
  ASSUME IInv, Finish
  PROVE  IInv' /\ Stored \subseteq Stored'
<1>1. /\ pc = "finish" /\ pc' = "write" /\ geo' = geo /\ store' = store
      /\ at' = at /\ op' = op /\ path' = path /\ res' = res
      /\ root' = [root EXCEPT !.pos = IF root.key \in DOMAIN oram'.cache
                                        THEN oram'.cache[root.key].pos ELSE @]
  BY DEF Finish
<1>2. PICK pad \in SUBSET Leaves, leafOf \in [oram.modified -> Leaves] :
        LET m == FetchPaths([oram EXCEPT !.leafList = @ \cup pad], pad)
        IN  oram' = [m EXCEPT !.cache = Refresh(m, leafOf)]
  BY Zenon DEF Finish, Pads
<1> DEFINE o == [oram EXCEPT !.leafList = @ \cup pad]
           m == FetchPaths(o, pad)
           L == oram.leafList \cup pad
<1>3. Good(oram) /\ StoreOK
  BY <1>1, GoodWhenNotWriting
<1>4. oram \in Record(oram.cache) /\ Blocks(oram.cache) /\ Paths(oram.leafList) \subseteq oram.readview
  BY <1>3, GoodFields
<1>5. L \in SUBSET Leaves
  BY <1>4 DEF Record
<1>6. o = [oram EXCEPT !.leafList = L]
  BY <1>4 DEF Record
<1> HIDE DEF o
<1>7. /\ o \in Record(o.cache) /\ o.cache = oram.cache /\ o.leafList = L
      /\ o.readview = oram.readview /\ o.writeview = oram.writeview /\ o.modified = oram.modified
  BY <1>4, <1>5, <1>6 DEF Record
<1>8. IsORAM(o) /\ Held(o)
  BY <1>3, <1>4, <1>7 DEF IsORAM, Record, Held, Good
<1>9. /\ IsORAM(m) /\ Held(m)
      /\ m.readview = oram.readview \cup Paths(pad)
      /\ m.leafList = L /\ m.modified = oram.modified
      /\ DOMAIN oram.cache \subseteq DOMAIN m.cache
  BY <1>3, <1>7, <1>8, FetchPathsIsGood
<1>10. Good(m)
  BY <1>4, <1>9, PathsOfTwo DEF Good
<1>11. oram' = [m EXCEPT !.cache = Refresh(m, leafOf)]
  BY <1>2 DEF o
<1> HIDE DEF m, L
<1>12. Blocks(Refresh(m, leafOf)) /\ DOMAIN Refresh(m, leafOf) = DOMAIN m.cache
  BY <1>9, <1>10, RefreshIsGood
<1>13. m \in Record(m.cache) /\ Paths(m.leafList) \subseteq m.readview
  BY <1>10, GoodFields
<1>14. /\ oram' \in Record(oram'.cache) /\ oram'.cache = Refresh(m, leafOf)
       /\ oram'.leafList = m.leafList
       /\ oram'.readview = m.readview /\ oram'.writeview = m.writeview
  BY <1>11, <1>13 DEF Record
<1>15. Grown(m, oram')
  BY <1>10, <1>12, <1>13, <1>14, ChangeIsGood
<1>16. Grown(oram, oram')
  BY <1>9, <1>15 DEF Grown
<1>17. Place(root')
  <2>1. Place(root)
    BY DEF IInv, Control
  <2>2. CASE root.key \notin DOMAIN oram'.cache
    BY <1>1, <2>1, <2>2 DEF Place
  <2>3. CASE root.key \in DOMAIN oram'.cache
    <3>1. oram'.cache[root.key] \in Nodes
      BY <1>15, <2>3 DEF Grown, Good, IsORAM, Blocks
    <3>2. oram'.cache[root.key].pos \in Leaves
      BY <3>1, NodeFields
    <3> QED
      BY <1>1, <2>1, <2>3, <3>2 DEF Place, Placing
  <2> QED
    BY <2>2, <2>3
<1>18. Place(root)' /\ Place(at)'
  BY <1>1, <1>17, PlaceKept DEF IInv, Control
<1>19. Control'
  BY <1>1, <1>18 DEF IInv, Control
<1> QED
  BY <1>1, <1>16, <1>19, StepIsGood

\* A bucket is overwritten: its old blocks were read, its new ones leave the cache.
LEMMA WriteIsGood ==
  ASSUME IInv, Write
  PROVE  IInv' /\ Stored \subseteq Stored'
<1>1. /\ pc = "write" /\ pc' = pc /\ geo' = geo /\ root' = root
      /\ at' = at /\ op' = op /\ path' = path /\ res' = res
  BY DEF Write
<1>2. PICK b \in Buckets : IsDeepest(b) /\ WriteBucket(b)
  BY DEF Write
<1>3. PICK S \in Chosen(b) :
        /\ store' = [store EXCEPT ![b] = Sub(oram.cache, S)]
        /\ oram' = [oram EXCEPT !.writeview = @ \cup {b},
                                !.cache = Sub(@, DOMAIN @ \ S)]
  BY Zenon, <1>2 DEF WriteBucket
<1> DEFINE C == Sub(oram.cache, DOMAIN oram.cache \ S)
           B == Sub(oram.cache, S)
           W == oram.writeview \cup {b}
<1>4. S \subseteq DOMAIN oram.cache /\ Cardinality(S) <= geo.Z
  BY DEF Chosen, Intersecting
<1>5. b \in oram.readview \ oram.writeview
  BY <1>2 DEF IsDeepest, Unwritten, IInv, Memory, Kept
<1>6. oram \in Record(oram.cache) /\ Blocks(oram.cache)
  BY DEF IInv, Memory, IsORAM, Record
<1>7. /\ DOMAIN C = DOMAIN oram.cache \ S /\ DOMAIN B = S
      /\ Blocks(C) /\ Blocks(B)
  BY <1>4, <1>6 DEF Sub, Blocks
<1>8. W \in SUBSET Buckets
  BY <1>2, <1>6 DEF Record
<1>9. oram' = [oram EXCEPT !.writeview = W, !.cache = C]
  BY <1>3, <1>6 DEF Record
<1> HIDE DEF C, B, W
<1>10. /\ oram' \in Record(oram'.cache) /\ oram'.cache = C /\ oram'.writeview = W
       /\ oram'.readview = oram.readview /\ oram'.leafList = oram.leafList
  BY Zenon, <1>6, <1>8, <1>9 DEF Record
<1>11. DOMAIN store = Buckets
  BY DEF IInv, Memory, StoreOK
<1>12. /\ DOMAIN store' = Buckets /\ store'[b] = B
       /\ \A c \in Buckets \ {b} : store'[c] = store[c]
  BY <1>2, <1>3, <1>11 DEF B
<1>13. \A c \in Buckets : Blocks(store'[c]) /\ Cardinality(DOMAIN store'[c]) <= geo.Z
  BY <1>4, <1>7, <1>12 DEF IInv, Memory, StoreOK, Sized
<1>14. StoreOK' /\ Sized'
  BY <1>1, <1>12, <1>13, GeoKept DEF StoreOK, Sized, Blocks
<1>15. IsORAM(oram')
  BY <1>7, <1>10 DEF IsORAM, Record
<1>16. IsORAM(oram)'
  BY <1>1, <1>15, GeoKept DEF IsORAM, Blocks
<1>17. Kept'
  <2>1. Paths(oram'.leafList) \subseteq oram'.readview
    BY <1>10 DEF IInv, Memory, Kept
  <2>2. ASSUME NEW c \in oram.readview \ W, NEW k \in DOMAIN store'[c]
        PROVE  k \in DOMAIN C \/ \E d \in W : k \in DOMAIN store'[d]
    <3>1. c \in Buckets \ {b} /\ c \notin oram.writeview
      BY <1>6 DEF W, Record
    <3>2. store'[c] = store[c]
      BY <1>12, <3>1
    <3>3. k \in DOMAIN oram.cache \/ \E d \in oram.writeview : k \in DOMAIN store[d]
      BY <2>2, <3>1, <3>2 DEF IInv, Memory, Kept
    <3>4. CASE k \in DOMAIN oram.cache
      BY <1>7, <1>12, <3>4 DEF W
    <3>5. CASE \E d \in oram.writeview : k \in DOMAIN store[d]
      <4>1. PICK d \in oram.writeview : k \in DOMAIN store[d]
        BY <3>5
      <4>2. d \in Buckets \ {b}
        BY <1>5, <1>6, <4>1 DEF Record
      <4> QED
        BY <1>12, <4>1, <4>2 DEF W
    <3> QED
      BY <3>3, <3>4, <3>5
  <2>3. Paths(oram.leafList)' = Paths(oram'.leafList)
    BY <1>1, GeoKept DEF Paths
  <2> QED
    BY <1>10, <2>1, <2>2, <2>3 DEF Kept
<1>18. Stored \subseteq Stored'
  <2>1. ASSUME NEW k \in Stored PROVE k \in Stored'
    <3>1. Buckets' = Buckets
      BY <1>1, GeoKept
    <3>2. ASSUME k \in DOMAIN oram.cache PROVE k \in DOMAIN C \/ k \in DOMAIN store'[b]
      BY <1>7, <1>12, <3>2
    <3>3. ASSUME NEW c \in Buckets, k \in DOMAIN store[c]
          PROVE  k \in DOMAIN oram.cache \/ \E d \in Buckets : k \in DOMAIN store'[d]
      <4>1. CASE c = b
        <5>1. k \in DOMAIN oram.cache \/ \E d \in oram.writeview : k \in DOMAIN store[d]
          BY <1>5, <3>3, <4>1 DEF IInv, Memory, Kept
        <5>2. \A d \in oram.writeview : d \in Buckets \ {b}
          BY <1>5, <1>6 DEF Record
        <5> QED
          BY <1>12, <5>1, <5>2
      <4>2. CASE c # b
        BY <1>12, <3>3, <4>2
      <4> QED
        BY <4>1, <4>2
    <3> QED
      BY <1>2, <1>10, <2>1, <3>1, <3>2, <3>3 DEF Stored
  <2> QED
    BY <2>1
<1>19. Place(root)' /\ Place(at)'
  BY <1>1, PlaceKept DEF IInv, Control
<1>20. Control'
  BY <1>1, <1>19 DEF IInv, Control
<1> QED
  BY <1>14, <1>16, <1>17, <1>18, <1>20 DEF IInv, Memory

LEMMA ReturnIsGood ==
  ASSUME IInv, Return
  PROVE  IInv' /\ Stored \subseteq Stored'
<1>1. /\ pc = "write" /\ pc' = "idle" /\ geo' = geo /\ store' = store /\ root' = root
      /\ path' = path /\ at' = NoNode /\ res' = None /\ oram' = Cleared(oram)
  BY DEF Return
<1>2. oram \in Record(oram.cache) /\ Blocks(oram.cache) /\ StoreOK
  BY DEF IInv, Memory, IsORAM, Record
<1>3. /\ oram' \in Record(oram'.cache) /\ oram'.cache = oram.cache
      /\ oram'.leafList = {} /\ oram'.readview = {} /\ oram'.writeview = {}
  BY Zenon, <1>1, <1>2 DEF Cleared, Record
<1>4. IsORAM(oram')
  BY <1>2, <1>3 DEF IsORAM, Record
<1>5. Good(oram')
  BY <1>3, <1>4 DEF Good, Held, Paths
<1>6. Place(at')
  BY <1>1 DEF NoNode, Place, Placing, NodeKey
<1>7. Place(root)' /\ Place(at)'
  BY <1>1, <1>6, PlaceKept DEF IInv, Control
<1>8. Control'
  BY <1>1, <1>3, <1>7 DEF IInv, Control
<1>9. Grown(oram, oram')
  BY <1>3, <1>5 DEF Grown
<1> QED
  BY <1>1, <1>8, <1>9, StepIsGood

LEMMA NextInv ==
  ASSUME IInv, Next
  PROVE  IInv' /\ Stored \subseteq Stored'
BY StartIsGood, FindMissIsGood, FindHitIsGood, FindDownIsGood, InsertDownIsGood,
   InsertNewIsGood, InsertSameIsGood, InsertUpIsGood, InsertDoneIsGood, FinishIsGood,
   WriteIsGood, ReturnIsGood DEF Next

LEMMA StutterInv == IInv /\ UNCHANGED vars => IInv'
<1> SUFFICES ASSUME IInv, UNCHANGED vars PROVE IInv'
  OBVIOUS
<1>1. /\ geo' = geo /\ store' = store /\ oram' = oram /\ root' = root /\ pc' = pc
      /\ op' = op /\ at' = at /\ path' = path /\ res' = res
  BY DEF vars
<1>2. StoreOK' /\ Sized'
  BY <1>1, GeoKept DEF IInv, Memory, StoreOK, Sized, Blocks
<1>3. IsORAM(oram)'
  BY <1>1, GeoKept DEF IInv, Memory, IsORAM, Blocks
<1>4. Kept'
  BY <1>1, GeoKept DEF IInv, Memory, Kept, Paths
<1>5. Place(root)' /\ Place(at)'
  BY <1>1, PlaceKept DEF IInv, Control
<1>6. Control'
  BY <1>1, <1>5 DEF IInv, Control
<1> QED
  BY <1>2, <1>3, <1>4, <1>6 DEF IInv, Memory

LEMMA Inv == Spec => []IInv
<1>1. IInv /\ [Next]_vars => IInv'
  BY NextInv, StutterInv
<1> QED
  BY InitInv, <1>1, PTL DEF Spec

-----------------------------------------------------------------------------
\* Every bucket holds at most Z well formed blocks, every node in the cache names
\* its children with positions that are leaves, and so on: for every geometry.
THEOREM OMAPTypeOK == Spec => []TypeOK
<1>1. IInv => TypeOK
  BY DEF IInv, Memory, Control, StoreOK, Sized, TypeOK
<1> QED
  BY Inv, <1>1, PTL

\* No step of a find or an insert loses a block: a bucket is overwritten only when
\* what it held is in the cache or already in another bucket.
THEOREM BlocksAreNeverDropped == Spec => NothingDropped
<1>1. IInv /\ [Next]_vars => [Stored \subseteq Stored']_vars
  BY NextInv
<1> QED
  BY Inv, <1>1, PTL DEF Spec, NothingDropped
-----------------------------------------------------------------------------
(* The shape of the search tree, apart from where its nodes are stored: L is *)
(* its links, over the keys K of its nodes and 0, whose right link is the    *)
(* root (no key is less than 0).                                             *)

\* The keys that belong below n on side s, if span says which belong at or below n.
Below(span, n, s) == {k \in span[n] : k # n /\ SideOf(k, n) = s}

\* p belongs below n, with everything below p.
Inside(span, p, n) == p \in span[n] /\ p # n /\ span[p] \subseteq Below(span, n, SideOf(p, n))

Linked(K, L, span, n, s) ==
  /\ L[n][s] \in K \cup {0}
  /\ L[n][s] # 0 => L[n][s] \in Below(span, n, s) /\ span[L[n][s]] = Below(span, n, s)
  /\ L[n][s] = 0 => Below(span, n, s) \cap K = {}

\* Two nodes are one above the other, or share no keys below them.
Nested(span, n, p) == n = p \/ Inside(span, n, p) \/ Inside(span, p, n) \/ span[n] \cap span[p] = {}

IsTree(K, L, span) ==
  /\ span \in [NodeKey -> SUBSET Key] /\ span[0] = Key
  /\ \A n \in K : n \in span[n]
  /\ \A n \in K \cup {0}, s \in Side : Linked(K, L, span, n, s)
  /\ \A n \in K \cup {0}, p \in K \cup {0} : Nested(span, n, p)

LEMMA Sides ==
  /\ 0 \notin Key
  /\ \A s \in Side : Other(s) \in Side /\ Other(s) # s /\ Other(Other(s)) = s
  /\ \A k, n : SideOf(k, n) \in Side
  /\ \A k \in Key : SideOf(k, 0) = "r"
  /\ \A k \in NodeKey, n \in NodeKey, s \in Side : k # n /\ SideOf(k, n) # s => SideOf(k, n) = Other(s)
  /\ \A k \in NodeKey, n \in NodeKey, s \in Side : k # n /\ SideOf(k, n) = s => SideOf(n, k) = Other(s)
  /\ \A k \in NodeKey, n \in NodeKey, p \in NodeKey, s \in Side :
       k # n /\ n # p /\ SideOf(k, n) = s /\ SideOf(n, p) = s => k # p /\ SideOf(k, p) = s
<1>1. Key \subseteq Nat \ {0} /\ NodeKey \subseteq Nat
  BY KeyAssumption DEF NodeKey
<1>2. \A k \in NodeKey, n \in NodeKey : k # n => (SideOf(k, n) = "l" <=> k < n) /\ (SideOf(k, n) = "r" <=> n < k)
  BY <1>1 DEF SideOf
<1>3. \A k \in Key : SideOf(k, 0) = "r"
  BY <1>1 DEF SideOf
<1>4. \A k \in NodeKey, n \in NodeKey, s \in Side : k # n /\ SideOf(k, n) = s => SideOf(n, k) = Other(s)
  BY <1>1 DEF SideOf, Other
<1>5. \A k \in NodeKey, n \in NodeKey, p \in NodeKey, s \in Side :
       k # n /\ n # p /\ SideOf(k, n) = s /\ SideOf(n, p) = s => k # p /\ SideOf(k, p) = s
  BY <1>1 DEF SideOf
<1> QED  BY <1>1, <1>3, <1>4, <1>5 DEF SideOf, Other

\* Links have different ends.
LEMMA OneParent ==
  ASSUME NEW K \in SUBSET Key, NEW L, NEW span, IsTree(K, L, span),
         NEW n \in K \cup {0}, NEW s \in Side, NEW p \in K \cup {0}, NEW t \in Side,
         L[n][s] = L[p][t], L[n][s] # 0
  PROVE  n = p /\ s = t
<1> DEFINE c == L[n][s]
<1>1. /\ c \in Below(span, n, s) /\ span[c] = Below(span, n, s)
      /\ c \in Below(span, p, t) /\ span[c] = Below(span, p, t)
  BY DEF IsTree, Linked
<1> HIDE DEF c
<1>2. n = p => s = t
  BY <1>1 DEF Below
<1>3. ASSUME NEW i \in K \cup {0}, NEW j \in K \cup {0}, NEW r \in Side,
             Inside(span, i, j), c \in span[i], span[c] = Below(span, j, r), c \in span[c],
             i \notin span[c]
      PROVE  FALSE
  <2>1. SideOf(c, j) = SideOf(i, j) /\ SideOf(c, j) = r
    BY <1>3 DEF Inside, Below
  <2> QED  BY Zenon, <1>3, <2>1 DEF Inside, Below
<1>4. n \notin span[c] /\ p \notin span[c] /\ c \in span[n] /\ c \in span[p] /\ c \in span[c]
  BY <1>1 DEF Below
<1>5. Nested(span, n, p)
  BY DEF IsTree
<1> QED  BY Zenon, <1>1, <1>2, <1>3, <1>4, <1>5 DEF Nested

\* What belongs where changed only for x and y.
Alike(span, new, x, y) == \A i \in NodeKey \ {x, y} : new[i] = span[i]

\* M is L with the new node k at the link of n on side s.
Hung(K, L, M, n, s, k) ==
  /\ L[n][s] = 0
  /\ \A r \in Side : M[k][r] = 0
  /\ \A i \in K \cup {0}, r \in Side : M[i][r] = IF i = n /\ r = s THEN k ELSE L[i][r]

\* A new node takes the place of an empty link below which it belongs.
LEMMA Hang ==
  ASSUME NEW K \in SUBSET Key, NEW L, NEW span, IsTree(K, L, span),
         NEW n \in K \cup {0}, NEW s \in Side,
         NEW k \in Key, k \notin K, k \in Below(span, n, s),
         NEW M, Hung(K, L, M, n, s, k)
  PROVE  \E new : IsTree(K \cup {k}, M, new) /\ Alike(span, new, k, k)
<1> USE DEF Hung
<1> DEFINE B == Below(span, n, s)
           new == [span EXCEPT ![k] = B]
<1>1. /\ span \in [NodeKey -> SUBSET Key] /\ span[0] = Key
      /\ \A i \in K : i \in span[i]
      /\ \A i \in K \cup {0}, r \in Side : Linked(K, L, span, i, r)
      /\ \A i \in K \cup {0}, j \in K \cup {0} : Nested(span, i, j)
  BY DEF IsTree
<1>2. k \in NodeKey /\ K \cup {0} \subseteq NodeKey /\ 0 \notin Key /\ k # 0 /\ n # k
  BY Sides DEF NodeKey
<1>3. B \cap K = {} /\ B \subseteq span[n] /\ B \subseteq Key /\ k \in B /\ SideOf(k, n) = s
  BY <1>1, <1>2 DEF Linked, Below
<1>4. /\ new \in [NodeKey -> SUBSET Key] /\ new[k] = B
      /\ \A i \in NodeKey \ {k} : new[i] = span[i]
  BY <1>1, <1>2, <1>3
<1> HIDE DEF new
<1>5. \A i \in K \cup {0} : new[i] = span[i] /\ \A r \in Side : Below(new, i, r) = Below(span, i, r)
  BY <1>2, <1>4 DEF Below
<1>6. ASSUME NEW i \in K \cup {0}, NEW r \in Side, k \in Below(span, i, r), L[i][r] = 0
      PROVE  i = n /\ r = s
  <2>1. Below(span, i, r) \cap K = {} /\ SideOf(k, i) = r /\ k \in span[i] /\ k \in span[n]
    BY <1>1, <1>3, <1>6 DEF Linked, Below
  <2>2. CASE i = n
    BY <1>3, <2>1, <2>2
  <2>3. ~Inside(span, i, n)
    <3>1. SUFFICES ASSUME Inside(span, i, n) PROVE FALSE
      OBVIOUS
    <3>2. k \in Below(span, n, SideOf(i, n)) /\ i \in K
      BY <2>1, <3>1, <1>1, <1>2 DEF Inside
    <3>3. i \in B
      BY <1>3, <3>1, <3>2 DEF Inside, Below
    <3> QED  BY <1>3, <3>2, <3>3
  <2>4. ~Inside(span, n, i)
    <3>1. SUFFICES ASSUME Inside(span, n, i) PROVE FALSE
      OBVIOUS
    <3>2. k \in Below(span, i, SideOf(n, i)) /\ n \in K
      BY <2>1, <3>1, <1>1, <1>2 DEF Inside
    <3>3. n \in Below(span, i, r)
      BY <2>1, <3>1, <3>2 DEF Inside, Below
    <3> QED  BY <2>1, <3>2, <3>3
  <2>5. Nested(span, i, n)
    BY <1>1
  <2> QED  BY <2>1, <2>2, <2>3, <2>4, <2>5 DEF Nested
<1>7. ASSUME NEW i \in K \cup {0} PROVE Inside(new, k, i) \/ new[i] \cap B = {}
  <2>1. CASE i = n
    <3>1. Inside(new, k, n)
      BY <1>2, <1>3, <1>4, <1>5 DEF Inside, Below
    <3> QED  BY <2>1, <3>1
  <2>2. CASE Inside(span, i, n)
    <3>1. i \in K /\ SideOf(i, n) # s
      BY <1>1, <1>2, <1>3, <2>2 DEF Inside, Below
    <3>2. span[i] \cap B = {}
      BY <2>2, <3>1 DEF Inside, Below
    <3> QED  BY <1>5, <3>2
  <2>3. CASE Inside(span, n, i)
    <3>1. B \subseteq Below(span, i, SideOf(n, i))
      BY <1>3, <2>3 DEF Inside
    <3>2. SideOf(k, i) = SideOf(n, i) /\ k \in span[i] /\ k # i
      BY <1>3, <3>1 DEF Below
    <3>3. SideOf(k, i) \in Side
      BY Sides
    <3>4. Inside(new, k, i)
      BY <1>4, <1>5, <3>1, <3>2, <3>3 DEF Inside
    <3> QED  BY <3>4
  <2>4. CASE span[i] \cap span[n] = {}
    BY <1>3, <1>5, <2>4
  <2> QED  BY <1>1, <2>1, <2>2, <2>3, <2>4 DEF Nested
<1>8. ASSUME NEW i \in K \cup {0}, NEW r \in Side PROVE Linked(K \cup {k}, M, new, i, r)
  <2>1. Linked(K, L, span, i, r) /\ Below(new, i, r) = Below(span, i, r)
    BY <1>1, <1>5
  <2>2. CASE i = n /\ r = s
    BY <1>2, <1>3, <1>4, <2>1, <2>2 DEF Linked
  <2>3. CASE ~(i = n /\ r = s)
    <3>1. M[i][r] = L[i][r] /\ (L[i][r] # 0 => L[i][r] \in K /\ new[L[i][r]] = span[L[i][r]])
      BY <1>5, <2>1, <2>3 DEF Linked
    <3> QED  BY <1>6, <2>1, <2>3, <3>1 DEF Linked
  <2> QED  BY <2>2, <2>3
<1>9. ASSUME NEW r \in Side PROVE Linked(K \cup {k}, M, new, k, r)
  <2>1. Below(new, k, r) \subseteq B /\ k \notin Below(new, k, r)
    BY <1>4 DEF Below
  <2> QED  BY <1>3, <2>1 DEF Linked
<1>10. ASSUME NEW i \in K \cup {0}, NEW j \in K \cup {0} PROVE Nested(new, i, j)
  <2>1. Nested(span, i, j)
    BY <1>1
  <2>2. \A r \in Side : Below(new, i, r) = Below(span, i, r) /\ Below(new, j, r) = Below(span, j, r)
    BY <1>5
  <2>3. SideOf(i, j) \in Side /\ SideOf(j, i) \in Side
    BY Sides
  <2> QED  BY <1>5, <2>1, <2>2, <2>3 DEF Nested, Inside
<1>11. \A i \in K \cup {k} \cup {0}, j \in K \cup {k} \cup {0} : Nested(new, i, j)
  BY <1>4, <1>7, <1>10 DEF Nested
<1>12. IsTree(K \cup {k}, M, new)
  <2>1. \A i \in K \cup {k} : i \in new[i]
    BY <1>1, <1>3, <1>4, <1>5
  <2>2. new[0] = Key
    BY <1>1, <1>2, <1>4
  <2> QED  BY Zenon, <1>4, <1>8, <1>9, <1>11, <2>1, <2>2 DEF IsTree
<1> QED  BY <1>4, <1>12 DEF Alike

\* M is L after a rotation below the link of p on side t.
Swung(K, L, M, p, t, y, s, x) ==
  /\ L[p][t] = y /\ L[y][s] = x
  /\ \A i \in K \cup {0}, r \in Side :
       M[i][r] = IF i = p /\ r = t THEN x
                 ELSE IF i = x /\ r = Other(s) THEN y
                 ELSE IF i = y /\ r = s THEN L[x][Other(s)]
                 ELSE L[i][r]

\* A rotation: the node x below y on side s takes the place of y, and what was
\* below x on the other side is then below y.
LEMMA Turn ==
  ASSUME NEW K \in SUBSET Key, NEW L, NEW span, IsTree(K, L, span),
         NEW p \in K \cup {0}, NEW t \in Side, NEW y \in K,
         NEW s \in Side, NEW x \in K, NEW M, Swung(K, L, M, p, t, y, s, x)
  PROVE  \E new : IsTree(K, M, new) /\ Alike(span, new, x, y)
<1> USE DEF Swung
<1> DEFINE o == Other(s)
           B == {k \in span[y] : k # x /\ SideOf(k, x) = o}
           new == [span EXCEPT ![x] = span[y], ![y] = B]
<1>0. \A i \in K \cup {0}, j \in K \cup {0}, r \in Side, u \in Side :
        L[i][r] = L[j][u] /\ L[i][r] # 0 => i = j /\ r = u
  BY OneParent
<1>1. /\ span \in [NodeKey -> SUBSET Key] /\ span[0] = Key
      /\ \A i \in K : i \in span[i]
      /\ \A i \in K \cup {0}, r \in Side : Linked(K, L, span, i, r)
      /\ \A i \in K \cup {0}, j \in K \cup {0} : Nested(span, i, j)
  BY DEF IsTree
<1>2. /\ K \cup {0} \subseteq NodeKey /\ 0 \notin Key /\ x # 0 /\ y # 0
      /\ x \in NodeKey /\ y \in NodeKey /\ span[y] \subseteq Key
      /\ o \in Side /\ o # s /\ Other(o) = s
  BY <1>1, Sides DEF NodeKey
<1>3. /\ x \in Below(span, y, s) /\ span[x] = Below(span, y, s)
      /\ x # y /\ x \in span[y] /\ SideOf(x, y) = s /\ span[x] \subseteq span[y]
  BY <1>1, <1>2 DEF Linked, Below
<1>4. SideOf(y, x) = o /\ y \in span[y] /\ y \in B
  BY <1>1, <1>2, <1>3, Sides
<1>5. /\ new \in [NodeKey -> SUBSET Key] /\ new[x] = span[y] /\ new[y] = B
      /\ \A i \in NodeKey \ {x, y} : new[i] = span[i]
  BY <1>1, <1>2, <1>3
<1> HIDE DEF new
<1>6. \A k \in span[y] : /\ k # y /\ SideOf(k, y) # s => k \in B
                         /\ k # x /\ SideOf(k, x) # o => k # y /\ SideOf(k, y) = s
  <2> SUFFICES ASSUME NEW k \in span[y]
               PROVE  /\ k # y /\ SideOf(k, y) # s => k \in B
                      /\ k # x /\ SideOf(k, x) # o => k # y /\ SideOf(k, y) = s
    OBVIOUS
  <2>1. k \in NodeKey
    BY <1>2 DEF NodeKey
  <2>2. k # y /\ SideOf(k, y) # s => SideOf(k, y) = o
    BY <1>2, <2>1, Sides
  <2>3. k # y /\ SideOf(k, y) = o => k # x /\ SideOf(k, x) = o
    BY <1>2, <1>3, <1>4, <2>1, Sides
  <2>4. k # x /\ SideOf(k, x) # o => SideOf(k, x) = s
    BY <1>2, <2>1, Sides
  <2>5. k # x /\ SideOf(k, x) = s => k # y /\ SideOf(k, y) = s
    BY <1>2, <1>3, <2>1, Sides
  <2> QED  BY <2>2, <2>3, <2>4, <2>5
<1>7. /\ Below(new, x, o) = B
      /\ Below(new, x, s) = Below(span, x, s)
      /\ Below(new, y, s) = Below(span, x, o)
      /\ Below(new, y, o) = Below(span, y, o)
      /\ \A i \in (K \cup {0}) \ {x, y}, r \in Side : Below(new, i, r) = Below(span, i, r)
  <2>1. Below(new, x, o) = B
    BY <1>5 DEF Below
  <2>2. Below(new, x, s) = Below(span, x, s)
    BY <1>2, <1>3, <1>5, <1>6 DEF Below
  <2>3. Below(new, y, s) = Below(span, x, o)
    BY <1>3, <1>5 DEF Below
  <2>4. Below(new, y, o) = Below(span, y, o)
    BY <1>2, <1>5, <1>6 DEF Below
  <2>5. \A i \in (K \cup {0}) \ {x, y}, r \in Side : Below(new, i, r) = Below(span, i, r)
    BY <1>2, <1>5 DEF Below
  <2> QED  BY <2>1, <2>2, <2>3, <2>4, <2>5
<1>8. /\ p # y /\ p # x /\ y \in Below(span, p, t) /\ span[y] = Below(span, p, t)
      /\ x \in Below(span, p, t)
  BY <1>1, <1>2, <1>3 DEF Linked, Below
\* A link that is not part of the rotation leads to a node that is not either.
<1>9. ASSUME NEW i \in K \cup {0}, NEW r \in Side, ~(i = p /\ r = t), ~(i = y /\ r = s), L[i][r] # 0
      PROVE  L[i][r] \in K /\ new[L[i][r]] = span[L[i][r]]
  <2>1. L[i][r] \in K
    BY <1>1, <1>9 DEF Linked
  <2>2. L[i][r] # L[p][t] /\ L[i][r] # L[y][s]
    BY <1>9, <1>0
  <2> QED  BY <1>2, <1>5, <2>1, <2>2
<1>10. ASSUME NEW i \in K \cup {0}, NEW r \in Side PROVE Linked(K, M, new, i, r)
  <2>1. Linked(K, L, span, i, r)
    BY <1>1
  <2>2. CASE i = p /\ r = t
    <3>1. M[i][r] = x
      BY <2>2
    <3> QED  BY <1>2, <1>5, <1>7, <1>8, <2>2, <3>1 DEF Linked
  <2>3. CASE i = x /\ r = o
    <3>1. M[i][r] = y
      BY <1>8, <2>3
    <3> QED  BY Zenon, <1>2, <1>4, <1>5, <1>7, <2>3, <3>1 DEF Linked
  <2>4. CASE i = y /\ r = s
    <3>1. M[i][r] = L[x][o] /\ Linked(K, L, span, x, o)
      BY <1>1, <1>2, <1>3, <1>8, <2>4
    <3>2. L[x][o] # 0 => new[L[x][o]] = span[L[x][o]]
      BY <1>2, <1>3, <1>8, <1>9
    <3> QED  BY <1>7, <2>4, <3>1, <3>2 DEF Linked
  <2>5. CASE ~(i = p /\ r = t) /\ ~(i = x /\ r = o) /\ ~(i = y /\ r = s)
    <3>1. M[i][r] = L[i][r]
      BY <2>5
    <3>2. Below(new, i, r) = Below(span, i, r)
      BY <1>2, <1>7, <2>5
    <3> QED  BY <1>9, <2>1, <2>5, <3>1, <3>2 DEF Linked
  <2> QED  BY <2>2, <2>3, <2>4, <2>5
<1>11. Inside(new, y, x)
  BY <1>3, <1>4, <1>5, <1>7 DEF Inside
\* Of the other nodes none has x or y below it and not the other.
<1>12. ASSUME NEW i \in K \cup {0}, i # x, i # y, Inside(span, i, y)
       PROVE  (i \in span[x] \/ span[i] \cap span[x] = {}) /\ ~Inside(span, x, i)
  <2>1. i \in span[y] /\ i \in K /\ SideOf(i, y) \in Side /\ i \in span[i]
    BY <1>1, <1>2, <1>12, Sides DEF Inside
  <2>2. CASE SideOf(i, y) = s
    <3>1. i \in span[x]
      BY <1>3, <1>12, <2>1, <2>2 DEF Below
    <3>2. ~Inside(span, x, i)
      BY <3>1 DEF Inside, Below
    <3> QED  BY <3>1, <3>2
  <2>3. CASE SideOf(i, y) # s
    <3>1. span[i] \cap span[x] = {}
      BY <1>3, <1>12, <2>1, <2>3 DEF Inside, Below
    <3>2. ~Inside(span, x, i)
      BY <1>1, <3>1 DEF Inside
    <3> QED  BY <3>1, <3>2
  <2> QED  BY <2>2, <2>3
<1>13. ASSUME NEW i \in K \cup {0}, i # x, i # y PROVE Nested(new, i, x) /\ Nested(new, i, y)
  <2>1. /\ new[i] = span[i] /\ SideOf(i, y) \in Side /\ SideOf(y, i) \in Side
        /\ SideOf(i, x) \in Side /\ SideOf(x, i) \in Side /\ B \subseteq span[y]
        /\ \A r \in Side : Below(new, i, r) = Below(span, i, r)
    BY <1>2, <1>5, <1>7, <1>13, Sides
  <2>2. CASE span[i] \cap span[y] = {}
    BY <1>5, <2>1, <2>2 DEF Nested
  <2>3. CASE Inside(span, y, i)
    <3>1. SideOf(x, i) = SideOf(y, i) /\ x \in span[i] /\ span[y] \subseteq Below(span, i, SideOf(y, i))
      BY <1>3, <2>3 DEF Inside, Below
    <3>2. Inside(new, x, i) /\ Inside(new, y, i)
      BY <1>5, <1>13, <2>1, <2>3, <3>1 DEF Inside
    <3> QED  BY <3>2 DEF Nested
  <2>4. CASE Inside(span, i, y)
    <3>1. i \in span[y] /\ i \in span[i] /\ span[i] \subseteq Below(span, y, SideOf(i, y)) /\ i \in K
      BY <1>1, <1>2, <2>4 DEF Inside
    <3>2. CASE SideOf(i, y) # s
      <4>1. SideOf(i, y) = o
        BY <1>2, <2>1, <3>2
      <4>2. span[i] \subseteq Below(span, y, o) /\ Below(span, y, o) \subseteq B
        BY <1>2, <1>6, <3>1, <4>1 DEF Below
      <4>3. i \in B
        BY <3>1, <4>2
      <4>4. SideOf(i, x) = o
        BY <4>3
      <4>5. Inside(new, i, x) /\ Inside(new, i, y)
        BY <1>5, <1>7, <1>13, <2>1, <3>1, <4>1, <4>2, <4>3, <4>4 DEF Inside
      <4> QED  BY <4>5 DEF Nested
    <3>3. CASE SideOf(i, y) = s
      <4>1. i \in span[x]
        BY <1>3, <1>13, <3>1, <3>3 DEF Below
      <4>2. Inside(span, i, x)
        <5>1. Nested(span, i, x)
          BY <1>1
        <5>2. ~(span[i] \cap span[x] = {})
          BY <3>1, <4>1
        <5> QED  BY <1>12, <1>13, <2>4, <5>1, <5>2 DEF Nested
      <4>3. span[i] \subseteq Below(span, x, SideOf(i, x))
        BY <4>2 DEF Inside
      <4>4. CASE SideOf(i, x) = o
        <5>1. i \in B
          BY <1>13, <3>1, <4>4
        <5>2. Inside(new, i, x)
          <6>1. span[i] \subseteq B
            BY <1>3, <4>3, <4>4 DEF Below
          <6> QED  BY <1>5, <1>7, <1>13, <2>1, <3>1, <4>4, <6>1 DEF Inside
        <5>3. Inside(new, i, y)
          <6>1. span[i] \subseteq Below(new, y, s)
            BY <1>7, <4>3, <4>4
          <6> QED  BY <1>5, <1>13, <2>1, <3>3, <5>1, <6>1 DEF Inside
        <5> QED  BY <5>2, <5>3 DEF Nested
      <4>5. CASE SideOf(i, x) # o
        <5>1. SideOf(i, x) = s
          BY <1>2, <2>1, <4>5
        <5>2. Inside(new, i, x)
          BY <1>5, <1>7, <1>13, <2>1, <3>1, <4>3, <5>1 DEF Inside
        <5>3. span[i] \cap B = {}
          BY <1>2, <4>3, <5>1 DEF Below
        <5> QED  BY <1>5, <2>1, <5>2, <5>3 DEF Nested
      <4> QED  BY <4>4, <4>5
    <3> QED  BY <3>2, <3>3
  <2>5. Nested(span, i, y)
    BY <1>1
  <2> QED  BY <1>13, <2>2, <2>3, <2>4, <2>5 DEF Nested
<1>14. \A i \in K \cup {0}, j \in K \cup {0} : Nested(new, i, j)
  <2> SUFFICES ASSUME NEW i \in K \cup {0}, NEW j \in K \cup {0} PROVE Nested(new, i, j)
    OBVIOUS
  <2>1. CASE i \notin {x, y} /\ j \notin {x, y}
    <3>1. /\ new[i] = span[i] /\ new[j] = span[j] /\ SideOf(i, j) \in Side /\ SideOf(j, i) \in Side
          /\ \A r \in Side : Below(new, i, r) = Below(span, i, r) /\ Below(new, j, r) = Below(span, j, r)
      BY <1>2, <1>5, <1>7, <2>1, Sides
    <3>2. Nested(span, i, j)
      BY <1>1
    <3> QED  BY <3>1, <3>2 DEF Nested, Inside
  <2>2. CASE i \notin {x, y} /\ j \in {x, y}
    BY <1>13, <2>2
  <2>3. CASE i \in {x, y} /\ j \notin {x, y}
    <3>1. Nested(new, j, i)
      BY <1>13, <2>3
    <3> QED  BY <3>1 DEF Nested
  <2>4. CASE i \in {x, y} /\ j \in {x, y}
    BY <1>11, <2>4 DEF Nested
  <2> QED  BY <2>1, <2>2, <2>3, <2>4
<1>15. (\A i \in K : i \in new[i]) /\ new[0] = Key
  BY <1>1, <1>2, <1>3, <1>4, <1>5
<1>16. IsTree(K, M, new)
  BY <1>5, <1>10, <1>14, <1>15 DEF IsTree
<1> QED  BY <1>5, <1>16 DEF Alike

-----------------------------------------------------------------------------
(* What the operators on the ORAM keep of the nodes: values and links.       *)

\* The newest copy of a node is the only one: it is in the cache, or in a bucket
\* that was not read yet or is written back already.
IsLive(m, b) == b \notin m.readview \/ b \in m.writeview
Unshared(B, st, m) ==
  \A b \in B : IsLive(m, b) => \A k \in DOMAIN st[b] :
    /\ k \notin DOMAIN m.cache
    /\ \A c \in B : IsLive(m, c) /\ k \in DOMAIN st[c] => b = c
Apart(m) == Unshared(Buckets, store, m)

\* What was read will be written back.
Listed(m) == m.lost \/ m.readview \subseteq Paths(m.leafList)

\* From m to n nodes keep their values, and those not in C their links; a node
\* new in the cache is that of a bucket just read.
Same(m, n, C) ==
  /\ m.readview \subseteq n.readview
  /\ \A k \in DOMAIN m.cache : /\ n.cache[k].value = m.cache[k].value
                               /\ k \notin C => n.cache[k].kid = m.cache[k].kid
  /\ \A k \in DOMAIN n.cache \ DOMAIN m.cache :
       \E b \in n.readview \ m.readview : /\ k \in DOMAIN store[b]
                                          /\ n.cache[k].value = store[b][k].value
                                          /\ n.cache[k].kid = store[b][k].kid

Keeps(m, n, C) == Grown(m, n) /\ Same(m, n, C) /\ (m.lost => n.lost) /\ (Listed(m) => Listed(n))

\* Blocks are read from m to n: they are not changed.
Reads(m, n) ==
  /\ m.readview \subseteq n.readview /\ DOMAIN m.cache \subseteq DOMAIN n.cache
  /\ \A k \in DOMAIN m.cache : n.cache[k] = m.cache[k]
  /\ \A k \in DOMAIN n.cache \ DOMAIN m.cache :
       \E b \in n.readview \ m.readview : k \in DOMAIN store[b] /\ n.cache[k] = store[b][k]

LEMMA FetchPathsIsSame ==
  ASSUME NEW m, IsORAM(m), NEW S
  PROVE  LET n == FetchPaths(m, S)
         IN  Same(m, n, {}) /\ Reads(m, n) /\ n.lost = m.lost
<1> DEFINE n == FetchPaths(m, S)
           new == Paths(S) \ m.readview
           found == UNION {DOMAIN store[b] : b \in new}
           Home(k) == CHOOSE b \in new : k \in DOMAIN store[b]
           C == [k \in DOMAIN m.cache \cup found |->
                   IF k \in DOMAIN m.cache THEN m.cache[k] ELSE store[Home(k)][k]]
<1>1. n = [m EXCEPT !.readview = @ \cup new, !.cache = C]
  BY DEF FetchPaths
<1>2. \A k \in found : Home(k) \in new /\ k \in DOMAIN store[Home(k)]
  OBVIOUS
<1>3. /\ DOMAIN C = DOMAIN m.cache \cup found
      /\ \A k \in DOMAIN m.cache : C[k] = m.cache[k]
      /\ \A k \in found \ DOMAIN m.cache : C[k] = store[Home(k)][k]
  OBVIOUS
<1> HIDE DEF C, found, Home, new, n
<1>4. n.readview = m.readview \cup new /\ n.cache = C /\ n.lost = m.lost
  BY <1>1 DEF IsORAM
<1>5. new \cap m.readview = {}
  BY DEF new
<1>6. ASSUME NEW k \in DOMAIN n.cache \ DOMAIN m.cache
      PROVE  \E b \in n.readview \ m.readview :
               k \in DOMAIN store[b] /\ n.cache[k] = store[b][k]
  <2>1. k \in found \ DOMAIN m.cache
    BY <1>3, <1>4
  <2>2. Home(k) \in n.readview \ m.readview
    BY <1>2, <1>4, <1>5, <2>1
  <2> QED  BY <1>2, <1>3, <1>4, <2>1, <2>2
<1>7. \A k \in DOMAIN m.cache : n.cache[k] = m.cache[k]
  BY <1>3, <1>4
<1>8. Same(m, n, {}) /\ Reads(m, n)
  BY <1>3, <1>4, <1>6, <1>7 DEF Same, Reads
<1> QED  BY <1>4, <1>8 DEF n

LEMMA FetchPathIsSame ==
  ASSUME NEW m, Good(m), StoreOK, NEW leaf \in Leaves
  PROVE  LET n == FetchPath(m, leaf)
         IN  /\ Same(m, n, {}) /\ Reads(m, n) /\ n.lost = m.lost /\ n.leafList = m.leafList
             /\ n.readview = m.readview \cup Path(leaf) /\ n.modified = m.modified
<1> DEFINE f == FetchPaths(m, {leaf})
           n == FetchPath(m, leaf)
<1>1. Same(m, f, {}) /\ Reads(m, f) /\ f.lost = m.lost
  BY FetchPathsIsSame DEF Good
<1>2. /\ IsORAM(f) /\ f.readview = m.readview \cup Paths({leaf})
      /\ f.leafList = m.leafList /\ f.modified = m.modified
  BY FetchPathsIsGood DEF Good
<1>3. n = [f EXCEPT !.readCnt = @ + 1]
  BY DEF FetchPath
<1> HIDE DEF f, n
<1>4. /\ n.cache = f.cache /\ n.readview = f.readview /\ n.lost = f.lost
      /\ n.leafList = f.leafList /\ n.modified = f.modified
  BY Zenon, <1>2, <1>3 DEF IsORAM
<1>5. Paths({leaf}) = Path(leaf)
  BY DEF Paths
<1>6. Same(m, n, {}) /\ Reads(m, n)
  BY <1>1, <1>4 DEF Same, Reads
<1> QED  BY <1>1, <1>2, <1>4, <1>5, <1>6 DEF n

LEMMA SameTwice ==
  ASSUME NEW m, NEW n, NEW o, NEW C, NEW D,
         DOMAIN m.cache \subseteq DOMAIN n.cache, DOMAIN n.cache \subseteq DOMAIN o.cache,
         Same(m, n, C), Same(n, o, D), D \subseteq DOMAIN m.cache
  PROVE  Same(m, o, C \cup D)
<1>1. m.readview \subseteq o.readview
  BY DEF Same
<1>2. \A k \in DOMAIN m.cache : /\ o.cache[k].value = m.cache[k].value
                                /\ k \notin C \cup D => o.cache[k].kid = m.cache[k].kid
  BY DEF Same
<1>3. ASSUME NEW k \in DOMAIN o.cache \ DOMAIN m.cache
      PROVE  \E b \in o.readview \ m.readview : /\ k \in DOMAIN store[b]
                                                /\ o.cache[k].value = store[b][k].value
                                                /\ o.cache[k].kid = store[b][k].kid
  <2>1. CASE k \in DOMAIN n.cache
    <3>1. PICK b \in n.readview \ m.readview : /\ k \in DOMAIN store[b]
                                               /\ n.cache[k].value = store[b][k].value
                                               /\ n.cache[k].kid = store[b][k].kid
      BY <1>3, <2>1 DEF Same
    <3>2. o.cache[k].value = n.cache[k].value /\ o.cache[k].kid = n.cache[k].kid
      BY <1>3, <2>1 DEF Same
    <3>3. b \in o.readview \ m.readview
      BY DEF Same
    <3> QED  BY <3>1, <3>2, <3>3
  <2>2. CASE k \notin DOMAIN n.cache
    <3>1. PICK b \in o.readview \ n.readview : /\ k \in DOMAIN store[b]
                                               /\ o.cache[k].value = store[b][k].value
                                               /\ o.cache[k].kid = store[b][k].kid
      BY <1>3, <2>2 DEF Same
    <3>2. b \in o.readview \ m.readview
      BY DEF Same
    <3> QED  BY <3>1, <3>2
  <2> QED  BY <2>1, <2>2
<1> QED  BY <1>1, <1>2, <1>3 DEF Same

LEMMA KeepsTwice ==
  ASSUME NEW m, NEW n, NEW o, NEW C, NEW D,
         Keeps(m, n, C), Keeps(n, o, D), D \subseteq DOMAIN m.cache
  PROVE  Keeps(m, o, C \cup D)
<1>1. Grown(m, n) /\ Grown(n, o)
  BY DEF Keeps
<1>2. Same(m, o, C \cup D)
  BY <1>1, SameTwice DEF Keeps, Grown
<1>3. Grown(m, o)
  BY <1>1, GrownTwice
<1> QED  BY <1>2, <1>3 DEF Keeps

\* A step that changes no link.
LEMMA KeepsThen ==
  ASSUME NEW m, NEW n, NEW o, NEW C, Keeps(m, n, C), Keeps(n, o, {})
  PROVE  Keeps(m, o, C)
<1>1. Keeps(m, o, C \cup {})
  BY KeepsTwice
<1>2. C \cup {} = C
  OBVIOUS
<1> QED  BY <1>1, <1>2

LEMMA KeepsSelf ==
  ASSUME NEW m, Good(m)
  PROVE  Keeps(m, m, {})
BY DEF Keeps, Grown, Same

\* A change of one node in place keeps its value, and all links but its own.
LEMMA NodeChangeKeeps ==
  ASSUME NEW m, Good(m), NEW k \in DOMAIN m.cache, NEW node \in Nodes,
         node.value = m.cache[k].value,
         NEW n, Grown(m, n), n.cache = [m.cache EXCEPT ![k] = node],
         n.readview = m.readview, n.leafList = m.leafList, m.lost => n.lost
  PROVE  Keeps(m, n, {k}) /\ (node.kid = m.cache[k].kid => Keeps(m, n, {}))
<1>1. DOMAIN n.cache = DOMAIN m.cache /\ n.cache[k] = node
      /\ \A j \in DOMAIN m.cache \ {k} : n.cache[j] = m.cache[j]
  OBVIOUS
<1>2. Same(m, n, {k}) /\ (node.kid = m.cache[k].kid => Same(m, n, {}))
  BY <1>1 DEF Same
<1>3. Listed(m) => Listed(n)
  BY DEF Listed
<1> QED  BY <1>2, <1>3 DEF Keeps

LEMMA ReadNodeKeeps ==
  ASSUME NEW m, Good(m), StoreOK, NEW k \in NodeKey, NEW pos, Placing(k, pos)
  PROVE  Keeps(m, ReadNode(m, k, pos), {})
<1> DEFINE f == IF k \in DOMAIN m.cache /\ pos \in m.leafList THEN m ELSE FetchPath(m, pos)
           n == ReadNode(m, k, pos)
<1>1. CASE k = 0
  BY <1>1, KeepsSelf DEF ReadNode
<1>2. CASE k # 0
  <2>1. pos \in Leaves /\ k \in Key
    BY <1>2 DEF Placing, NodeKey
  <2>2. Grown(m, n)
    BY ReadNodeIsGood
  <2>3. /\ Good(f) /\ Same(m, f, {}) /\ f.lost = m.lost /\ f.leafList = m.leafList
        /\ f.readview \subseteq m.readview \cup Path(pos)
        /\ DOMAIN m.cache \subseteq DOMAIN f.cache
    <3>1. CASE k \in DOMAIN m.cache /\ pos \in m.leafList
      <4>1. f = m
        BY <3>1
      <4> QED  BY <4>1, KeepsSelf DEF Keeps
    <3>2. CASE ~(k \in DOMAIN m.cache /\ pos \in m.leafList)
      <4>1. f = FetchPath(m, pos)
        BY <3>2
      <4> QED  BY <2>1, <4>1, FetchPathIsGood, FetchPathIsSame DEF Grown
    <3> QED  BY <3>1, <3>2
  <2>4. n = IF k \notin DOMAIN f.cache THEN [f EXCEPT !.lost = TRUE]
            ELSE [f EXCEPT !.cache[k].pos = pos,
                           !.leafList = @ \cup {pos}, !.modified = @ \cup {k}]
    BY <1>2 DEF ReadNode
  <2> HIDE DEF f, n
  <2>5. f \in Record(f.cache) /\ Blocks(f.cache)
    BY <2>3, GoodFields
  <2>6. /\ n.readview = f.readview
        /\ IF k \notin DOMAIN f.cache THEN n.lost /\ n.cache = f.cache
           ELSE /\ n.lost = f.lost /\ n.leafList = f.leafList \cup {pos}
                /\ n.cache = [f.cache EXCEPT ![k] = [@ EXCEPT !.pos = pos]]
    <3>1. CASE k \notin DOMAIN f.cache
      BY <2>4, <2>5, <3>1 DEF Record
    <3>2. CASE k \in DOMAIN f.cache
      BY <2>4, <2>5, <3>2 DEF Record
    <3> QED  BY <3>1, <3>2
  <2>7. \A j \in DOMAIN f.cache : n.cache[j].value = f.cache[j].value /\ n.cache[j].kid = f.cache[j].kid
    <3>1. CASE k \notin DOMAIN f.cache
      BY <2>6, <3>1
    <3>2. CASE k \in DOMAIN f.cache
      <4>1. f.cache[k] \in Nodes
        BY <2>3, <3>2, NodeAt
      <4>2. /\ [f.cache[k] EXCEPT !.pos = pos].value = f.cache[k].value
            /\ [f.cache[k] EXCEPT !.pos = pos].kid = f.cache[k].kid
        BY <4>1, NodeFields
      <4> QED  BY Zenon, <2>6, <3>2, <4>2
    <3> QED  BY <3>1, <3>2
  <2>8. DOMAIN n.cache = DOMAIN f.cache
    BY <2>6
  <2>9. Same(m, n, {})
    <3>1. Same(f, n, {})
      BY <2>6, <2>7, <2>8 DEF Same
    <3>2. Same(m, n, {} \cup {})
      BY <2>3, <2>8, <3>1, SameTwice
    <3> QED  BY <3>2
  <2>10. m.lost => n.lost
    BY Zenon, <2>3, <2>6
  <2>11. Listed(m) => Listed(n)
    <3>1. Paths(m.leafList \cup {pos}) = Paths(m.leafList) \cup Path(pos)
      BY DEF Paths
    <3> QED  BY Zenon, <2>3, <2>6, <3>1 DEF Listed
  <2> QED  BY <2>2, <2>9, <2>10, <2>11 DEF Keeps, n
<1> QED  BY <1>1, <1>2

\* The links new are the links old with c on side s.
Relinked(old, new, s, c) == new[s] = c /\ \A r \in Side : r # s => new[r] = old[r]

LEMMA LinkKeeps ==
  ASSUME NEW m, Good(m), NEW n \in DOMAIN m.cache, NEW s \in Side,
         NEW c \in NodeKey, NEW pos \in Leaves \cup {NoPos}, Placing(c, pos)
  PROVE  LET l == Link(m, n, s, c, pos)
         IN  /\ Keeps(m, l, {n}) /\ DOMAIN l.cache = DOMAIN m.cache
             /\ Relinked(m.cache[n].kid, l.cache[n].kid, s, c)
<1> DEFINE l == Link(m, n, s, c, pos)
           old == m.cache[n]
           node == [old EXCEPT !.kid[s] = c, !.kidPos[s] = pos]
<1>1. m \in Record(m.cache) /\ Blocks(m.cache)
  BY GoodFields
<1>2. old \in Nodes
  BY NodeAt
<1>3. /\ old \in [value : Value, pos : Leaves, height : Nat,
                  kid : [Side -> NodeKey], kidPos : [Side -> Leaves \cup {NoPos}]]
      /\ \A r \in Side : Placing(old.kid[r], old.kidPos[r])
  BY <1>2, NodeFields
<1>4. /\ node \in [value : Value, pos : Leaves, height : Nat,
                   kid : [Side -> NodeKey], kidPos : [Side -> Leaves \cup {NoPos}]]
      /\ node.kid = [old.kid EXCEPT ![s] = c] /\ node.kidPos = [old.kidPos EXCEPT ![s] = pos]
      /\ node.value = old.value
  BY Zenon, <1>3
<1>5. \A r \in Side : Placing(node.kid[r], node.kidPos[r])
  BY <1>3, <1>4
<1>6. node \in Nodes
  BY Zenon, <1>4, <1>5 DEF Nodes
<1>7. l = [m EXCEPT !.cache[n] = node]
  BY Zenon, <1>1, <1>3 DEF Link, Record, Blocks
<1>8. Grown(m, l) /\ DOMAIN l.cache = DOMAIN m.cache
  BY LinkIsGood
<1> HIDE DEF l, node
<1>9. /\ l.cache = [m.cache EXCEPT ![n] = node] /\ l.readview = m.readview
      /\ l.leafList = m.leafList /\ l.lost = m.lost
  BY <1>1, <1>7 DEF Record
<1>10. Keeps(m, l, {n})
  BY <1>4, <1>6, <1>8, <1>9, NodeChangeKeeps
<1>11. Relinked(old.kid, l.cache[n].kid, s, c)
  BY <1>3, <1>4, <1>9 DEF Relinked
<1> QED  BY <1>8, <1>10, <1>11 DEF l

LEMMA ReadKidKeeps ==
  ASSUME NEW m, Good(m), StoreOK, NEW n \in DOMAIN m.cache, NEW s \in Side
  PROVE  Keeps(m, ReadKid(m, n, s), {})
<1>1. m.cache[n].kid[s] \in NodeKey /\ Placing(m.cache[n].kid[s], m.cache[n].kidPos[s])
  BY NodeAt, NodeFields
<1> QED  BY <1>1, ReadNodeKeeps DEF ReadKid

LEMMA SetHeightKeeps ==
  ASSUME NEW m, Good(m), StoreOK, NEW n \in DOMAIN m.cache
  PROVE  Keeps(m, SetHeight(m, n), {})
<1> DEFINE m0 == ReadKid(m, n, "l")
           m1 == ReadKid(m0, n, "r")
           l == Height(m1, m.cache[n].kid["l"])
           r == Height(m1, m.cache[n].kid["r"])
           h == 1 + (IF l > r THEN l ELSE r)
           node == [m1.cache[n] EXCEPT !.height = h]
           o == SetHeight(m, n)
<1>1. Keeps(m, m0, {})
  BY ReadKidKeeps
<1>2. Good(m0) /\ n \in DOMAIN m0.cache
  BY <1>1 DEF Keeps, Grown
<1> HIDE DEF m0
<1>3. Keeps(m0, m1, {})
  BY <1>2, ReadKidKeeps
<1>4. Good(m1) /\ n \in DOMAIN m1.cache
  BY <1>2, <1>3 DEF Keeps, Grown
<1> HIDE DEF m1
<1>5. l \in Nat /\ r \in Nat
  BY <1>4, HeightIsNat
<1>6. h \in Nat
  BY <1>5
<1>7. o = [m1 EXCEPT !.cache[n].height = h, !.modified = @ \cup {n}]
  BY DEF SetHeight, m1, m0
<1> HIDE DEF l, r, h, o
<1>8. m1 \in Record(m1.cache) /\ Blocks(m1.cache)
  BY <1>4, GoodFields
<1>9. node \in Nodes /\ node.value = m1.cache[n].value /\ node.kid = m1.cache[n].kid
  BY <1>4, <1>6, NodeAt DEF Nodes
<1>10. o = [m1 EXCEPT !.cache[n] = node, !.modified = @ \cup {n}]
  BY <1>4, <1>7, <1>8 DEF Record
<1> HIDE DEF node
<1>11. Grown(m1, o)
  BY Zenon, <1>4, <1>9, <1>10, NodeNotedIsGood
<1>12. /\ o.cache = [m1.cache EXCEPT ![n] = node] /\ o.readview = m1.readview
       /\ o.leafList = m1.leafList /\ o.lost = m1.lost
  BY <1>8, <1>10 DEF Record
<1>13. Keeps(m1, o, {})
  BY Zenon, <1>4, <1>9, <1>11, <1>12, NodeChangeKeeps
<1> QED  BY <1>1, <1>3, <1>13, KeepsThen DEF o

LEMMA KeepsMore ==
  ASSUME NEW m, NEW n, NEW C, NEW D, Keeps(m, n, C), C \subseteq D
  PROVE  Keeps(m, n, D)
<1>1. Same(m, n, D)
  BY DEF Keeps, Same
<1> QED  BY <1>1 DEF Keeps

\* What stays whatever becomes of the links: the values.
LEMMA KeepsValues ==
  ASSUME NEW m, NEW n, NEW C, Keeps(m, n, C)
  PROVE  Keeps(m, n, DOMAIN m.cache)
<1>1. Same(m, n, DOMAIN m.cache)
  BY DEF Keeps, Same
<1> QED  BY <1>1 DEF Keeps

\* From m to o the node x below y on side s took the place of y.
Turned(m, o, y, s) ==
  LET x == m.cache[y].kid[s]
  IN  /\ x \in DOMAIN m.cache
      /\ Keeps(m, o, {x, y})
      /\ Relinked(m.cache[x].kid, o.cache[x].kid, Other(s), y)
      /\ Relinked(m.cache[y].kid, o.cache[y].kid, s, m.cache[x].kid[Other(s)])

LEMMA RotateKeeps ==
  ASSUME NEW m, Good(m), StoreOK, NEW y \in DOMAIN m.cache, NEW s \in Side,
         m.cache[y].kid[s] # y
  PROVE  LET o == Rotate(m, y, s)
         IN  Keeps(m, o, {m.cache[y].kid[s], y}) /\ (o.lost \/ Turned(m, o, y, s))
<1> DEFINE x == m.cache[y].kid[s]
           t == m.cache[x].kid[Other(s)]
           tPos == IF t = 0 THEN NoPos ELSE m.cache[t].pos
           m0 == Link(m, x, Other(s), y, m.cache[y].pos)
           m1 == Link(m0, y, s, t, tPos)
           o == Rotate(m, y, s)
<1>1. Other(s) \in Side
  BY DEF Other
<1>2. CASE x \notin DOMAIN m.cache \/ t \notin DOMAIN m.cache \cup {0}
  <2>1. o = [m EXCEPT !.lost = TRUE]
    BY Zenon, <1>2 DEF Rotate
  <2>2. m \in Record(m.cache) /\ Blocks(m.cache) /\ Paths(m.leafList) \subseteq m.readview
    BY GoodFields
  <2>3. Grown(m, o)
    BY RotateIsGood
  <2> HIDE DEF o, x, t
  <2>4. o.cache = m.cache /\ o.leafList = m.leafList /\ o.readview = m.readview /\ o.lost
    BY <2>1, <2>2 DEF Record
  <2>5. Keeps(m, o, {x, y})
    BY <2>3, <2>4 DEF Keeps, Same, Listed
  <2> QED  BY <2>4, <2>5 DEF o, x
<1>3. CASE x \in DOMAIN m.cache /\ t \in DOMAIN m.cache \cup {0}
  <2>1. o = SetHeight(SetHeight(m1, y), x)
    BY Zenon, <1>3 DEF Rotate
  <2>2. y \in NodeKey /\ m.cache[y].pos \in Leaves /\ Placing(y, m.cache[y].pos)
    BY NodeAt, NodeFields DEF NodeKey, Placing
  <2>3. t \in NodeKey /\ tPos \in Leaves \cup {NoPos} /\ Placing(t, tPos)
    <3> HIDE DEF t
    <3>1. CASE t = 0
      BY <3>1 DEF NodeKey, Placing
    <3>2. CASE t # 0
      <4>1. t \in Key /\ m.cache[t] \in Nodes
        BY <1>3, <3>2, NodeAt
      <4>2. m.cache[t].pos \in Leaves
        BY <4>1, NodeFields
      <4> QED  BY <3>2, <4>1, <4>2 DEF NodeKey, Placing
    <3> QED  BY <3>1, <3>2
  <2>4. /\ m.cache[x].kid \in [Side -> NodeKey] /\ m.cache[y].kid \in [Side -> NodeKey]
    BY <1>3, NodeAt, NodeFields
  <2>a. x # y /\ m.cache[x].kid[Other(s)] = t
    OBVIOUS
  <2> HIDE DEF t, tPos, x
  <2>5. /\ Keeps(m, m0, {x}) /\ DOMAIN m0.cache = DOMAIN m.cache
        /\ Relinked(m.cache[x].kid, m0.cache[x].kid, Other(s), y)
    BY Zenon, <1>1, <1>3, <2>2, LinkKeeps
  <2> HIDE DEF m0
  <2>6. Good(m0) /\ m0.cache[y].kid = m.cache[y].kid /\ y \in DOMAIN m0.cache
    BY <2>5, <2>a DEF Keeps, Grown, Same
  <2>7. /\ Keeps(m0, m1, {y}) /\ DOMAIN m1.cache = DOMAIN m0.cache
        /\ Relinked(m0.cache[y].kid, m1.cache[y].kid, s, t)
    BY Zenon, <2>3, <2>5, <2>6, LinkKeeps
  <2> HIDE DEF m1
  <2>8. Good(m1) /\ m1.cache[x].kid = m0.cache[x].kid /\ y \in DOMAIN m1.cache
    BY <1>3, <2>5, <2>7, <2>a DEF Keeps, Grown, Same
  <2> DEFINE m2 == SetHeight(m1, y)
  <2>9. Keeps(m1, m2, {})
    BY <2>5, <2>7, <2>8, SetHeightKeeps
  <2>10. Good(m2) /\ x \in DOMAIN m2.cache
    BY <1>3, <2>5, <2>7, <2>9 DEF Keeps, Grown
  <2> HIDE DEF m2
  <2>11. Keeps(m2, o, {})
    BY <2>1, <2>10, SetHeightKeeps DEF m2
  <2>12. Keeps(m, o, {x, y})
    <3>1. Keeps(m, m1, {x} \cup {y})
      BY <2>5, <2>7, KeepsTwice
    <3>2. {x} \cup {y} = {x, y}
      OBVIOUS
    <3> QED  BY <2>9, <2>11, <3>1, <3>2, KeepsThen
  <2>13. o.cache[x].kid = m1.cache[x].kid /\ o.cache[y].kid = m1.cache[y].kid
    <3>1. Keeps(m1, o, {})
      BY <2>9, <2>11, KeepsThen
    <3> QED  BY <1>3, <2>5, <2>7, <3>1 DEF Keeps, Same
  <2>14. Turned(m, o, y, s)
    <3>1. m.cache[y].kid[s] = x
      BY DEF x
    <3>2. /\ Relinked(m.cache[x].kid, o.cache[x].kid, Other(s), y)
          /\ Relinked(m.cache[y].kid, o.cache[y].kid, s, m.cache[x].kid[Other(s)])
      BY <2>5, <2>6, <2>7, <2>8, <2>13, <2>a
    <3> QED  BY <1>3, <2>12, <3>1, <3>2 DEF Turned
  <2> QED  BY <2>12, <2>14 DEF o, x
<1> QED  BY <1>2, <1>3

\* Rebalance turns the tree at n not at all, or once, or at the child and then at n.
Balances(m, n, o, top) ==
  \/ top = n /\ o = m
  \/ \E s \in Side : Turned(m, o, n, s) /\ top = m.cache[n].kid[s]
  \/ \E s \in Side : \E m1, m2 :
       LET c == m.cache[n].kid[s]
           g == m.cache[c].kid[Other(s)]
       IN  /\ c \in DOMAIN m.cache /\ Turned(m, m1, c, Other(s))
           /\ Keeps(m1, m2, {n}) /\ Relinked(m1.cache[n].kid, m2.cache[n].kid, s, g)
           /\ Turned(m2, o, n, s) /\ top = g

\* A node, its children and theirs are different nodes.
Distinct(m, n) ==
  \A r \in Side, u \in Side :
    LET c == m.cache[n].kid[r]
    IN  c # n /\ (c \in DOMAIN m.cache => m.cache[c].kid[u] \notin {c, n})

LEMMA RebalanceKeeps ==
  ASSUME NEW m, Good(m), StoreOK, NEW n \in DOMAIN m.cache, NEW k, Distinct(m, n)
  PROVE  LET up == Rebalance(m, n, k)
         IN  Keeps(m, up.m, DOMAIN m.cache) /\ (up.m.lost \/ Balances(m, n, up.m, up.top))
<1> DEFINE kid == m.cache[n].kid
           l == Height(m, kid["l"])
           r == Height(m, kid["r"])
           s == IF l - r > 1 THEN "l" ELSE "r"
           c == kid[s]
           g == m.cache[c].kid[Other(s)]
           m1 == Rotate(m, c, Other(s))
           m2 == Link(m1, n, s, g, m1.cache[g].pos)
           up == Rebalance(m, n, k)
<1>1. l \in Nat /\ r \in Nat /\ s \in Side /\ Other(s) \in Side
  BY HeightIsNat DEF Other
<1>2. \/ up = Result(m, n)
      \/ /\ l - r \notin -1..1
         /\ \/ up = Result(Rotate(m, n, s), c)
            \/ m1.lost /\ up = Result(m1, n)
            \/ ~m1.lost /\ up = Result(Rotate(m2, n, s), g)
  BY Zenon DEF Rebalance
<1>3. CASE up = Result(m, n)
  <2>1. up.m = m /\ up.top = n
    BY <1>3 DEF Result
  <2>2. Keeps(m, m, DOMAIN m.cache)
    BY KeepsSelf, KeepsMore
  <2> QED  BY <2>1, <2>2 DEF Balances
<1>4. CASE l - r \notin -1..1
  <2>1. c \in DOMAIN m.cache
    <3>1. l - r > 1 \/ r - l > 1
      BY <1>1, <1>4
    <3>2. CASE l - r > 1
      <4>1. l # 0
        BY <1>1, <3>2
      <4> QED  BY <3>2, <4>1 DEF Height
    <3>3. CASE r - l > 1
      <4>1. r # 0 /\ ~(l - r > 1)
        BY <1>1, <3>3
      <4> QED  BY <4>1 DEF Height
    <3> QED  BY <3>1, <3>2, <3>3
  <2> HIDE DEF l, r, s, up
  <2>a. c # n /\ g # c /\ g # n
    <3>1. s \in Side /\ Other(s) \in Side
      BY <1>1
    <3> QED  BY ZenonT(60), <2>1, <3>1 DEF Distinct
  <2>2. CASE up = Result(Rotate(m, n, s), c)
    <3>1. Keeps(m, Rotate(m, n, s), {c, n}) /\ (Rotate(m, n, s).lost \/ Turned(m, Rotate(m, n, s), n, s))
      BY Zenon, <1>1, <2>a, RotateKeeps
    <3>2. up.m = Rotate(m, n, s) /\ up.top = c
      BY <2>2 DEF Result
    <3>3. Keeps(m, up.m, DOMAIN m.cache)
      BY <3>1, <3>2, KeepsValues
    <3> QED  BY <1>1, <3>1, <3>2, <3>3 DEF Balances, up
  <2>3. Keeps(m, m1, {g, c}) /\ (m1.lost \/ Turned(m, m1, c, Other(s)))
    BY Zenon, <1>1, <2>1, <2>a, RotateKeeps
  <2>4. CASE m1.lost /\ up = Result(m1, n)
    <3>1. up.m = m1
      BY <2>4 DEF Result
    <3>2. Keeps(m, m1, DOMAIN m.cache)
      BY <2>3, KeepsValues
    <3> QED  BY <2>4, <3>1, <3>2 DEF up
  <2>5. CASE ~m1.lost /\ up = Result(Rotate(m2, n, s), g)
    <3>1. Turned(m, m1, c, Other(s)) /\ g \in DOMAIN m.cache
      BY Zenon, <2>3, <2>5 DEF Turned
    <3>2. Good(m1) /\ n \in DOMAIN m1.cache /\ g \in DOMAIN m1.cache
      BY Zenon, <2>3, <3>1 DEF Keeps, Grown
    <3> HIDE DEF g, c, m1
    <3>3. g \in Key /\ m1.cache[g] \in Nodes
      BY <3>2, NodeAt
    <3>4. g \in NodeKey /\ m1.cache[g].pos \in Leaves \cup {NoPos} /\ Placing(g, m1.cache[g].pos)
      BY <3>3, NodeFields DEF NodeKey, Placing
    <3>5. /\ Keeps(m1, m2, {n}) /\ DOMAIN m2.cache = DOMAIN m1.cache
          /\ Relinked(m1.cache[n].kid, m2.cache[n].kid, s, g)
      BY Zenon, <1>1, <3>2, <3>4, LinkKeeps
    <3>6. Good(m2) /\ n \in DOMAIN m2.cache
      BY <3>2, <3>5 DEF Keeps, Grown
    <3> HIDE DEF m2
    <3>7. m2.cache[n].kid[s] = g
      BY <3>5 DEF Relinked
    <3> DEFINE o == Rotate(m2, n, s)
    <3>8. Keeps(m2, o, {g, n}) /\ (o.lost \/ Turned(m2, o, n, s))
      BY Zenon, <1>1, <2>a, <3>6, <3>7, RotateKeeps
    <3> HIDE DEF o
    <3>9. Keeps(m, o, DOMAIN m.cache)
      <4>1. Keeps(m, m2, {g, c} \cup {n})
        BY <2>3, <3>5, KeepsTwice
      <4>2. Keeps(m, o, {g, c} \cup {n} \cup {g, n})
        BY <3>1, <3>8, <4>1, KeepsTwice
      <4> QED  BY <4>2, KeepsValues
    <3>10. up.m = o /\ up.top = g
      BY <2>5 DEF Result, o
    <3>11. ASSUME Turned(m2, o, n, s) PROVE Balances(m, n, o, g)
      <4>1. m.cache[n].kid[s] = c /\ m.cache[c].kid[Other(s)] = g
        BY DEF c, g
      <4> QED  BY Zenon, <1>1, <2>1, <3>1, <3>5, <3>11, <4>1 DEF Balances
    <3> QED  BY <3>8, <3>9, <3>10, <3>11 DEF up
  <2> QED  BY Zenon, <1>2, <1>3, <2>2, <2>4, <2>5 DEF up
<1> QED  BY Zenon, <1>2, <1>3, <1>4

-----------------------------------------------------------------------------
(* The newest copies, as a function of what the memory is made of.           *)

\* What was read and not written back is in the cache or written back elsewhere.
Covered(B, st, m) ==
  /\ m.writeview \subseteq B
  /\ \A b \in m.readview \ m.writeview : \A k \in DOMAIN st[b] :
       k \in DOMAIN m.cache \/ \E c \in m.writeview : k \in DOMAIN st[c]

NewestIn(B, st, m, k) ==
  IF k \in DOMAIN m.cache THEN m.cache[k]
  ELSE LET Holding(bs) == {b \in bs : k \in DOMAIN st[b]}
           written == Holding(m.writeview)
       IN  st[CHOOSE b \in IF written # {} THEN written ELSE Holding(B) : TRUE][k]

HaveIn(B, st, m) == DOMAIN m.cache \cup UNION {DOMAIN st[b] : b \in B}

LEMMA NewestIs ==
  ASSUME NEW B, NEW st, NEW m, Unshared(B, st, m), Covered(B, st, m), NEW k
  PROVE  /\ k \in DOMAIN m.cache => NewestIn(B, st, m, k) = m.cache[k]
         /\ \A b \in B : IsLive(m, b) /\ k \in DOMAIN st[b] => NewestIn(B, st, m, k) = st[b][k]
         /\ k \in HaveIn(B, st, m) =>
              k \in DOMAIN m.cache \/ \E b \in B : IsLive(m, b) /\ k \in DOMAIN st[b]
<1>1. k \in DOMAIN m.cache => NewestIn(B, st, m, k) = m.cache[k]
  BY DEF NewestIn
<1>2. ASSUME NEW b \in B, k \in DOMAIN st[b], k \notin DOMAIN m.cache
      PROVE  \E c \in B : IsLive(m, c) /\ k \in DOMAIN st[c]
  BY <1>2 DEF Covered, IsLive
<1>3. ASSUME NEW b \in B, IsLive(m, b), k \in DOMAIN st[b]
      PROVE  NewestIn(B, st, m, k) = st[b][k]
  <2> DEFINE written == {c \in m.writeview : k \in DOMAIN st[c]}
             holding == {c \in B : k \in DOMAIN st[c]}
             d == CHOOSE c \in IF written # {} THEN written ELSE holding : TRUE
  <2>1. k \notin DOMAIN m.cache
    BY <1>3 DEF Unshared
  <2>2. NewestIn(B, st, m, k) = st[d][k]
    BY <2>1 DEF NewestIn
  <2>3. CASE written # {}
    <3>1. d \in written
      BY <2>3
    <3>2. d \in B /\ IsLive(m, d) /\ k \in DOMAIN st[d]
      BY <3>1 DEF Covered, IsLive
    <3> HIDE DEF d
    <3>3. d = b
      BY <1>3, <3>2 DEF Unshared
    <3> QED  BY <2>2, <3>3
  <2>4. CASE written = {}
    <3>1. b \in holding
      BY <1>3
    <3>2. d \in holding
      BY <2>4, <3>1
    <3> HIDE DEF d
    <3>3. d \notin m.readview
      BY <2>1, <2>4, <3>2 DEF Covered
    <3>4. d = b
      BY <1>3, <3>2, <3>3 DEF Unshared, IsLive
    <3> QED  BY <2>2, <3>4
  <2> QED  BY <2>3, <2>4
<1>4. k \in HaveIn(B, st, m) => k \in DOMAIN m.cache \/ \E b \in B : IsLive(m, b) /\ k \in DOMAIN st[b]
  BY <1>2 DEF HaveIn
<1> QED  BY <1>1, <1>3, <1>4

Seen(m, k) == NewestIn(Buckets, store, m, k)
Have(m) == HaveIn(Buckets, store, m)

LEMMA GoodIsCovered ==
  ASSUME NEW m, Good(m)
  PROVE  Covered(Buckets, store, m) /\ m.writeview = {}
BY DEF Good, Held, Covered

\* What the operators keep, told of all nodes.
LEMMA KeepsSeen ==
  ASSUME NEW m, NEW n, NEW C, Good(m), Apart(m), Keeps(m, n, C)
  PROVE  /\ Apart(n) /\ Have(n) = Have(m)
         /\ \A k \in DOMAIN n.cache : Seen(n, k) = n.cache[k]
         /\ \A k \in DOMAIN m.cache : Seen(m, k) = m.cache[k]
         /\ \A k \in Have(m) : /\ Seen(n, k).value = Seen(m, k).value
                               /\ k \notin C \/ k \notin DOMAIN m.cache => Seen(n, k).kid = Seen(m, k).kid
<1>1. /\ Good(n) /\ Grown(m, n) /\ Same(m, n, C) /\ DOMAIN m.cache \subseteq DOMAIN n.cache
      /\ Covered(Buckets, store, m) /\ Covered(Buckets, store, n)
      /\ m.writeview = {} /\ n.writeview = {} /\ n.readview \subseteq Buckets
  BY GoodIsCovered DEF Keeps, Grown, Good, IsORAM
<1>2. Apart(n)
  <2>1. SUFFICES ASSUME NEW b \in Buckets, b \notin n.readview, NEW k \in DOMAIN store[b]
                 PROVE  /\ k \notin DOMAIN n.cache
                        /\ \A c \in Buckets : c \notin n.readview /\ k \in DOMAIN store[c] => b = c
    BY <1>1 DEF Apart, Unshared, IsLive
  <2>2. b \notin m.readview
    BY <1>1, <2>1 DEF Same
  <2>3. k \notin DOMAIN m.cache /\ \A c \in Buckets : c \notin m.readview /\ k \in DOMAIN store[c] => b = c
    BY <1>1, <2>1, <2>2 DEF Apart, Unshared, IsLive
  <2>4. k \notin DOMAIN n.cache
    <3>1. SUFFICES ASSUME k \in DOMAIN n.cache PROVE FALSE
      OBVIOUS
    <3>2. PICK c \in n.readview \ m.readview : k \in DOMAIN store[c]
      BY <1>1, <2>3, <3>1 DEF Same
    <3> QED  BY <1>1, <2>1, <2>3, <3>2
  <2> QED  BY <1>1, <2>3, <2>4 DEF Same
<1>3. Have(n) = Have(m)
  <2>1. \A k \in DOMAIN n.cache : k \in Have(m)
    <3> SUFFICES ASSUME NEW k \in DOMAIN n.cache PROVE k \in Have(m)
      OBVIOUS
    <3>1. CASE k \in DOMAIN m.cache
      BY <3>1 DEF Have, HaveIn
    <3>2. CASE k \notin DOMAIN m.cache
      <4>1. PICK b \in n.readview : k \in DOMAIN store[b]
        BY <1>1, <3>2 DEF Same
      <4> QED  BY <1>1, <4>1 DEF Have, HaveIn
    <3> QED  BY <3>1, <3>2
  <2> QED  BY <1>1, <2>1 DEF Have, HaveIn
<1>4. \A k \in DOMAIN n.cache : Seen(n, k) = n.cache[k]
  BY <1>1, <1>2, NewestIs DEF Seen, Apart
<1>5. \A k \in DOMAIN m.cache : Seen(m, k) = m.cache[k]
  BY <1>1, NewestIs DEF Seen, Apart
<1>6. ASSUME NEW k \in Have(m)
      PROVE  /\ Seen(n, k).value = Seen(m, k).value
             /\ k \notin C \/ k \notin DOMAIN m.cache => Seen(n, k).kid = Seen(m, k).kid
  <2>1. CASE k \in DOMAIN m.cache
    BY <1>1, <1>4, <1>5, <2>1 DEF Same
  <2>2. CASE k \notin DOMAIN m.cache
    <3>1. PICK b \in Buckets : IsLive(m, b) /\ k \in DOMAIN store[b]
      BY <1>1, <1>6, <2>2, NewestIs DEF Have, Apart
    <3>2. Seen(m, k) = store[b][k]
      BY <1>1, <3>1, NewestIs DEF Seen, Apart
    <3>3. CASE k \in DOMAIN n.cache
      <4>1. PICK c \in n.readview \ m.readview : /\ k \in DOMAIN store[c]
                                                 /\ n.cache[k].value = store[c][k].value
                                                 /\ n.cache[k].kid = store[c][k].kid
        BY <1>1, <2>2, <3>3 DEF Same
      <4>2. c = b
        BY <1>1, <3>1, <4>1 DEF Apart, Unshared, IsLive
      <4> QED  BY <1>4, <3>2, <3>3, <4>1, <4>2
    <3>4. CASE k \notin DOMAIN n.cache
      <4>1. b \notin n.readview
        BY <1>1, <3>1, <3>4 DEF Good, Held
      <4>2. Seen(n, k) = store[b][k]
        BY <1>1, <1>2, <3>1, <4>1, NewestIs DEF Seen, Apart, IsLive
      <4> QED  BY <3>2, <4>2
    <3> QED  BY <3>3, <3>4
  <2> QED  BY <2>1, <2>2
<1> QED  BY <1>2, <1>3, <1>4, <1>5, <1>6

LEMMA NewestNext ==
  ASSUME geo' = geo
  PROVE  /\ Stored = Have(oram) /\ Stored' = HaveIn(Buckets, store', oram')
         /\ \A k : Newest(k) = Seen(oram, k)
         /\ \A k : Newest(k)' = NewestIn(Buckets, store', oram', k)
         /\ Apart(oram)' <=> Unshared(Buckets, store', oram')
<1>1. Buckets' = Buckets
  BY GeoKept
<1> QED  BY <1>1 DEF Stored, Have, HaveIn, Newest, Seen, NewestIn, Apart

-----------------------------------------------------------------------------
(* An insert's way down the tree and back.                                   *)

\* The nodes above, the nearest first; the last is 0.
Up(p, i) == IF i \in 1..Len(p) THEN p[i] ELSE 0
Steps(p) == 1..(Len(p) + 1)

\* p is the way down to the node top on the way to k.
Chain(K, L, span, p, k, top) ==
  /\ \A i \in Steps(p) : Up(p, i) \in K \cup {0} /\ k \in Below(span, Up(p, i), SideOf(k, Up(p, i)))
  /\ \A i \in 1..Len(p) : L[Up(p, i + 1)][SideOf(k, Up(p, i + 1))] = Up(p, i)
  /\ \A i \in Steps(p), j \in Steps(p) : i < j => Inside(span, Up(p, i), Up(p, j))
  /\ L[Up(p, 1)][SideOf(k, Up(p, 1))] = top

LEMMA UpFacts ==
  ASSUME NEW p \in Seq(Key)
  PROVE  /\ Len(p) \in Nat /\ 1 \in Steps(p)
         /\ \A k \in Key : LET q == <<k>> \o p
                           IN  /\ q \in Seq(Key) /\ Len(q) = Len(p) + 1 /\ Up(q, 1) = k
                               /\ \A i \in Steps(p) : Up(q, i + 1) = Up(p, i)
         /\ p # <<>> => /\ Tail(p) \in Seq(Key) /\ Len(Tail(p)) = Len(p) - 1 /\ Up(p, 1) = Head(p)
                        /\ Head(p) \in Key
                        /\ \A i \in Steps(Tail(p)) : Up(Tail(p), i) = Up(p, i + 1)
<1>1. Len(p) \in Nat /\ 1 \in Steps(p)
  BY DEF Steps
<1>2. ASSUME NEW k \in Key
      PROVE  LET q == <<k>> \o p
             IN  /\ q \in Seq(Key) /\ Len(q) = Len(p) + 1 /\ Up(q, 1) = k
                 /\ \A i \in Steps(p) : Up(q, i + 1) = Up(p, i)
  <2> DEFINE q == <<k>> \o p
  <2>1. /\ q \in Seq(Key) /\ Len(q) = Len(p) + 1 /\ q[1] = k
        /\ \A i \in 1..Len(p) : q[i + 1] = p[i]
    OBVIOUS
  <2> HIDE DEF q
  <2> QED  BY <1>1, <2>1 DEF Up, Steps, q
<1>3. ASSUME p # <<>>
      PROVE  /\ Tail(p) \in Seq(Key) /\ Len(Tail(p)) = Len(p) - 1 /\ Up(p, 1) = Head(p)
             /\ Head(p) \in Key
             /\ \A i \in Steps(Tail(p)) : Up(Tail(p), i) = Up(p, i + 1)
  <2>1. /\ Tail(p) \in Seq(Key) /\ Len(Tail(p)) = Len(p) - 1 /\ Head(p) = p[1] /\ Len(p) >= 1
        /\ Head(p) \in Key
        /\ \A i \in 1..(Len(p) - 1) : Tail(p)[i] = p[i + 1]
    BY <1>3
  <2> DEFINE t == Tail(p)
  <2> HIDE DEF t
  <2>2. Len(t) = Len(p) - 1 /\ \A i \in 1..(Len(p) - 1) : t[i] = p[i + 1]
    BY <2>1 DEF t
  <2>3. \A i \in Steps(t) : Up(t, i) = Up(p, i + 1)
    BY <1>1, <2>1, <2>2 DEF Up, Steps
  <2> QED  BY <1>1, <2>1, <2>3 DEF Up, t
<1> QED  BY <1>1, <1>2, <1>3

\* The way begins at the root.
LEMMA ChainStart ==
  ASSUME NEW K, NEW L, NEW span, IsTree(K, L, span), NEW k \in Key
  PROVE  Chain(K, L, span, <<>>, k, L[0]["r"])
<1>1. Len(<<>>) = 0 /\ Steps(<<>>) = {1} /\ \A i : Up(<<>>, i) = 0
  BY DEF Up, Steps
<1>2. SideOf(k, 0) = "r" /\ k # 0 /\ span[0] = Key
  BY Sides DEF IsTree
<1> QED  BY <1>1, <1>2 DEF Chain, Below

\* The last link of the way: what is below it is on the side of k.
LEMMA ChainTop ==
  ASSUME NEW K, NEW L, NEW span, IsTree(K, L, span), NEW p \in Seq(Key), NEW k \in Key, NEW top,
         Chain(K, L, span, p, k, top)
  PROVE  /\ top \in K \cup {0}
         /\ top = 0 => k \notin K
         /\ top # 0 => k \in span[top] /\ \A i \in Steps(p) : Inside(span, top, Up(p, i))
<1> DEFINE n == Up(p, 1)
           s == SideOf(k, n)
<1>1. n \in K \cup {0} /\ s \in Side /\ k \in Below(span, n, s) /\ L[n][s] = top /\ 1 \in Steps(p)
  BY UpFacts, Sides DEF Chain
<1>2. Linked(K, L, span, n, s)
  BY <1>1 DEF IsTree
<1>3. \A i \in Steps(p) : i # 1 => Inside(span, n, Up(p, i))
  BY <1>1, UpFacts DEF Chain, Steps
<1> HIDE DEF n, s
<1>4. top \in K \cup {0} /\ (top = 0 => k \notin K)
  BY <1>1, <1>2 DEF Linked
<1>5. ASSUME top # 0 PROVE k \in span[top] /\ Inside(span, top, n)
  <2>1. top \in Below(span, n, s) /\ span[top] = Below(span, n, s)
    BY <1>1, <1>2, <1>5 DEF Linked
  <2> QED  BY <1>1, <2>1 DEF Inside, Below
<1>6. ASSUME top # 0, NEW i \in Steps(p), i # 1 PROVE Inside(span, top, Up(p, i))
  <2>1. Inside(span, n, Up(p, i)) /\ Inside(span, top, n) /\ top \in span[top]
    BY <1>3, <1>4, <1>5, <1>6 DEF IsTree
  <2> DEFINE m == Up(p, i)
  <2> HIDE DEF m
  <2>2. Inside(span, n, m) /\ Inside(span, top, n) /\ top \in span[top]
    BY <2>1 DEF m
  <2>3. top \in span[n] /\ span[top] \subseteq span[n] /\ span[n] \subseteq Below(span, m, SideOf(n, m))
    BY <2>2 DEF Inside, Below
  <2>4. SideOf(top, m) = SideOf(n, m) /\ top # m /\ top \in span[m]
    BY <2>3 DEF Below
  <2>5. Inside(span, top, m)
    BY <2>3, <2>4 DEF Inside
  <2> QED  BY <2>5 DEF m
<1> QED  BY <1>4, <1>5, <1>6 DEF n

\* One node further down.
LEMMA ChainDown ==
  ASSUME NEW K \in SUBSET Key, NEW L, NEW span, IsTree(K, L, span), NEW p \in Seq(Key), NEW k \in Key, NEW n,
         Chain(K, L, span, p, k, n), n # 0, n # k
  PROVE  Chain(K, L, span, <<n>> \o p, k, L[n][SideOf(k, n)])
<1> DEFINE q == <<n>> \o p
<1>1. n \in K /\ k \in span[n] /\ \A i \in Steps(p) : Inside(span, n, Up(p, i))
  BY ChainTop
<1>2. /\ q \in Seq(Key) /\ Len(q) = Len(p) + 1 /\ Up(q, 1) = n /\ Len(p) \in Nat
      /\ \A i \in Steps(p) : Up(q, i + 1) = Up(p, i)
  BY <1>1, UpFacts
<1> HIDE DEF q
<1>3. k \in Below(span, n, SideOf(k, n))
  BY <1>1 DEF Below
<1>4. \A i \in Steps(q) : i = 1 \/ (i - 1 \in Steps(p) /\ Up(q, i) = Up(p, i - 1))
  <2> SUFFICES ASSUME NEW i \in Steps(q), i # 1 PROVE i - 1 \in Steps(p) /\ Up(q, i) = Up(p, i - 1)
    OBVIOUS
  <2>1. i - 1 \in Steps(p) /\ (i - 1) + 1 = i
    BY <1>2 DEF Steps
  <2> QED  BY <1>2, <2>1
<1>5. \A i \in Steps(q) : /\ Up(q, i) \in K \cup {0}
                          /\ k \in Below(span, Up(q, i), SideOf(k, Up(q, i)))
  BY <1>1, <1>2, <1>3, <1>4 DEF Chain
<1>6. ASSUME NEW i \in 1..Len(q) PROVE L[Up(q, i + 1)][SideOf(k, Up(q, i + 1))] = Up(q, i)
  <2>1. i \in Steps(p) /\ Up(q, i + 1) = Up(p, i)
    BY <1>2 DEF Steps
  <2>2. CASE i = 1
    BY <1>2, <2>1, <2>2 DEF Chain
  <2>3. CASE i # 1
    <3>1. i - 1 \in 1..Len(p) /\ (i - 1) + 1 = i /\ i \in Steps(q)
      BY <1>2, <2>3 DEF Steps
    <3> QED  BY <1>4, <2>1, <2>3, <3>1 DEF Chain
  <2> QED  BY <2>2, <2>3
<1>7. ASSUME NEW i \in Steps(q), NEW j \in Steps(q), i < j PROVE Inside(span, Up(q, i), Up(q, j))
  <2>1. j # 1 /\ j - 1 \in Steps(p) /\ Up(q, j) = Up(p, j - 1) /\ (i # 1 => i - 1 < j - 1)
    BY <1>2, <1>4, <1>7 DEF Steps
  <2>2. CASE i = 1
    BY <1>1, <1>2, <2>1, <2>2
  <2>3. CASE i # 1
    BY <1>4, <2>1, <2>3 DEF Chain
  <2> QED  BY <2>2, <2>3
<1> QED  BY <1>2, <1>5, <1>6, <1>7 DEF Chain, q

\* One node further up.
LEMMA ChainUp ==
  ASSUME NEW K \in SUBSET Key, NEW L, NEW span, NEW p \in Seq(Key), p # <<>>, NEW k \in Key, NEW n,
         Chain(K, L, span, p, k, n)
  PROVE  Chain(K, L, span, Tail(p), k, Head(p))
<1> DEFINE q == Tail(p)
<1>1. /\ q \in Seq(Key) /\ Len(q) = Len(p) - 1 /\ Up(p, 1) = Head(p) /\ Len(p) \in Nat
      /\ \A i \in Steps(q) : Up(q, i) = Up(p, i + 1)
  BY UpFacts
<1>2. Len(p) > 0
  BY <1>1
<1> HIDE DEF q
<1>3. \A i \in Steps(q) : i + 1 \in Steps(p) /\ Up(q, i) = Up(p, i + 1)
  BY <1>1, <1>2 DEF Steps
<1>4. \A i \in Steps(q) : /\ Up(q, i) \in K \cup {0}
                          /\ k \in Below(span, Up(q, i), SideOf(k, Up(q, i)))
  BY <1>3 DEF Chain
<1>5. ASSUME NEW i \in 1..Len(q) PROVE L[Up(q, i + 1)][SideOf(k, Up(q, i + 1))] = Up(q, i)
  <2>1. i \in Steps(q) /\ i + 1 \in Steps(q) /\ i + 1 \in 1..Len(p)
    BY <1>1 DEF Steps
  <2> QED  BY <1>3, <2>1 DEF Chain
<1>6. ASSUME NEW i \in Steps(q), NEW j \in Steps(q), i < j PROVE Inside(span, Up(q, i), Up(q, j))
  <2>1. i + 1 < j + 1
    BY <1>6 DEF Steps
  <2> QED  BY <1>3, <2>1 DEF Chain
<1>7. L[Up(q, 1)][SideOf(k, Up(q, 1))] = Head(p)
  <2>1. 1 \in Steps(q) /\ 1 \in 1..Len(p)
    BY <1>1, <1>2 DEF Steps
  <2> QED  BY <1>1, <1>3, <2>1 DEF Chain
<1> QED  BY <1>4, <1>5, <1>6, <1>7 DEF Chain, q

\* The way is that of M and new as well, but for its last link.
SameWay(p, k, L, span, M, new) ==
  \A i \in Steps(p) :
    /\ new[Up(p, i)] = span[Up(p, i)]
    /\ i # 1 => M[Up(p, i)][SideOf(k, Up(p, i))] = L[Up(p, i)][SideOf(k, Up(p, i))]

\* What is below the way may change.
LEMMA ChainKept ==
  ASSUME NEW K, NEW L, NEW span, NEW p \in Seq(Key), NEW k \in Key, NEW n,
         Chain(K, L, span, p, k, n),
         NEW N, K \subseteq N, NEW M, NEW new, NEW top,
         SameWay(p, k, L, span, M, new),
         M[Up(p, 1)][SideOf(k, Up(p, 1))] = top
  PROVE  Chain(N, M, new, p, k, top)
<1> USE DEF SameWay
<1>1. \A i \in Steps(p) : \A s : Below(new, Up(p, i), s) = Below(span, Up(p, i), s)
  BY DEF Below
<1>2. Len(p) \in Nat
  OBVIOUS
<1>3. \A i \in Steps(p) : /\ Up(p, i) \in N \cup {0}
                          /\ k \in Below(new, Up(p, i), SideOf(k, Up(p, i)))
  BY <1>1 DEF Chain
<1>4. ASSUME NEW i \in 1..Len(p) PROVE M[Up(p, i + 1)][SideOf(k, Up(p, i + 1))] = Up(p, i)
  <2>1. i + 1 \in Steps(p) /\ i + 1 # 1
    BY <1>2 DEF Steps
  <2> QED  BY <2>1 DEF Chain
<1>5. ASSUME NEW i \in Steps(p), NEW j \in Steps(p), i < j PROVE Inside(new, Up(p, i), Up(p, j))
  <2>1. Inside(span, Up(p, i), Up(p, j))
    BY <1>5 DEF Chain
  <2> QED  BY <1>1, <2>1 DEF Inside
<1> QED  BY <1>3, <1>4, <1>5 DEF Chain

\* The way does not pass the same node twice, and not what is below it.
LEMMA ChainApart ==
  ASSUME NEW K, NEW L, NEW span, IsTree(K, L, span), NEW p \in Seq(Key), NEW k \in Key, NEW n,
         Chain(K, L, span, p, k, n)
  PROVE  /\ \A i \in Steps(p) : i # 1 => Up(p, i) # Up(p, 1)
         /\ n # 0 => \A i \in Steps(p) : Up(p, i) \notin span[n]
<1>1. \A i \in Steps(p) : i # 1 => Up(p, i) # Up(p, 1)
  <2> SUFFICES ASSUME NEW i \in Steps(p), i # 1 PROVE Up(p, i) # Up(p, 1)
    OBVIOUS
  <2>1. 1 < i /\ 1 \in Steps(p)
    BY UpFacts DEF Steps
  <2> QED  BY <2>1 DEF Chain, Inside
<1>2. n # 0 => \A i \in Steps(p) : Inside(span, n, Up(p, i))
  BY ChainTop
<1> QED  BY <1>1, <1>2 DEF Inside, Below

\* The same with all that Hang and Turn ask for in one place.
Hangs(K, L, M, span, n, s, k) ==
  /\ K \in SUBSET Key /\ n \in K \cup {0} /\ s \in Side /\ k \in Key \ K /\ k \in Below(span, n, s)
  /\ Hung(K, L, M, n, s, k)

LEMMA HangTree ==
  ASSUME NEW K, NEW L, NEW M, NEW span, NEW n, NEW s, NEW k,
         IsTree(K, L, span), Hangs(K, L, M, span, n, s, k)
  PROVE  \E new : IsTree(K \cup {k}, M, new) /\ Alike(span, new, k, k)
BY ZenonT(60), Hang DEF Hangs

Swings(K, L, M, p, t, y, s, x) ==
  /\ K \in SUBSET Key /\ p \in K \cup {0} /\ t \in Side /\ y \in K /\ s \in Side /\ x \in K
  /\ Swung(K, L, M, p, t, y, s, x)

LEMMA TurnTree ==
  ASSUME NEW K, NEW L, NEW M, NEW span, NEW p, NEW t, NEW y, NEW s, NEW x,
         IsTree(K, L, span), Swings(K, L, M, p, t, y, s, x)
  PROVE  \E new : IsTree(K, M, new) /\ Alike(span, new, x, y)
BY Turn DEF Swings

\* The new node is hung at the end of the way.
LEMMA ChainHang ==
  ASSUME NEW K \in SUBSET Key, NEW L, NEW span, IsTree(K, L, span), NEW p \in Seq(Key), NEW k \in Key,
         Chain(K, L, span, p, k, 0),
         NEW M, Hung(K, L, M, Up(p, 1), SideOf(k, Up(p, 1)), k)
  PROVE  k \notin K /\ \E new : IsTree(K \cup {k}, M, new) /\ Chain(K \cup {k}, M, new, p, k, k)
<1> DEFINE n == Up(p, 1)
           s == SideOf(k, n)
<1>1. n \in K \cup {0} /\ s \in Side /\ k \in Below(span, n, s) /\ L[n][s] = 0 /\ 1 \in Steps(p)
  BY UpFacts, Sides DEF Chain
<1>2. k \notin K
  BY ChainTop
<1>3. /\ \A i \in Steps(p) : Up(p, i) \in K \cup {0} /\ SideOf(k, Up(p, i)) \in Side
      /\ \A i \in Steps(p) : i # 1 => Up(p, i) # n
  BY ChainApart, Sides DEF Chain
<1>4. k # 0 /\ K \cup {0} \subseteq NodeKey
  BY Sides DEF NodeKey
<1> HIDE DEF n, s
<1>5. Hung(K, L, M, n, s, k)
  BY DEF n, s
<1>6. PICK new : IsTree(K \cup {k}, M, new) /\ Alike(span, new, k, k)
  <2>1. Hangs(K, L, M, span, n, s, k)
    BY <1>1, <1>2, <1>5 DEF Hangs
  <2> QED  BY Zenon, <2>1, HangTree
<1>7. \A i \in Steps(p) : new[Up(p, i)] = span[Up(p, i)]
  BY <1>2, <1>3, <1>4, <1>6 DEF Alike
<1>8. \A i \in Steps(p) : i # 1 => M[Up(p, i)][SideOf(k, Up(p, i))] = L[Up(p, i)][SideOf(k, Up(p, i))]
  BY <1>3, <1>5 DEF Hung
<1>9. M[Up(p, 1)][SideOf(k, Up(p, 1))] = k
  BY <1>1, <1>5 DEF n, s, Hung
<1>10. Chain(K \cup {k}, M, new, p, k, k)
  <2>1. K \subseteq K \cup {k}
    OBVIOUS
  <2>2. SameWay(p, k, L, span, M, new)
    BY <1>7, <1>8 DEF SameWay
  <2> QED  BY Zenon, <1>9, <2>1, <2>2, ChainKept
<1> QED  BY <1>2, <1>6, <1>10

TurnsAt(K, L, M, p, k, y, s, x) ==
  s \in Side /\ x \in K /\ Swung(K, L, M, Up(p, 1), SideOf(k, Up(p, 1)), y, s, x)

\* A rotation at the end of the way.
LEMMA ChainTurn ==
  ASSUME NEW K \in SUBSET Key, NEW L, NEW span, IsTree(K, L, span), NEW p \in Seq(Key), NEW k \in Key,
         NEW y \in K, Chain(K, L, span, p, k, y),
         NEW s, NEW x, NEW M, TurnsAt(K, L, M, p, k, y, s, x)
  PROVE  \E new : IsTree(K, M, new) /\ Chain(K, M, new, p, k, x)
<1> DEFINE n == Up(p, 1)
           t == SideOf(k, n)
<1>a. s \in Side /\ x \in K /\ Swung(K, L, M, n, t, y, s, x)
  BY DEF TurnsAt
<1>1. n \in K \cup {0} /\ t \in Side /\ L[n][t] = y /\ 1 \in Steps(p) /\ y # 0
  BY UpFacts, Sides DEF Chain
<1>2. /\ \A i \in Steps(p) : Up(p, i) \in K \cup {0} /\ SideOf(k, Up(p, i)) \in Side
      /\ \A i \in Steps(p) : i # 1 => Up(p, i) # n
      /\ \A i \in Steps(p) : Up(p, i) \notin span[y]
  BY <1>1, ChainApart, Sides DEF Chain
<1>3. x \in span[y] /\ y \in span[y]
  <2>1. Linked(K, L, span, y, s) /\ x # 0 /\ y \in span[y]
    BY <1>a, Sides DEF IsTree
  <2>2. L[y][s] = x
    BY <1>a DEF Swung
  <2> QED  BY <2>1, <2>2 DEF Linked, Below
<1>4. K \cup {0} \subseteq NodeKey
  BY DEF NodeKey
<1> HIDE DEF n, t
<1>5. s \in Side /\ x \in K /\ Swung(K, L, M, n, t, y, s, x)
  BY <1>a
<1>6. PICK new : IsTree(K, M, new) /\ Alike(span, new, x, y)
  <2>1. Swings(K, L, M, n, t, y, s, x)
    BY <1>1, <1>5 DEF Swings
  <2> QED  BY <2>1, TurnTree
<1>7. \A i \in Steps(p) : Up(p, i) # x /\ Up(p, i) # y
  BY <1>2, <1>3
<1>8. \A i \in Steps(p) : new[Up(p, i)] = span[Up(p, i)]
  BY <1>2, <1>4, <1>6, <1>7 DEF Alike
<1>9. \A i \in Steps(p) : i # 1 => M[Up(p, i)][SideOf(k, Up(p, i))] = L[Up(p, i)][SideOf(k, Up(p, i))]
  BY <1>2, <1>5, <1>7 DEF Swung
<1>10. M[Up(p, 1)][SideOf(k, Up(p, 1))] = x
  BY <1>1, <1>5 DEF n, t, Swung
<1>11. Chain(K, M, new, p, k, x)
  <2>1. K \subseteq K
    OBVIOUS
  <2>2. SameWay(p, k, L, span, M, new)
    BY <1>8, <1>9 DEF SameWay
  <2> QED  BY Zenon, <1>10, <2>1, <2>2, ChainKept
<1> QED  BY <1>6, <1>11

\* A rotation one link below the end of the way.
LEMMA ChainTurnBelow ==
  ASSUME NEW K \in SUBSET Key, NEW L, NEW span, IsTree(K, L, span), NEW p \in Seq(Key), NEW k \in Key,
         NEW n \in K, Chain(K, L, span, p, k, n),
         NEW t \in Side, NEW y \in K,
         NEW s \in Side, NEW x \in K, NEW M, Swung(K, L, M, n, t, y, s, x)
  PROVE  \E new : IsTree(K, M, new) /\ Chain(K, M, new, p, k, n)
<1>1. 0 \notin K
  BY Sides
<1>2. /\ \A i \in Steps(p) : Up(p, i) \in K \cup {0} /\ SideOf(k, Up(p, i)) \in Side
      /\ \A i \in Steps(p) : Up(p, i) \notin span[n]
      /\ 1 \in Steps(p)
  BY <1>1, ChainApart, UpFacts, Sides DEF Chain
<1>3. n \in span[n] /\ y \in span[n] /\ x \in span[n]
  <2>1. Linked(K, L, span, n, t) /\ Linked(K, L, span, y, s) /\ n \in span[n]
    BY DEF IsTree
  <2>2. L[n][t] = y /\ L[y][s] = x
    BY DEF Swung
  <2> HIDE DEF IsTree
  <2>3. y \in Below(span, n, t) /\ span[y] = Below(span, n, t) /\ x \in Below(span, y, s)
    BY <1>1, <2>1, <2>2 DEF Linked
  <2> QED  BY <2>1, <2>3 DEF Below
<1>4. K \cup {0} \subseteq NodeKey
  BY DEF NodeKey
<1>5. PICK new : IsTree(K, M, new) /\ Alike(span, new, x, y)
  <2>1. Swings(K, L, M, n, t, y, s, x)
    BY DEF Swings
  <2> QED  BY <2>1, TurnTree
<1>6. \A i \in Steps(p) : Up(p, i) # x /\ Up(p, i) # y /\ Up(p, i) # n
  BY <1>2, <1>3
<1>7. \A i \in Steps(p) : new[Up(p, i)] = span[Up(p, i)]
  BY <1>2, <1>4, <1>5, <1>6 DEF Alike
<1>8. \A i \in Steps(p) : M[Up(p, i)][SideOf(k, Up(p, i))] = L[Up(p, i)][SideOf(k, Up(p, i))]
  BY <1>2, <1>6 DEF Swung
<1>9. M[Up(p, 1)][SideOf(k, Up(p, 1))] = n
  BY <1>2, <1>8 DEF Chain
<1>10. Chain(K, M, new, p, k, n)
  <2>1. K \subseteq K
    OBVIOUS
  <2>2. SameWay(p, k, L, span, M, new)
    BY <1>7, <1>8 DEF SameWay
  <2> QED  BY Zenon, <1>9, <2>1, <2>2, ChainKept
<1> QED  BY <1>5, <1>10

-----------------------------------------------------------------------------
(* The oblivious map is a map: the invariant.                                *)

\* The child of n on side s; the right child of 0 is the root.
LinkIn(B, st, m, top, n, s) ==
  IF n = 0 THEN (IF s = "r" THEN top ELSE 0) ELSE NewestIn(B, st, m, n).kid[s]

\* L is the tree, apart from the link of p's nearest node that an insert on its way
\* up has still to set.
Shows(B, st, m, top, up, k, p, L) ==
  \A n \in HaveIn(B, st, m) \cup {0}, s \in Side :
    (up /\ n = Up(p, 1) /\ s = SideOf(k, n)) \/ L[n][s] = LinkIn(B, st, m, top, n, s)

\* Where an operation on k is in the tree: a search looks below top, an insert
\* came along the path to it.
Where(K, L, span, step, k, p, top) ==
  /\ step = "find" => /\ top \in K \cup {0}
                      /\ top = 0 => k \notin K
                      /\ top # 0 => k \in span[top]
  /\ step \in {"down", "up"} => Chain(K, L, span, p, k, top)

Searching ==
  pc \notin {"lost", "broken"} =>
    \E L, span : /\ Shows(Buckets, store, oram, root.key, pc = "up", op.key, path, L)
                 /\ IsTree(Stored, L, span)
                 /\ Where(Stored, L, span, pc, op.key, path, at.key)

Ready ==
  /\ oram.lost => pc \in {"lost", "broken"}
  /\ pc = "idle" => op = None
  /\ pc \in {"idle", "find", "down", "up"} => res = None
  /\ pc = "find" => op.do = "find"

MInv == IInv /\ Apart(oram) /\ Listed(oram) /\ Ready /\ Searching

\* What the operation has answered.
Answered == IF pc \in {"up", "broken", "finish", "write"} THEN [value |-> res] ELSE None

LEMMA ShowsKept ==
  ASSUME NEW m, NEW n, Good(m), Apart(m), Keeps(m, n, {}), NEW top, NEW k, NEW p, NEW L,
         Shows(Buckets, store, m, top, FALSE, k, p, L), NEW up, NEW q
  PROVE  Shows(Buckets, store, n, top, up, k, q, L)
<1>1. /\ Have(n) = Have(m)
      /\ \A i \in Have(m) : Seen(n, i).kid = Seen(m, i).kid
  BY KeepsSeen
<1> QED  BY <1>1 DEF Shows, LinkIn, Have, Seen

LEMMA StoredIsKeys == IInv => Stored \in SUBSET Key
BY DEF IInv, Memory, StoreOK, IsORAM, Blocks, Stored

\* A step that only reads, or sets links and heights.
LEMMA Moved ==
  ASSUME IInv, Apart(oram), Listed(oram), pc # "write", geo' = geo, store' = store,
         NEW C, Keeps(oram, oram', C)
  PROVE  /\ Apart(oram)' /\ Listed(oram)' /\ Stored' = Stored /\ Contents' = Contents
         /\ Good(oram) /\ Good(oram')
<1>1. Good(oram) /\ Good(oram')
  BY GoodWhenNotWriting DEF Keeps, Grown
<1>2. /\ Apart(oram') /\ Have(oram') = Have(oram)
      /\ \A k \in Have(oram) : Seen(oram', k).value = Seen(oram, k).value
  BY <1>1, KeepsSeen
<1>3. /\ Stored = Have(oram) /\ Stored' = Have(oram')
      /\ \A k : Newest(k) = Seen(oram, k) /\ Newest(k)' = Seen(oram', k)
      /\ Apart(oram)'
  BY <1>2, NewestNext DEF Have, Seen, Apart
<1>4. \A k \in Stored : Newest(k)'.value = Newest(k).value
  BY <1>2, <1>3
<1>5. Contents' = Contents
  BY <1>2, <1>3, <1>4 DEF Contents
<1>6. Listed(oram)'
  <2>1. Listed(oram')
    BY DEF Keeps
  <2>2. \A S : Paths(S)' = Paths(S)
    BY GeoKept DEF Paths
  <2> QED  BY <2>1, <2>2 DEF Listed
<1> QED  BY <1>1, <1>2, <1>3, <1>5, <1>6

LEMMA NoneFacts ==
  /\ \A c \in Calls : c # None
  /\ \A v \in Value \cup {None} : [value |-> v] # None
BY NoneAssumption DEF Answers

\* The tree does not change while a search or an insert goes down.
LEMMA TreeStays ==
  ASSUME IInv, Apart(oram), pc \notin {"write", "up"}, geo' = geo, store' = store, root'.key = root.key,
         Keeps(oram, oram', {}), NEW L, NEW span,
         Shows(Buckets, store, oram, root.key, pc = "up", op.key, path, L),
         IsTree(Stored, L, span), Where(Stored, L, span, pc', op'.key, path', at'.key)
  PROVE  Searching'
<1>1. Good(oram) /\ Buckets' = Buckets
  BY GoodWhenNotWriting, GeoKept
<1>2. Have(oram') = Have(oram)
  BY <1>1, KeepsSeen
<1>3. Stored' = Stored
  BY <1>2, NewestNext DEF Have
<1>4. Shows(Buckets, store, oram, root.key, FALSE, op'.key, path, L)
  BY DEF Shows
<1>5. Shows(Buckets, store, oram', root.key, pc' = "up", op'.key, path', L)
  BY Zenon, <1>1, <1>4, ShowsKept
<1> QED  BY <1>1, <1>3, <1>5 DEF Searching

\* Steps the plain map does not see.
LEMMA MapStutters ==
  ASSUME Contents' = Contents, op' = op, Answered' = Answered
  PROVE  UNCHANGED Map!vars
BY DEF Map!vars, Answered

LEMMA OpIsCall ==
  ASSUME IInv, pc # "idle"
  PROVE  /\ op \in Calls /\ op # None /\ op.key \in Key /\ op.key # 0
         /\ op.do = "find" \/ op \in [do : {"insert"}, key : Key, value : Value]
BY NoneFacts, Sides DEF IInv, Control, Calls

\* A call begins.
LEMMA StartIsCall ==
  ASSUME MInv, NEW k \in geo.keys, StartFind(k) \/ \E v \in geo.values : StartInsert(k, v)
  PROVE  MInv' /\ [Map!Next]_(Map!vars)
<1>1. pc = "idle" /\ geo' = geo /\ store' = store /\ oram' = oram /\ root' = root
      /\ path' = path /\ res' = res /\ at' = root /\ pc' \in {"find", "down"}
      /\ op'.key = k /\ (pc' = "find" => op'.do = "find")
  BY DEF StartFind, StartInsert
<1>2. IInv /\ Apart(oram) /\ Listed(oram) /\ Ready /\ Searching /\ IInv'
  BY StartIsGood DEF MInv
<1>3. k \in Key /\ path = <<>>
  BY <1>1, <1>2, GeometryAssumption DEF IInv, Control
<1>4. op' \in Calls
  BY <1>2, <1>1 DEF IInv, Control
<1>5. Keeps(oram, oram', {}) /\ Good(oram)
  BY <1>1, <1>2, GoodWhenNotWriting, KeepsSelf
<1>6. Apart(oram)' /\ Listed(oram)' /\ Contents' = Contents
  BY <1>1, <1>2, <1>5, Moved
<1>7. PICK L, span : /\ Shows(Buckets, store, oram, root.key, pc = "up", op.key, path, L)
                     /\ IsTree(Stored, L, span)
  BY <1>1, <1>2 DEF Searching
<1>8. Where(Stored, L, span, pc', op'.key, path', at'.key)
  <2>1. L[0]["r"] = root.key
    <3>1. 0 \in HaveIn(Buckets, store, oram) \cup {0} /\ "r" \in Side
      OBVIOUS
    <3> QED  BY <1>1, <1>7, <3>1 DEF Shows, LinkIn
  <2>2. Chain(Stored, L, span, <<>>, k, root.key)
    BY <1>3, <1>7, <2>1, ChainStart
  <2>3. <<>> \in Seq(Key)
    OBVIOUS
  <2>4. /\ root.key \in Stored \cup {0}
        /\ root.key = 0 => k \notin Stored
        /\ root.key # 0 => k \in span[root.key]
    <3> DEFINE p == <<>>
    <3>1. p \in Seq(Key) /\ Chain(Stored, L, span, p, k, root.key)
      BY <2>2, <2>3
    <3> HIDE DEF p
    <3> QED  BY <1>3, <1>7, <3>1, ChainTop
  <2> QED  BY <1>1, <1>3, <2>2, <2>4 DEF Where
<1>9. Searching'
  BY <1>1, <1>2, <1>5, <1>7, <1>8, TreeStays
<1>10. Ready'
  BY <1>1, <1>2 DEF Ready
<1>11. Map!Call(op')
  BY <1>1, <1>2, <1>6 DEF Map!Call, Ready, Answered
<1>12. op' \in Map!Calls
  BY <1>4 DEF Map!Calls, Calls
<1>13. Map!Next
  BY <1>11, <1>12 DEF Map!Next
<1> QED  BY <1>2, <1>6, <1>9, <1>10, <1>13 DEF MInv

\* A search ends at a missing child: the key is not in the map.
LEMMA FindMissIsFind ==
  ASSUME MInv, FindMiss
  PROVE  MInv' /\ [Map!Next]_(Map!vars)
<1>1. pc = "find" /\ geo' = geo /\ store' = store /\ oram' = oram /\ root' = root
      /\ path' = path /\ res' = res /\ at' = at /\ op' = op /\ pc' \in {"finish", "write"} /\ at.key = 0
  BY DEF FindMiss
<1>2. IInv /\ Apart(oram) /\ Listed(oram) /\ Ready /\ Searching /\ IInv'
  BY FindMissIsGood DEF MInv
<1>5. Keeps(oram, oram', {}) /\ Good(oram)
  BY <1>1, <1>2, GoodWhenNotWriting, KeepsSelf
<1>6. Apart(oram)' /\ Listed(oram)' /\ Contents' = Contents
  BY <1>1, <1>2, <1>5, Moved
<1>7. PICK L, span : /\ Shows(Buckets, store, oram, root.key, pc = "up", op.key, path, L)
                     /\ IsTree(Stored, L, span)
                     /\ Where(Stored, L, span, pc, op.key, path, at.key)
  BY <1>1, <1>2 DEF Searching
<1>8. Where(Stored, L, span, pc', op'.key, path', at'.key)
  BY <1>1 DEF Where
<1>9. Searching'
  BY <1>1, <1>2, <1>5, <1>7, <1>8, TreeStays
<1>10. Ready'
  BY <1>1, <1>2 DEF Ready
<1>11. op.key \notin DOMAIN Contents
  BY <1>1, <1>7 DEF Where, Contents
<1>12. res = None /\ op # None /\ op.do = "find"
  BY <1>1, <1>2, OpIsCall DEF Ready
<1>13. Map!Find
  BY <1>1, <1>6, <1>11, <1>12 DEF Map!Find, Map!Pending, Answered
<1>14. Map!Next
  BY <1>13 DEF Map!Next
<1> QED  BY <1>2, <1>6, <1>9, <1>10, <1>14 DEF MInv

\* A node that is read is the newest copy, and the tree's.
LEMMA AtNodeKeeps ==
  ASSUME IInv, Apart(oram), pc # "write", at.key # 0
  PROVE  /\ Keeps(oram, AtNode, {})
         /\ ~AtNode.lost => /\ at.key \in DOMAIN AtNode.cache
                            /\ at.key \in Stored
                            /\ AtNode.cache[at.key].value = Contents[at.key]
                            /\ AtNode.cache[at.key].kid = Newest(at.key).kid
<1>1. Good(oram) /\ StoreOK
  BY GoodWhenNotWriting
<1>2. at.key \in NodeKey /\ Placing(at.key, at.pos)
  BY DEF IInv, Control, Place
<1>3. Keeps(oram, AtNode, {})
  BY <1>1, <1>2, ReadNodeKeeps DEF AtNode
<1>4. AtNode.lost \/ at.key \in DOMAIN AtNode.cache
  BY AtNodeIsGood
<1> DEFINE n == AtNode
<1> HIDE DEF n
<1>5. ASSUME at.key \in DOMAIN n.cache, Keeps(oram, n, {})
      PROVE  /\ at.key \in Have(oram)
             /\ n.cache[at.key].value = Seen(oram, at.key).value
             /\ n.cache[at.key].kid = Seen(oram, at.key).kid
  <2>1. /\ Have(n) = Have(oram)
        /\ \A k \in DOMAIN n.cache : Seen(n, k) = n.cache[k]
        /\ \A k \in Have(oram) : /\ Seen(n, k).value = Seen(oram, k).value
                                 /\ Seen(n, k).kid = Seen(oram, k).kid
    BY <1>1, <1>5, KeepsSeen
  <2>2. at.key \in Have(oram)
    BY <1>5, <2>1 DEF Have, HaveIn
  <2> QED  BY <1>5, <2>1, <2>2
<1>6. Stored = Have(oram) /\ \A k : Newest(k) = Seen(oram, k)
  BY DEF Stored, Have, HaveIn, Newest, Seen, NewestIn
<1> QED  BY <1>3, <1>4, <1>5, <1>6 DEF Contents, n

\* A search that reads its key's node answers with the value in the map.
LEMMA FindHitIsFind ==
  ASSUME MInv, FindHit
  PROVE  MInv' /\ [Map!Next]_(Map!vars)
<1>1. /\ pc = "find" /\ geo' = geo /\ store' = store /\ root' = root /\ oram' = AtNode
      /\ path' = path /\ at' = at /\ op' = op /\ at.key = op.key
      /\ pc' = IF oram'.lost THEN "lost" ELSE "finish"
      /\ res' = IF oram'.lost THEN None ELSE oram'.cache[at.key].value
  BY DEF FindHit, Goto
<1>2. IInv /\ Apart(oram) /\ Listed(oram) /\ Ready /\ Searching /\ IInv'
  BY FindHitIsGood DEF MInv
<1>3. op # None /\ op.do = "find" /\ res = None /\ at.key # 0
  BY <1>1, <1>2, OpIsCall DEF Ready
<1>4. /\ Keeps(oram, oram', {})
      /\ ~oram'.lost => at.key \in Stored /\ oram'.cache[at.key].value = Contents[at.key]
  BY <1>1, <1>2, <1>3, AtNodeKeeps
<1>5. Apart(oram)' /\ Listed(oram)' /\ Contents' = Contents
  BY <1>1, <1>2, <1>4, Moved
<1>6. PICK L, span : /\ Shows(Buckets, store, oram, root.key, pc = "up", op.key, path, L)
                     /\ IsTree(Stored, L, span)
  BY <1>1, <1>2 DEF Searching
<1>7. Where(Stored, L, span, pc', op'.key, path', at'.key)
  BY <1>1 DEF Where
<1>8. Searching'
  BY <1>1, <1>2, <1>4, <1>6, <1>7, TreeStays
<1>9. CASE oram'.lost
  <2>1. Ready'
    BY <1>1, <1>2, <1>9 DEF Ready
  <2>2. UNCHANGED Map!vars
    BY <1>1, <1>5, <1>9, MapStutters DEF Answered
  <2> QED  BY <1>2, <1>5, <1>8, <2>1, <2>2 DEF MInv
<1>10. CASE ~oram'.lost
  <2>1. Ready'
    BY <1>1, <1>2, <1>10 DEF Ready
  <2>2. op.key \in DOMAIN Contents /\ res' = Contents[op.key]
    BY <1>1, <1>4, <1>10 DEF Contents
  <2>3. Map!Find
    BY <1>1, <1>3, <1>5, <1>10, <2>2 DEF Map!Find, Map!Pending
  <2> QED  BY <1>2, <1>5, <1>8, <2>1, <2>3 DEF MInv, Map!Next
<1> QED  BY <1>9, <1>10

\* The child that follows is the tree's.
LEMMA NextIsChild ==
  ASSUME IInv, Apart(oram), pc \notin {"write", "up"}, at.key # 0, ~AtNode.lost, NEW L,
         Shows(Buckets, store, oram, root.key, pc = "up", op.key, path, L)
  PROVE  Next1(AtNode).key = L[at.key][SideOf(op.key, at.key)]
<1> DEFINE s == SideOf(op.key, at.key)
<1>1. at.key \in Stored /\ AtNode.cache[at.key].kid = Newest(at.key).kid
  BY AtNodeKeeps
<1>2. Next1(AtNode).key = AtNode.cache[at.key].kid[s]
  BY DEF Next1, Kid
<1>3. s \in Side
  BY DEF SideOf
<1> HIDE DEF s
<1>4. Stored = HaveIn(Buckets, store, oram) /\ Newest(at.key) = NewestIn(Buckets, store, oram, at.key)
  BY DEF Stored, HaveIn, Newest, NewestIn
<1>5. L[at.key][s] = LinkIn(Buckets, store, oram, root.key, at.key, s)
  BY <1>1, <1>3, <1>4 DEF Shows
<1>6. L[at.key][s] = NewestIn(Buckets, store, oram, at.key).kid[s]
  BY <1>5 DEF LinkIn
<1> QED  BY <1>1, <1>2, <1>4, <1>6 DEF s

LEMMA FindDownStutters ==
  ASSUME MInv, FindDown
  PROVE  MInv' /\ [Map!Next]_(Map!vars)
<1>1. /\ pc = "find" /\ geo' = geo /\ store' = store /\ root' = root /\ oram' = AtNode
      /\ path' = path /\ op' = op /\ at.key # 0 /\ at.key # op.key /\ res' = res
      /\ pc' = IF oram'.lost THEN "lost" ELSE "find"
      /\ at' = Next1(AtNode)
  BY DEF FindDown, Goto
<1>2. IInv /\ Apart(oram) /\ Listed(oram) /\ Ready /\ Searching /\ IInv'
  BY FindDownIsGood DEF MInv
<1>3. op.key \in Key
  BY <1>1, <1>2, OpIsCall
<1>4. Keeps(oram, oram', {})
  BY <1>1, <1>2, AtNodeKeeps
<1>5. Apart(oram)' /\ Listed(oram)' /\ Contents' = Contents
  BY <1>1, <1>2, <1>4, Moved
<1>6. PICK L, span : /\ Shows(Buckets, store, oram, root.key, pc = "up", op.key, path, L)
                     /\ IsTree(Stored, L, span)
                     /\ Where(Stored, L, span, pc, op.key, path, at.key)
  BY <1>1, <1>2 DEF Searching
<1>7. Where(Stored, L, span, pc', op'.key, path', at'.key)
  <2>1. CASE oram'.lost
    BY <1>1, <2>1 DEF Where
  <2>2. CASE ~oram'.lost
    <3> DEFINE n == at.key
               s == SideOf(op.key, n)
    <3>1. at'.key = L[n][s]
      BY <1>1, <1>2, <1>6, <2>2, NextIsChild
    <3>2. n \in Stored /\ op.key \in span[n] /\ n # op.key
      BY <1>1, <1>6 DEF Where
    <3>3. s \in Side
      BY DEF SideOf
    <3>4. op.key \in Below(span, n, s)
      BY <3>2 DEF Below
    <3> HIDE DEF n, s
    <3>5. Linked(Stored, L, span, n, s)
      BY <1>6, <3>2, <3>3 DEF IsTree
    <3>6. /\ L[n][s] \in Stored \cup {0}
          /\ L[n][s] = 0 => op.key \notin Stored
          /\ L[n][s] # 0 => op.key \in span[L[n][s]]
      BY <3>4, <3>5 DEF Linked
    <3> QED  BY <1>1, <2>2, <3>1, <3>6 DEF Where
  <2> QED  BY <2>1, <2>2
<1>8. Searching'
  BY <1>1, <1>2, <1>4, <1>6, <1>7, TreeStays
<1>9. Ready'
  BY <1>1, <1>2 DEF Ready
<1>10. UNCHANGED Map!vars
  BY <1>1, <1>5, MapStutters DEF Answered
<1> QED  BY <1>2, <1>5, <1>8, <1>9, <1>10 DEF MInv

LEMMA InsertDownStutters ==
  ASSUME MInv, InsertDown
  PROVE  MInv' /\ [Map!Next]_(Map!vars)
<1>1. /\ pc = "down" /\ geo' = geo /\ store' = store /\ root' = root /\ oram' = AtNode
      /\ path' = <<at.key>> \o path /\ op' = op /\ at.key # 0 /\ at.key # op.key /\ res' = res
      /\ pc' = IF oram'.lost THEN "lost" ELSE "down"
      /\ at' = Next1(AtNode)
  BY DEF InsertDown, Goto
<1>2. IInv /\ Apart(oram) /\ Listed(oram) /\ Ready /\ Searching /\ IInv'
  BY InsertDownIsGood DEF MInv
<1>3. op.key \in Key /\ path \in Seq(Key) /\ Stored \in SUBSET Key
  BY <1>1, <1>2, OpIsCall, StoredIsKeys DEF IInv, Control
<1>4. Keeps(oram, oram', {})
  BY <1>1, <1>2, AtNodeKeeps
<1>5. Apart(oram)' /\ Listed(oram)' /\ Contents' = Contents
  BY <1>1, <1>2, <1>4, Moved
<1>6. PICK L, span : /\ Shows(Buckets, store, oram, root.key, pc = "up", op.key, path, L)
                     /\ IsTree(Stored, L, span)
                     /\ Where(Stored, L, span, pc, op.key, path, at.key)
  BY <1>1, <1>2 DEF Searching
<1>7. Where(Stored, L, span, pc', op'.key, path', at'.key)
  <2>1. CASE oram'.lost
    BY <1>1, <2>1 DEF Where
  <2>2. CASE ~oram'.lost
    <3>1. at'.key = L[at.key][SideOf(op.key, at.key)]
      BY <1>1, <1>2, <1>6, <2>2, NextIsChild
    <3>2. Chain(Stored, L, span, path, op.key, at.key)
      BY <1>1, <1>6 DEF Where
    <3>3. Chain(Stored, L, span, <<at.key>> \o path, op.key, L[at.key][SideOf(op.key, at.key)])
      BY Zenon, <1>1, <1>3, <1>6, <3>2, ChainDown
    <3> QED  BY <1>1, <2>2, <3>1, <3>3 DEF Where
  <2> QED  BY <2>1, <2>2
<1>8. Searching'
  BY <1>1, <1>2, <1>4, <1>6, <1>7, TreeStays
<1>9. Ready'
  BY <1>1, <1>2 DEF Ready
<1>10. UNCHANGED Map!vars
  BY <1>1, <1>5, MapStutters DEF Answered
<1> QED  BY <1>2, <1>5, <1>8, <1>9, <1>10 DEF MInv

\* The link that an insert had still to set at the end is the root.
LEMMA InsertDoneStutters ==
  ASSUME MInv, InsertDone
  PROVE  MInv' /\ [Map!Next]_(Map!vars)
<1>1. /\ pc = "up" /\ path = <<>> /\ pc' = "finish" /\ geo' = geo /\ store' = store
      /\ oram' = oram /\ root' = at /\ at' = at /\ op' = op /\ path' = path /\ res' = res
  BY DEF InsertDone
<1>2. IInv /\ Apart(oram) /\ Listed(oram) /\ Ready /\ Searching /\ IInv'
  BY InsertDoneIsGood DEF MInv
<1>3. Keeps(oram, oram', {}) /\ Good(oram)
  BY <1>1, <1>2, GoodWhenNotWriting, KeepsSelf
<1>4. Apart(oram)' /\ Listed(oram)' /\ Contents' = Contents
  BY <1>1, <1>2, <1>3, Moved
<1>5. PICK L, span : /\ Shows(Buckets, store, oram, root.key, pc = "up", op.key, path, L)
                     /\ IsTree(Stored, L, span)
                     /\ Where(Stored, L, span, pc, op.key, path, at.key)
  BY <1>1, <1>2 DEF Searching
<1>6. Buckets' = Buckets /\ Stored' = Stored
  BY <1>1, GeoKept DEF Stored
<1>7. L[0]["r"] = at.key
  <2>1. Up(path, 1) = 0
    BY <1>1 DEF Up
  <2>2. SideOf(op.key, 0) = "r"
    BY <1>1, <1>2, OpIsCall, Sides
  <2> QED  BY <1>1, <1>5, <2>1, <2>2 DEF Where, Chain
<1>8. Shows(Buckets, store, oram, at.key, FALSE, op.key, path, L)
  <2>1. Up(path, 1) = 0 /\ SideOf(op.key, 0) = "r"
    BY <1>1, <1>2, OpIsCall, Sides DEF Up
  <2>2. SUFFICES ASSUME NEW n \in HaveIn(Buckets, store, oram) \cup {0}, NEW s \in Side
                 PROVE  L[n][s] = LinkIn(Buckets, store, oram, at.key, n, s)
    BY DEF Shows
  <2>3. CASE n = 0 /\ s = "r"
    BY <1>7, <2>3 DEF LinkIn
  <2>4. CASE ~(n = 0 /\ s = "r")
    <3>1. L[n][s] = LinkIn(Buckets, store, oram, root.key, n, s)
      BY <1>5, <2>1, <2>4 DEF Shows
    <3> QED  BY <2>4, <3>1 DEF LinkIn
  <2> QED  BY <2>3, <2>4
<1>9. Searching'
  <2>1. Shows(Buckets, store, oram', root'.key, pc' = "up", op'.key, path', L)
    BY Zenon, <1>1, <1>8
  <2>2. Where(Stored, L, span, pc', op'.key, path', at'.key)
    BY <1>1 DEF Where
  <2> QED  BY <1>1, <1>5, <1>6, <2>1, <2>2 DEF Searching
<1>10. Ready'
  BY <1>1, <1>2 DEF Ready
<1>11. UNCHANGED Map!vars
  BY <1>1, <1>4, MapStutters DEF Answered
<1> QED  BY <1>2, <1>4, <1>9, <1>10, <1>11 DEF MInv

\* From m to n the node k is put into the cache, or changed in it.
Puts(m, n, k) ==
  /\ k \in DOMAIN m.cache \/ k \notin Have(m)
  /\ Good(m) /\ Good(n) /\ n.readview = m.readview
  /\ DOMAIN n.cache = DOMAIN m.cache \cup {k}
  /\ \A j \in DOMAIN m.cache \ {k} : n.cache[j] = m.cache[j]

LEMMA PutsSeen ==
  ASSUME NEW m, NEW n, NEW k, Apart(m), Puts(m, n, k)
  PROVE  /\ Apart(n) /\ Have(n) = Have(m) \cup {k}
         /\ Seen(n, k) = n.cache[k]
         /\ \A j \in Have(m) \ {k} : Seen(n, j) = Seen(m, j)
<1>1. /\ Covered(Buckets, store, m) /\ Covered(Buckets, store, n)
      /\ m.writeview = {} /\ n.writeview = {}
  BY GoodIsCovered DEF Puts
<1>2. Apart(n)
  BY <1>1 DEF Apart, Unshared, IsLive, Puts, Have, HaveIn
<1>3. Have(n) = Have(m) \cup {k}
  BY DEF Have, HaveIn, Puts
<1>4. Seen(n, k) = n.cache[k]
  BY <1>1, <1>2, NewestIs DEF Apart, Seen, Puts
<1>5. ASSUME NEW j \in Have(m), j # k PROVE Seen(n, j) = Seen(m, j)
  <2>1. CASE j \in DOMAIN m.cache
    <3>1. j \in DOMAIN n.cache /\ n.cache[j] = m.cache[j]
      BY <1>5, <2>1 DEF Puts
    <3> QED  BY <1>1, <1>2, <2>1, <3>1, NewestIs DEF Apart, Seen
  <2>2. CASE j \notin DOMAIN m.cache
    <3>1. PICK b \in Buckets : IsLive(m, b) /\ j \in DOMAIN store[b]
      BY <1>1, <2>2, <1>5, NewestIs DEF Have, Apart
    <3>2. IsLive(n, b)
      BY <1>1, <3>1 DEF IsLive, Puts
    <3>3. Seen(m, j) = store[b][j] /\ Seen(n, j) = store[b][j]
      BY <1>1, <1>2, <3>1, <3>2, NewestIs DEF Seen, Apart
    <3> QED  BY <3>3
  <2> QED  BY <2>1, <2>2
<1> QED  BY <1>2, <1>3, <1>4, <1>5

LEMMA GoodNext ==
  ASSUME IInv', pc' # "write", geo' = geo, store' = store
  PROVE  Good(oram')
<1>1. IsORAM(oram)' /\ Kept' /\ oram'.writeview = {}
  BY DEF IInv, Memory, Control
<1>2. IsORAM(oram')
  BY <1>1, GeoKept DEF IsORAM, Blocks
<1>3. \A S : Paths(S)' = Paths(S)
  BY GeoKept DEF Paths
<1>4. Held(oram')
  BY <1>1 DEF Kept, Held
<1> QED  BY <1>1, <1>2, <1>3, <1>4 DEF Good, Kept

\* A node that is new or changed is an insert.
LEMMA PutIsInsert ==
  ASSUME IInv, Apart(oram), Ready, pc = "down", NEW m, Keeps(oram, m, {}),
         Puts(m, oram', op.key), oram'.cache[op.key].value = op.value,
         geo' = geo, store' = store, pc' = "up", op' = op, res' = res
  PROVE  /\ Apart(oram)' /\ Stored' = Stored \cup {op.key} /\ Map!Next
         /\ Seen(oram', op.key) = oram'.cache[op.key]
         /\ \A j \in Stored \ {op.key} : Seen(oram', j).kid = Seen(oram, j).kid
<1>1. Good(oram) /\ Stored = Have(oram) /\ Buckets' = Buckets
  BY GoodWhenNotWriting, GeoKept DEF Stored, Have, HaveIn
<1>2. /\ Apart(m) /\ Have(m) = Have(oram)
      /\ \A j \in Have(oram) : /\ Seen(m, j).value = Seen(oram, j).value
                               /\ Seen(m, j).kid = Seen(oram, j).kid
  BY <1>1, KeepsSeen
<1>3. /\ Apart(oram') /\ Have(oram') = Have(m) \cup {op.key}
      /\ Seen(oram', op.key) = oram'.cache[op.key]
      /\ \A j \in Have(m) \ {op.key} : Seen(oram', j) = Seen(m, j)
  BY <1>2, PutsSeen
<1>4. /\ Stored' = Stored \cup {op.key} /\ Apart(oram)'
      /\ \A j : Newest(j) = Seen(oram, j) /\ Newest(j)' = Seen(oram', j)
  BY <1>1, <1>2, <1>3, NewestNext DEF Have, Seen, Apart
<1>5. \A j \in Stored \ {op.key} : /\ Newest(j)'.value = Newest(j).value
                                   /\ Seen(oram', j).kid = Seen(oram, j).kid
  BY <1>1, <1>2, <1>3, <1>4
<1>6. Newest(op.key)'.value = op.value
  BY <1>3, <1>4
<1>7. Contents' = [k \in DOMAIN Contents \cup {op.key} |->
                     IF k = op.key THEN op.value ELSE Contents[k]]
  BY <1>4, <1>5, <1>6 DEF Contents
<1>8. op # None /\ op.do = "insert" /\ res = None
  BY OpIsCall DEF Ready, IInv, Control
<1>9. Map!Insert
  BY <1>7, <1>8 DEF Map!Insert, Map!Pending
<1> QED  BY <1>3, <1>4, <1>5, <1>9 DEF Map!Next

\* The key is there already: its node takes the new value.
LEMMA InsertSameIsInsert ==
  ASSUME MInv, InsertSame
  PROVE  MInv' /\ [Map!Next]_(Map!vars)
<1>1. /\ pc = "down" /\ geo' = geo /\ store' = store /\ root' = root
      /\ oram' = IF AtNode.lost THEN AtNode ELSE [AtNode EXCEPT !.cache[at.key].value = op.value]
      /\ path' = path /\ op' = op /\ at.key = op.key /\ res' = res /\ at' = at
      /\ pc' = IF oram'.lost THEN "lost" ELSE "up"
  BY DEF InsertSame, Goto
<1>2. IInv /\ Apart(oram) /\ Listed(oram) /\ Ready /\ Searching /\ IInv'
  BY InsertSameIsGood DEF MInv
<1>3. op.key \in Key /\ at.key # 0 /\ Good(oram) /\ Good(oram')
  BY <1>1, <1>2, OpIsCall, GoodWhenNotWriting, GoodNext
<1>4. /\ Keeps(oram, AtNode, {})
      /\ ~AtNode.lost => at.key \in DOMAIN AtNode.cache
  BY <1>1, <1>2, <1>3, AtNodeKeeps
<1>5. PICK L, span : /\ Shows(Buckets, store, oram, root.key, pc = "up", op.key, path, L)
                     /\ IsTree(Stored, L, span)
                     /\ Where(Stored, L, span, pc, op.key, path, at.key)
  BY <1>1, <1>2 DEF Searching
<1>6. CASE AtNode.lost
  <2>1. oram' = AtNode /\ pc' = "lost"
    BY <1>1, <1>6
  <2>2. Apart(oram)' /\ Listed(oram)' /\ Contents' = Contents
    BY <1>1, <1>2, <1>4, <2>1, Moved
  <2>3. Ready' /\ Searching'
    BY <1>1, <1>2, <2>1 DEF Ready, Searching
  <2>4. UNCHANGED Map!vars
    BY <1>1, <2>1, <2>2, MapStutters DEF Answered
  <2> QED  BY <1>2, <2>2, <2>3, <2>4 DEF MInv
<1>7. CASE ~AtNode.lost
  <2> DEFINE m == AtNode
  <2>1. oram' = [m EXCEPT !.cache[at.key].value = op.value] /\ at.key \in DOMAIN m.cache /\ ~m.lost
    BY <1>1, <1>4, <1>7
  <2> HIDE DEF m
  <2>2. Good(m) /\ Keeps(oram, m, {})
    BY <1>4 DEF Keeps, Grown, m
  <2>3. m \in Record(m.cache) /\ m.cache[at.key] \in Nodes
    BY <2>1, <2>2, GoodFields, NodeAt
  <2>4. m.cache[at.key] \in [value : Value, pos : Leaves, height : Nat,
                  kid : [Side -> NodeKey], kidPos : [Side -> Leaves \cup {NoPos}]]
    BY <2>3, NodeFields
  <2> DEFINE node == [m.cache[at.key] EXCEPT !.value = op.value]
             C == [m.cache EXCEPT ![at.key] = node]
  <2>5. node.value = op.value /\ node.kid = m.cache[at.key].kid
    BY <2>4
  <2>6. /\ oram' = [m EXCEPT !.cache = C]
        /\ DOMAIN C = DOMAIN m.cache /\ C[at.key] = node
        /\ \A j \in DOMAIN m.cache \ {at.key} : C[j] = m.cache[j]
    BY <2>1, <2>3 DEF Record
  <2> HIDE DEF C, node
  <2>7. /\ oram'.cache = C /\ oram'.readview = m.readview /\ oram'.lost = m.lost
        /\ oram'.leafList = m.leafList
    BY <2>3, <2>6 DEF Record
  <2>8. Puts(m, oram', op.key)
    BY <1>1, <1>3, <2>1, <2>2, <2>6, <2>7 DEF Puts
  <2>9. pc' = "up"
    BY <1>1, <2>1, <2>7
  <2>10. /\ Apart(oram)' /\ Stored' = Stored \cup {op.key} /\ Map!Next
         /\ Seen(oram', op.key) = oram'.cache[op.key]
         /\ \A j \in Stored \ {op.key} : Seen(oram', j).kid = Seen(oram, j).kid
    BY Zenon, <1>1, <1>2, <2>2, <2>5, <2>6, <2>7, <2>8, <2>9, PutIsInsert
  <2>11. Listed(oram)'
    <3>1. Listed(m)
      BY <1>2, <2>2 DEF Keeps
    <3>2. \A S : Paths(S)' = Paths(S)
      BY <1>1, GeoKept DEF Paths
    <3> QED  BY <2>7, <3>1, <3>2 DEF Listed
  <2>12. op.key \in Stored /\ Seen(oram', op.key).kid = Seen(oram, op.key).kid
    <3>1. op.key \in Stored /\ m.cache[at.key].kid = Newest(at.key).kid
      BY <1>1, <1>2, <1>3, <1>7, AtNodeKeeps DEF m
    <3>2. Newest(at.key) = Seen(oram, at.key)
      BY DEF Newest, Seen, NewestIn
    <3> QED  BY Zenon, <1>1, <2>5, <2>6, <2>7, <2>10, <3>1, <3>2
  <2>13. Stored' = Stored /\ Stored = Have(oram) /\ Have(oram') = Stored' /\ Buckets' = Buckets
    BY <1>1, <2>10, <2>12, GeoKept, NewestNext DEF Have
  <2>14. Shows(Buckets, store, oram', root.key, TRUE, op.key, path, L)
    BY <1>1, <1>5, <2>10, <2>12, <2>13 DEF Shows, LinkIn, Have, Seen
  <2>15. Where(Stored, L, span, pc', op'.key, path', at'.key)
    BY <1>1, <1>5, <2>9 DEF Where
  <2>16. Searching'
    BY Zenon, <1>1, <1>5, <2>9, <2>13, <2>14, <2>15 DEF Searching
  <2>17. Ready'
    BY <1>1, <1>2, <2>1, <2>7, <2>9 DEF Ready
  <2> QED  BY <1>2, <2>10, <2>11, <2>16, <2>17 DEF MInv
<1> QED  BY <1>6, <1>7

\* WriteNode puts a new node on a path that was read and will be written back.
LEMMA WriteNodePuts ==
  ASSUME NEW m, Good(m), StoreOK, NEW k \in Key, k \notin Have(m), NEW node \in Nodes, Apart(m)
  PROVE  LET n == WriteNode(m, k, node)
         IN  /\ n.lost = m.lost /\ n.cache[k] = node /\ (Listed(m) => Listed(n))
             /\ n.modified = m.modified \cup {k}
             /\ \E o : Keeps(m, o, {}) /\ Reads(m, o) /\ o.lost = m.lost /\ Puts(o, n, k)
<1> DEFINE m1 == FetchPath(m, node.pos)
           n == WriteNode(m, k, node)
           M1 == m1.modified \cup {k}
           C == [j \in DOMAIN m1.cache \cup {k} |-> IF j = k THEN node ELSE m1.cache[j]]
           o == [m1 EXCEPT !.leafList = @ \cup {node.pos}]
<1>1. node.pos \in Leaves /\ k \notin DOMAIN m.cache
  BY NodeFields DEF Have, HaveIn
<1>2. /\ Grown(m, m1) /\ Path(node.pos) \subseteq m1.readview
      /\ Same(m, m1, {}) /\ m1.lost = m.lost /\ m1.leafList = m.leafList
      /\ Reads(m, m1) /\ m1.modified = m.modified
      /\ m1.readview = m.readview \cup Path(node.pos)
  BY <1>1, FetchPathIsGood, FetchPathIsSame
<1>3. Good(m1)
  BY <1>2 DEF Grown
<1>4. m1 \in Record(m1.cache) /\ Blocks(m1.cache) /\ Paths(m1.leafList) \subseteq m1.readview
  BY <1>3, GoodFields
<1>5. Grown(m, n)
  BY WriteNodeIsGood
<1>6. n = [m1 EXCEPT !.cache = C, !.leafList = m1.leafList \cup {node.pos}, !.modified = M1]
  BY <1>1, <1>4 DEF WriteNode, Record
<1> HIDE DEF n, m1
<1>7. o = [m1 EXCEPT !.leafList = m1.leafList \cup {node.pos}]
  BY <1>4 DEF Record
<1>8. DOMAIN C = DOMAIN m1.cache \cup {k} /\ C[k] = node /\ \A j \in DOMAIN m1.cache \ {k} : C[j] = m1.cache[j]
  OBVIOUS
<1>m. M1 = m.modified \cup {k}
  BY <1>2
<1> HIDE DEF o, C, M1
<1>9. /\ o \in Record(o.cache) /\ o.cache = m1.cache /\ o.leafList = m1.leafList \cup {node.pos}
      /\ o.readview = m1.readview /\ o.writeview = m1.writeview /\ o.lost = m1.lost
  BY <1>1, <1>4, <1>7 DEF Record
<1>10. Paths(m1.leafList \cup {node.pos}) = Paths(m1.leafList) \cup Path(node.pos)
  BY DEF Paths
<1>11. Grown(m1, o)
  BY Zenon, <1>2, <1>3, <1>4, <1>9, <1>10, ChangeIsGood
<1>12. Good(o) /\ Grown(m, o)
  BY <1>2, <1>11, GrownTwice DEF Grown
<1>13. Same(m, o, {})
  BY <1>2, <1>9 DEF Same
<1>14. Listed(m) => Listed(o)
  BY Zenon, <1>2, <1>9, <1>10 DEF Listed
<1>15. Keeps(m, o, {})
  BY <1>2, <1>9, <1>12, <1>13, <1>14 DEF Keeps
<1>r. Reads(m, o)
  BY <1>2, <1>9 DEF Reads
<1>l. o.lost = m.lost
  BY <1>2, <1>9
<1>16. /\ n.cache = C /\ n.readview = m1.readview /\ n.lost = m1.lost /\ n.modified = M1
       /\ n.leafList = m1.leafList \cup {node.pos}
  BY <1>4, <1>6 DEF Record
<1>17. Have(o) = Have(m)
  BY <1>15, KeepsSeen
<1>18. Puts(o, n, k)
  BY <1>5, <1>8, <1>9, <1>12, <1>16, <1>17 DEF Puts, Grown
<1>19. Listed(m) => Listed(n)
  BY Zenon, <1>2, <1>10, <1>16 DEF Listed
<1> QED  BY <1>2, <1>8, <1>15, <1>m, <1>r, <1>l, <1>16, <1>18, <1>19 DEF n

\* The key was not there: its node is hung where the way down ended.
LEMMA InsertNewIsInsert ==
  ASSUME MInv, InsertNew
  PROVE  MInv' /\ [Map!Next]_(Map!vars)
<1>1. /\ pc = "down" /\ geo' = geo /\ store' = store /\ root' = root
      /\ path' = path /\ op' = op /\ at.key = 0 /\ res' = res /\ pc' = "up"
  BY DEF InsertNew
<1>2. PICK leaf \in Leaves : /\ oram' = WriteNode(oram, op.key, NewNode(op.value, leaf))
                             /\ at' = [key |-> op.key, pos |-> leaf]
  BY DEF InsertNew
<1>3. IInv /\ Apart(oram) /\ Listed(oram) /\ Ready /\ Searching /\ IInv'
  BY InsertNewIsGood DEF MInv
<1> DEFINE k == op.key
           node == NewNode(op.value, leaf)
<1>4. /\ k \in Key /\ k # 0 /\ op.value \in Value /\ path \in Seq(Key) /\ Stored \in SUBSET Key
      /\ Good(oram) /\ StoreOK
  BY <1>1, <1>3, OpIsCall, StoredIsKeys, GoodWhenNotWriting DEF IInv, Control
<1>5. node \in Nodes /\ node.value = op.value /\ \A s \in Side : node.kid[s] = 0
  BY <1>4 DEF NewNode, Nodes, NodeKey, Placing
<1> HIDE DEF node
<1>6. PICK L, span : /\ Shows(Buckets, store, oram, root.key, pc = "up", k, path, L)
                     /\ IsTree(Stored, L, span)
                     /\ Where(Stored, L, span, pc, k, path, at.key)
  BY <1>1, <1>3 DEF Searching
<1>7. Chain(Stored, L, span, path, k, 0)
  BY <1>1, <1>6 DEF Where
<1>8. k \notin Stored /\ Stored = Have(oram)
  BY <1>4, <1>6, <1>7, ChainTop, NewestNext DEF Stored, Have, HaveIn
<1>9. /\ oram'.lost = oram.lost /\ oram'.cache[k] = node /\ Listed(oram')
      /\ \E o : Keeps(oram, o, {}) /\ Puts(o, oram', k)
  BY <1>2, <1>3, <1>4, <1>5, <1>8, WriteNodePuts DEF node
<1>10. PICK o : Keeps(oram, o, {}) /\ Puts(o, oram', k)
  BY <1>9
<1>11. /\ Apart(oram)' /\ Stored' = Stored \cup {k} /\ Map!Next
       /\ Seen(oram', k) = oram'.cache[k]
       /\ \A j \in Stored \ {k} : Seen(oram', j).kid = Seen(oram, j).kid
  BY <1>1, <1>3, <1>5, <1>9, <1>10, PutIsInsert
<1>12. Listed(oram)'
  <2>1. \A S : Paths(S)' = Paths(S)
    BY <1>1, GeoKept DEF Paths
  <2> QED  BY <1>9, <2>1 DEF Listed
<1> DEFINE K == Stored
           p == Up(path, 1)
           t == SideOf(k, p)
           M == [n \in K \cup {k} \cup {0} |->
                   [s \in Side |-> IF n = k THEN 0 ELSE IF n = p /\ s = t THEN k ELSE L[n][s]]]
<1>13. L[p][t] = 0 /\ p \in K \cup {0} /\ t \in Side
  BY <1>4, <1>7, UpFacts, Sides DEF Chain
<1>14. Hung(K, L, M, p, t, k)
  BY <1>4, <1>8, <1>13 DEF Hung
<1>15. PICK new : IsTree(K \cup {k}, M, new) /\ Chain(K \cup {k}, M, new, path, k, k)
  BY Zenon, <1>4, <1>6, <1>7, <1>14, ChainHang
<1>16. Buckets' = Buckets /\ HaveIn(Buckets, store, oram') = K \cup {k}
  BY <1>1, <1>11, GeoKept, NewestNext
<1>17. \A n \in K \cup {k} \cup {0}, s \in Side :
         M[n][s] = IF n = k THEN 0 ELSE IF n = p /\ s = t THEN k ELSE L[n][s]
  OBVIOUS
<1> HIDE DEF M, K, p, t, k
<1>18. Shows(Buckets, store, oram', root.key, TRUE, k, path, M)
  <2>1. SUFFICES ASSUME NEW n \in K \cup {k} \cup {0}, NEW s \in Side, ~(n = p /\ s = t)
                 PROVE  M[n][s] = LinkIn(Buckets, store, oram', root.key, n, s)
    BY <1>16 DEF Shows, p, t
  <2>2. CASE n = k
    <3>1. Seen(oram', k).kid[s] = 0
      BY <1>5, <1>9, <1>11
    <3> QED  BY <1>4, <1>17, <2>2, <3>1 DEF LinkIn, Seen, k
  <2>3. CASE n # k
    <3>1. n \in K \cup {0} /\ M[n][s] = L[n][s]
      BY <1>17, <2>1, <2>3
    <3>2. L[n][s] = LinkIn(Buckets, store, oram, root.key, n, s)
      BY <1>1, <1>6, <1>8, <3>1 DEF Shows, Have, K
    <3>3. n # 0 => Seen(oram', n).kid = Seen(oram, n).kid
      BY <1>11, <2>3, <3>1 DEF K, k
    <3> QED  BY <3>1, <3>2, <3>3 DEF LinkIn, Seen
  <2> QED  BY <2>2, <2>3
<1>19. Where(K \cup {k}, M, new, pc', op'.key, path', at'.key)
  BY <1>1, <1>2, <1>15 DEF Where, k
<1>20. Searching'
  BY Zenon, <1>1, <1>11, <1>15, <1>16, <1>18, <1>19 DEF Searching, K, k
<1>21. Ready'
  BY <1>1, <1>3, <1>9 DEF Ready
<1> QED  BY <1>3, <1>11, <1>12, <1>20, <1>21 DEF MInv

\* L is the tree that m holds, or is but for the link of p on side t.
ShowsAll(m, top, L) ==
  \A n \in Have(m) \cup {0}, s \in Side : L[n][s] = LinkIn(Buckets, store, m, top, n, s)
ShowsBut(m, top, p, t, L) ==
  \A n \in Have(m) \cup {0}, s \in Side :
    (n = p /\ s = t) \/ L[n][s] = LinkIn(Buckets, store, m, top, n, s)

\* What a rotation in the memory does to the tree.
LEMMA TurnShows ==
  ASSUME NEW m, NEW o, NEW top, NEW L, NEW M, NEW span, NEW p, NEW t, NEW y, NEW s, NEW x,
         Good(m), Apart(m), IsTree(Have(m), L, span), ShowsAll(m, top, L),
         Turned(m, o, y, s), x = m.cache[y].kid[s], y \in DOMAIN m.cache, Swings(Have(m), L, M, p, t, y, s, x)
  PROVE  Good(o) /\ Apart(o) /\ Have(o) = Have(m) /\ ShowsBut(o, top, p, t, M)
<1>1. /\ x \in DOMAIN m.cache /\ Keeps(m, o, {x, y}) /\ DOMAIN m.cache \subseteq DOMAIN o.cache
      /\ Relinked(m.cache[x].kid, o.cache[x].kid, Other(s), y)
      /\ Relinked(m.cache[y].kid, o.cache[y].kid, s, m.cache[x].kid[Other(s)])
  BY Zenon DEF Turned, Keeps, Grown
<1>2. /\ Good(o) /\ Apart(o) /\ Have(o) = Have(m)
      /\ \A k \in DOMAIN o.cache : Seen(o, k) = o.cache[k]
      /\ \A k \in DOMAIN m.cache : Seen(m, k) = m.cache[k]
      /\ \A k \in Have(m) : k # x /\ k # y => Seen(o, k).kid = Seen(m, k).kid
  <2>1. Good(o)
    BY Zenon, <1>1 DEF Keeps, Grown
  <2> DEFINE C == {x, y}
  <2>2. Keeps(m, o, C)
    BY Zenon, <1>1
  <2>3. \A k : k # x /\ k # y => k \notin C
    OBVIOUS
  <2> HIDE DEF C
  <2>4. /\ Apart(o) /\ Have(o) = Have(m)
        /\ \A k \in DOMAIN o.cache : Seen(o, k) = o.cache[k]
        /\ \A k \in DOMAIN m.cache : Seen(m, k) = m.cache[k]
        /\ \A k \in Have(m) : k \notin C \/ k \notin DOMAIN m.cache => Seen(o, k).kid = Seen(m, k).kid
    BY <2>2, KeepsSeen
  <2> QED  BY <2>1, <2>3, <2>4
<1> DEFINE K == Have(m)
           u == Other(s)
<1>3. /\ K \in SUBSET Key /\ y \in K /\ x \in K /\ s \in Side /\ u \in Side /\ L[y][s] = x
  BY Sides DEF Swings, Swung
<1>4. 0 \notin K /\ x # y /\ x # 0 /\ y # 0
  <2>1. 0 \notin K
    BY <1>3, Sides
  <2>2. Linked(K, L, span, y, s)
    BY <1>3 DEF IsTree
  <2> QED  BY <1>3, <2>1, <2>2 DEF Linked, Below
<1>5. \A i \in K \cup {0}, r \in Side : L[i][r] = LinkIn(Buckets, store, m, top, i, r)
  BY DEF ShowsAll
<1>6. /\ \A r \in Side : M[x][r] = IF x = p /\ r = t THEN x ELSE IF r = u THEN y ELSE L[x][r]
      /\ \A r \in Side : M[y][r] = IF y = p /\ r = t THEN x ELSE IF r = s THEN L[x][u] ELSE L[y][r]
      /\ \A i \in K \cup {0}, r \in Side : i # x /\ i # y /\ ~(i = p /\ r = t) => M[i][r] = L[i][r]
  BY <1>3, <1>4 DEF Swings, Swung
<1> HIDE DEF K, u
<1>7. /\ \A r \in Side : L[x][r] = m.cache[x].kid[r]
      /\ \A r \in Side : L[y][r] = m.cache[y].kid[r]
  <2>1. /\ x \in K \cup {0} /\ y \in K \cup {0}
        /\ \A r \in Side : LinkIn(Buckets, store, m, top, x, r) = Seen(m, x).kid[r]
        /\ \A r \in Side : LinkIn(Buckets, store, m, top, y, r) = Seen(m, y).kid[r]
    BY <1>3, <1>4 DEF LinkIn, Seen
  <2>2. Seen(m, x) = m.cache[x] /\ Seen(m, y) = m.cache[y]
    BY ZenonT(60), <1>1, <1>2
  <2>3. \A r \in Side : L[x][r] = m.cache[x].kid[r]
    BY <1>5, <2>1, <2>2
  <2>4. \A r \in Side : L[y][r] = m.cache[y].kid[r]
    BY <1>5, <2>1, <2>2
  <2> QED  BY Zenon, <2>3, <2>4
<1>8. /\ \A r \in Side : LinkIn(Buckets, store, o, top, x, r) = o.cache[x].kid[r]
      /\ \A r \in Side : LinkIn(Buckets, store, o, top, y, r) = o.cache[y].kid[r]
  BY Zenon, <1>1, <1>2, <1>4 DEF LinkIn, Seen
<1>9. \A i \in K \cup {0}, r \in Side : i # x /\ i # y =>
        LinkIn(Buckets, store, o, top, i, r) = LinkIn(Buckets, store, m, top, i, r)
  BY <1>2 DEF LinkIn, Seen, K
<1>10. /\ o.cache[x].kid[u] = y
       /\ \A r \in Side : r # u => o.cache[x].kid[r] = m.cache[x].kid[r]
       /\ o.cache[y].kid[s] = m.cache[x].kid[u]
       /\ \A r \in Side : r # s => o.cache[y].kid[r] = m.cache[y].kid[r]
  BY Zenon, <1>1 DEF Relinked, u
<1>11. ASSUME NEW i \in K \cup {0}, NEW r \in Side, ~(i = p /\ r = t)
       PROVE  M[i][r] = LinkIn(Buckets, store, o, top, i, r)
  <2>1. CASE i = x
    <3>1. /\ M[x][r] = IF x = p /\ r = t THEN x ELSE IF r = u THEN y ELSE L[x][r]
          /\ LinkIn(Buckets, store, o, top, x, r) = o.cache[x].kid[r]
      BY Zenon, <1>6, <1>8
    <3>2. ~(x = p /\ r = t)
      BY <1>11, <2>1
    <3>3. CASE r = u
      BY ZenonT(60), <1>10, <2>1, <3>1, <3>2, <3>3
    <3>4. CASE r # u
      <4>1. o.cache[x].kid[r] = m.cache[x].kid[r] /\ L[x][r] = m.cache[x].kid[r]
        BY Zenon, <1>7, <1>10, <3>4
      <4> QED  BY <2>1, <3>1, <3>2, <3>4, <4>1
    <3> QED  BY <3>3, <3>4
  <2>2. CASE i = y
    <3>1. L[x][u] = m.cache[x].kid[u]
      BY <1>3, <1>7
    <3>2. /\ M[y][r] = IF y = p /\ r = t THEN x ELSE IF r = s THEN L[x][u] ELSE L[y][r]
          /\ LinkIn(Buckets, store, o, top, y, r) = o.cache[y].kid[r]
      BY Zenon, <1>6, <1>8
    <3>3. ~(y = p /\ r = t)
      BY <1>11, <2>2
    <3>4. CASE r = s
      BY Zenon, <1>10, <2>2, <3>1, <3>2, <3>3, <3>4
    <3>5. CASE r # s
      <4>1. o.cache[y].kid[r] = m.cache[y].kid[r] /\ L[y][r] = m.cache[y].kid[r]
        BY Zenon, <1>7, <1>10, <3>5
      <4> QED  BY <2>2, <3>2, <3>3, <3>5, <4>1
    <3> QED  BY <3>4, <3>5
  <2>3. CASE i # x /\ i # y
    BY Zenon, <1>5, <1>6, <1>9, <1>11, <2>3
  <2> QED  BY <2>1, <2>2, <2>3
<1>12. ShowsBut(o, top, p, t, M)
  BY <1>2, <1>11 DEF ShowsBut, K
<1> QED  BY <1>2, <1>12

\* The links that a rotation leaves.
SwungTree(K, L, p, t, y, s, x) ==
  [i \in K \cup {0} |-> [r \in Side |-> IF i = p /\ r = t THEN x
                                        ELSE IF i = x /\ r = Other(s) THEN y
                                        ELSE IF i = y /\ r = s THEN L[x][Other(s)]
                                        ELSE L[i][r]]]

LEMMA SwungTreeSwings ==
  ASSUME NEW K \in SUBSET Key, NEW L, NEW p \in K \cup {0}, NEW t \in Side, NEW y \in K, NEW s \in Side,
         NEW x \in K, L[p][t] = y, L[y][s] = x
  PROVE  Swings(K, L, SwungTree(K, L, p, t, y, s, x), p, t, y, s, x)
BY DEF Swings, Swung, SwungTree

\* The same with all that ChainTurn and ChainTurnBelow ask for in one place.
Ends(K, L, span, q, k, n, y) ==
  /\ K \in SUBSET Key /\ IsTree(K, L, span) /\ q \in Seq(Key) /\ k \in Key
  /\ n \in K /\ y \in K /\ Chain(K, L, span, q, k, n)
TurnsBelow(K, L, M, n, t, y, s, x) ==
  t \in Side /\ s \in Side /\ x \in K /\ Swung(K, L, M, n, t, y, s, x)
IsWay(K, M, new, q, k, n) == IsTree(K, M, new) /\ Chain(K, M, new, q, k, n)

LEMMA WayTurns ==
  ASSUME NEW K, NEW L, NEW span, NEW q, NEW k, NEW y, NEW M, NEW s, NEW x,
         Ends(K, L, span, q, k, y, y), TurnsAt(K, L, M, q, k, y, s, x)
  PROVE  \E new : IsWay(K, M, new, q, k, x)
BY ChainTurn DEF Ends, IsWay

LEMMA WayTurnsBelow ==
  ASSUME NEW K, NEW L, NEW span, NEW q, NEW k, NEW n, NEW M, NEW t, NEW y, NEW s, NEW x,
         Ends(K, L, span, q, k, n, y), TurnsBelow(K, L, M, n, t, y, s, x)
  PROVE  \E new : IsWay(K, M, new, q, k, n)
BY ZenonT(60), ChainTurnBelow DEF Ends, TurnsBelow, IsWay

\* What follows a step up, with the node n at the end of the way.
Risen(m, top, q, k, n, K, L, span) ==
  /\ Good(m) /\ Apart(m) /\ Have(m) = K /\ IsTree(K, L, span)
  /\ ShowsBut(m, top, Up(q, 1), SideOf(k, Up(q, 1)), L)
  /\ Chain(K, L, span, q, k, n)

\* One rotation, at the end of the way.
LEMMA TurnRises ==
  ASSUME NEW m, NEW o, NEW top, NEW K \in SUBSET Key, NEW L, NEW span, NEW q \in Seq(Key), NEW k \in Key,
         NEW n \in DOMAIN m.cache, NEW s \in Side,
         Good(m), Apart(m), Have(m) = K, IsTree(K, L, span), ShowsAll(m, top, L),
         Chain(K, L, span, q, k, n), Turned(m, o, n, s)
  PROVE  \E M, new : Risen(o, top, q, k, m.cache[n].kid[s], K, M, new)
<1> DEFINE x == m.cache[n].kid[s]
           p == Up(q, 1)
           t == SideOf(k, p)
           M == SwungTree(K, L, p, t, n, s, x)
<1>1. x \in DOMAIN m.cache /\ n \in K /\ x \in K
  BY Zenon DEF Turned, Have, HaveIn
<1>2. L[n][s] = x
  <2>1. Seen(m, n) = m.cache[n] /\ n # 0
    BY <1>1, KeepsSelf, KeepsSeen, Sides
  <2> QED  BY <1>1, <2>1 DEF ShowsAll, LinkIn, Seen
<1>3. p \in K \cup {0} /\ t \in Side /\ L[p][t] = n
  BY UpFacts, Sides DEF Chain
<1> HIDE DEF x, M, p, t
<1>4. Swings(K, L, M, p, t, n, s, x)
  BY Zenon, <1>1, <1>2, <1>3, SwungTreeSwings DEF M
<1>5. Good(o) /\ Apart(o) /\ Have(o) = K /\ ShowsBut(o, top, p, t, M)
  BY <1>4, TurnShows DEF x
<1>6. Swung(K, L, M, p, t, n, s, x)
  BY <1>4 DEF Swings
<1>7. PICK new : IsTree(K, M, new) /\ Chain(K, M, new, q, k, x)
  <2>1. TurnsAt(K, L, M, q, k, n, s, x)
    BY <1>1, <1>6 DEF p, t, TurnsAt
  <2>2. Ends(K, L, span, q, k, n, n)
    BY <1>1 DEF Ends
  <2>3. \E new : IsWay(K, M, new, q, k, x)
    BY <2>1, <2>2, WayTurns
  <2> QED  BY <2>3 DEF IsWay
<1> QED  BY <1>5, <1>7 DEF Risen, p, t, x

\* Setting the one link that is missing.
LinkSet(m, o, n, s, c) == Keeps(m, o, {n}) /\ Relinked(m.cache[n].kid, o.cache[n].kid, s, c)
LinkOf(L, n, s, c) == L[n][s] = c

LEMMA LinkShows ==
  ASSUME NEW m, NEW o, NEW top, NEW n \in DOMAIN m.cache, NEW s \in Side, NEW c, NEW L,
         Good(m), Apart(m), n # 0, LinkOf(L, n, s, c), ShowsBut(m, top, n, s, L),
         LinkSet(m, o, n, s, c)
  PROVE  Good(o) /\ Apart(o) /\ Have(o) = Have(m) /\ n \in DOMAIN o.cache /\ ShowsAll(o, top, L)
<1> DEFINE C == {n}
<1>1. /\ Keeps(m, o, C) /\ \A i : i # n => i \notin C
      /\ Relinked(m.cache[n].kid, o.cache[n].kid, s, c) /\ L[n][s] = c
  BY DEF LinkSet, LinkOf
<1>2. Good(o) /\ n \in DOMAIN o.cache
  BY <1>1 DEF Keeps, Grown
<1> HIDE DEF C
<1>3. /\ Apart(o) /\ Have(o) = Have(m)
      /\ \A k \in DOMAIN o.cache : Seen(o, k) = o.cache[k]
      /\ \A k \in DOMAIN m.cache : Seen(m, k) = m.cache[k]
      /\ \A k \in Have(m) : k \notin C \/ k \notin DOMAIN m.cache => Seen(o, k).kid = Seen(m, k).kid
  BY <1>1, KeepsSeen
<1>4. ASSUME NEW i \in Have(o) \cup {0}, NEW r \in Side
      PROVE  L[i][r] = LinkIn(Buckets, store, o, top, i, r)
  <2>1. ~(i = n /\ r = s) => L[i][r] = LinkIn(Buckets, store, m, top, i, r)
    BY <1>3, <1>4 DEF ShowsBut
  <2>2. CASE i # n
    <3>1. i = 0 \/ Seen(o, i).kid = Seen(m, i).kid
      BY <1>1, <1>3, <1>4, <2>2
    <3> QED  BY <2>1, <2>2, <3>1 DEF LinkIn, Seen
  <2>3. CASE i = n
    <3>1. /\ LinkIn(Buckets, store, o, top, n, r) = o.cache[n].kid[r]
          /\ LinkIn(Buckets, store, m, top, n, r) = m.cache[n].kid[r]
      BY <1>2, <1>3 DEF LinkIn, Seen
    <3>2. CASE r = s
      BY <1>1, <2>3, <3>1, <3>2 DEF Relinked
    <3>3. CASE r # s
      BY <1>1, <2>1, <2>3, <3>1, <3>3 DEF Relinked
    <3> QED  BY <3>2, <3>3
  <2> QED  BY <2>2, <2>3
<1> QED  BY <1>2, <1>3, <1>4 DEF ShowsAll

Missing(m, top, n, s, c, L) ==
  /\ n \in DOMAIN m.cache /\ s \in Side /\ Good(m) /\ Apart(m) /\ n # 0
  /\ LinkOf(L, n, s, c) /\ ShowsBut(m, top, n, s, L)

LEMMA LinkShowsAll ==
  ASSUME NEW m, NEW o, NEW top, NEW n, NEW s, NEW c, NEW L, Missing(m, top, n, s, c, L), LinkSet(m, o, n, s, c)
  PROVE  Good(o) /\ Apart(o) /\ Have(o) = Have(m) /\ n \in DOMAIN o.cache /\ ShowsAll(o, top, L)
BY LinkShows DEF Missing

Turning(K, L, p, t, y, s, x) ==
  /\ K \in SUBSET Key /\ p \in K \cup {0} /\ t \in Side /\ y \in K /\ s \in Side /\ x \in K
  /\ LinkOf(L, p, t, y) /\ LinkOf(L, y, s, x)

LEMMA TreeTurns ==
  ASSUME NEW K, NEW L, NEW p, NEW t, NEW y, NEW s, NEW x, Turning(K, L, p, t, y, s, x)
  PROVE  \E M : Swings(K, L, M, p, t, y, s, x)
BY SwungTreeSwings DEF Turning, LinkOf

\* Before the step up turns the tree at n.
Rising(m, top, q, k, n, K, L, span) ==
  /\ Good(m) /\ Apart(m) /\ Have(m) = K /\ K \in SUBSET Key /\ IsTree(K, L, span)
  /\ ShowsAll(m, top, L) /\ n \in DOMAIN m.cache
  /\ q \in Seq(Key) /\ k \in Key /\ Chain(K, L, span, q, k, n)

LEMMA TurnRaises ==
  ASSUME NEW m, NEW o, NEW top, NEW q, NEW k, NEW n, NEW K, NEW L, NEW span, NEW s \in Side, NEW x,
         Rising(m, top, q, k, n, K, L, span), Turned(m, o, n, s), x = m.cache[n].kid[s]
  PROVE  \E M, new : Risen(o, top, q, k, x, K, M, new)
BY ZenonT(60), TurnRises DEF Rising

LEMMA StaysRisen ==
  ASSUME NEW m, NEW top, NEW q, NEW k, NEW n, NEW K, NEW L, NEW span,
         Rising(m, top, q, k, n, K, L, span)
  PROVE  Risen(m, top, q, k, n, K, L, span)
BY DEF Rising, Risen, ShowsAll, ShowsBut

\* The first of two rotations leaves n where it is.
LEMMA TurnBelowRaises ==
  ASSUME NEW m, NEW m1, NEW m2, NEW top, NEW q, NEW k, NEW n, NEW K, NEW L, NEW span, NEW s \in Side,
         NEW c, NEW g, NEW u, u = Other(s),
         Rising(m, top, q, k, n, K, L, span),
         c = m.cache[n].kid[s], c \in DOMAIN m.cache, g = m.cache[c].kid[u],
         Turned(m, m1, c, u), LinkSet(m1, m2, n, s, g)
  PROVE  \E M, new : Rising(m2, top, q, k, n, K, M, new)
<1>1. /\ Good(m) /\ Apart(m) /\ Have(m) = K /\ K \in SUBSET Key /\ IsTree(K, L, span)
      /\ ShowsAll(m, top, L) /\ n \in DOMAIN m.cache
      /\ q \in Seq(Key) /\ k \in Key /\ Chain(K, L, span, q, k, n)
  BY DEF Rising
<1>2. /\ g \in DOMAIN m.cache /\ n \in K /\ c \in K /\ g \in K /\ u \in Side /\ n # 0 /\ c # 0 /\ 0 \notin K
      /\ DOMAIN m.cache \subseteq DOMAIN m1.cache
  <2>1. g \in DOMAIN m.cache /\ DOMAIN m.cache \subseteq DOMAIN m1.cache
    BY Zenon DEF Turned, Keeps, Grown
  <2>2. n \in K /\ c \in K /\ g \in K
    BY ZenonT(60), <1>1, <2>1 DEF Have, HaveIn
  <2>3. u \in Side
    BY Zenon, Sides
  <2>4. 0 \notin K
    BY <1>1, Sides
  <2> QED  BY Zenon, <2>1, <2>2, <2>3, <2>4
<1>3. L[n][s] = c /\ L[c][u] = g
  <2>1. \A k1 \in DOMAIN m.cache : Seen(m, k1) = m.cache[k1]
    BY <1>1, KeepsSelf, KeepsSeen
  <2>2. \A i \in K, r \in Side : L[i][r] = Seen(m, i).kid[r]
    <3>1. \A i \in K, r \in Side : LinkIn(Buckets, store, m, top, i, r) = Seen(m, i).kid[r]
      BY Zenon, <1>2 DEF LinkIn, Seen
    <3>2. \A i \in K, r \in Side : L[i][r] = LinkIn(Buckets, store, m, top, i, r)
      BY Zenon, <1>1 DEF ShowsAll
    <3> QED  BY <3>1, <3>2
  <2>3. Seen(m, n) = m.cache[n] /\ Seen(m, c) = m.cache[c]
    BY Zenon, <1>1, <2>1
  <2>4. L[n][s] = m.cache[n].kid[s]
    BY Zenon, <1>2, <2>2, <2>3
  <2>5. L[c][u] = m.cache[c].kid[u]
    BY Zenon, <1>2, <2>2, <2>3
  <2> QED  BY Zenon, <2>4, <2>5
<1>4. PICK M : Swings(K, L, M, n, s, c, u, g)
  <2>1. Turning(K, L, n, s, c, u, g)
    BY Zenon, <1>1, <1>2, <1>3 DEF Turning, LinkOf
  <2> QED  BY ONLY <2>1, TreeTurns
<1>5. Good(m1) /\ Apart(m1) /\ Have(m1) = K /\ ShowsBut(m1, top, n, s, M)
  <2> HIDE DEF Rising
  <2>1. Swings(Have(m), L, M, n, s, c, u, g)
    BY Zenon, <1>1, <1>4
  <2>2. IsTree(Have(m), L, span)
    BY Zenon, <1>1
  <2>3. Good(m1) /\ Apart(m1) /\ Have(m1) = Have(m) /\ ShowsBut(m1, top, n, s, M)
    BY ZenonT(60), <1>1, <2>1, <2>2, TurnShows
  <2> QED  BY Zenon, <1>1, <2>3
<1>6. M[n][s] = g
  BY Zenon, <1>4 DEF Swings, Swung
<1>7. Good(m2) /\ Apart(m2) /\ Have(m2) = K /\ n \in DOMAIN m2.cache /\ ShowsAll(m2, top, M)
  <2>1. n \in DOMAIN m1.cache
    BY Zenon, <1>1, <1>2
  <2>2. LinkOf(M, n, s, g)
    BY Zenon, <1>6 DEF LinkOf
  <2>3. Missing(m1, top, n, s, g, M) /\ LinkSet(m1, m2, n, s, g)
    BY Zenon, <1>2, <1>5, <2>1, <2>2 DEF Missing
  <2>4. Good(m2) /\ Apart(m2) /\ Have(m2) = Have(m1) /\ n \in DOMAIN m2.cache /\ ShowsAll(m2, top, M)
    BY ONLY <2>3, LinkShowsAll
  <2> QED  BY <1>5, <2>4
<1>8. \E new : IsWay(K, M, new, q, k, n)
  <2>1. Ends(K, L, span, q, k, n, c)
    BY Zenon, <1>1, <1>2 DEF Ends
  <2>2. TurnsBelow(K, L, M, n, s, c, u, g)
    BY Zenon, <1>2, <1>4 DEF Swings, TurnsBelow
  <2> QED  BY Zenon, <2>1, <2>2, WayTurnsBelow
<1> QED  BY Zenon, <1>1, <1>7, <1>8 DEF Rising, IsWay

LEMMA BalanceRises ==
  ASSUME NEW m, NEW o, NEW top, NEW root1, NEW q, NEW k, NEW n, NEW K, NEW L, NEW span,
         Rising(m, root1, q, k, n, K, L, span), Balances(m, n, o, top)
  PROVE  \E M, new : Risen(o, root1, q, k, top, K, M, new)
<1>1. CASE top = n /\ o = m
  BY <1>1, StaysRisen
<1>2. CASE \E s \in Side : Turned(m, o, n, s) /\ top = m.cache[n].kid[s]
  BY Zenon, <1>2, TurnRaises
<1>3. ASSUME NEW s \in Side, NEW m1, NEW m2,
             LET c == m.cache[n].kid[s]
                 g == m.cache[c].kid[Other(s)]
             IN  /\ c \in DOMAIN m.cache /\ Turned(m, m1, c, Other(s))
                 /\ Keeps(m1, m2, {n}) /\ Relinked(m1.cache[n].kid, m2.cache[n].kid, s, g)
                 /\ Turned(m2, o, n, s) /\ top = g
      PROVE  \E M, new : Risen(o, root1, q, k, top, K, M, new)
  <2> DEFINE c == m.cache[n].kid[s]
             u == Other(s)
             g == m.cache[c].kid[u]
  <2>1. /\ c \in DOMAIN m.cache /\ Turned(m, m1, c, u)
        /\ Keeps(m1, m2, {n}) /\ Relinked(m1.cache[n].kid, m2.cache[n].kid, s, g)
        /\ Turned(m2, o, n, s) /\ top = g /\ m2.cache[n].kid[s] = g
    BY Zenon, <1>3 DEF Relinked
  <2>a. LinkSet(m1, m2, n, s, g)
    BY Zenon, <2>1 DEF LinkSet
  <2>2. u = Other(s) /\ c = m.cache[n].kid[s] /\ g = m.cache[c].kid[u]
    OBVIOUS
  <2> HIDE DEF c, u, g
  <2>3. PICK M, new : Rising(m2, root1, q, k, n, K, M, new)
    BY Zenon, <2>1, <2>2, <2>a, TurnBelowRaises
  <2> QED  BY <2>1, <2>3, TurnRaises
<1> QED  BY Zenon, <1>1, <1>2, <1>3 DEF Balances

\* A node, its children and theirs are different nodes.
LEMMA TreeIsDistinct ==
  ASSUME NEW m, NEW top, NEW q, NEW k, NEW n, NEW K, NEW L, NEW span, Rising(m, top, q, k, n, K, L, span)
  PROVE  Distinct(m, n)
<1>1. /\ Good(m) /\ Apart(m) /\ Have(m) = K /\ K \in SUBSET Key /\ IsTree(K, L, span)
      /\ ShowsAll(m, top, L) /\ n \in DOMAIN m.cache
  BY DEF Rising
<1>2. \A j \in DOMAIN m.cache : j \in K /\ j # 0 /\ Seen(m, j) = m.cache[j]
  <2>1. \A j \in DOMAIN m.cache : Seen(m, j) = m.cache[j]
    BY <1>1, KeepsSelf, KeepsSeen
  <2>2. 0 \notin K
    BY <1>1, Sides
  <2> QED  BY <1>1, <2>1, <2>2 DEF Have, HaveIn
<1>3. \A j \in DOMAIN m.cache, r \in Side : L[j][r] = m.cache[j].kid[r]
  BY <1>1, <1>2 DEF ShowsAll, LinkIn, Seen
<1>4. \A j \in DOMAIN m.cache, r \in Side : Linked(K, L, span, j, r)
  BY <1>1, <1>2 DEF IsTree
<1>5. SUFFICES ASSUME NEW r \in Side, NEW u \in Side
               PROVE  /\ L[n][r] # n
                      /\ L[n][r] \in DOMAIN m.cache => L[L[n][r]][u] \notin {L[n][r], n}
  BY <1>1, <1>3 DEF Distinct
<1>6. L[n][r] # n
  BY <1>1, <1>2, <1>4 DEF Linked, Below
<1>7. ASSUME L[n][r] \in DOMAIN m.cache PROVE L[L[n][r]][u] \notin {L[n][r], n}
  <2> DEFINE c == L[n][r]
             d == L[c][u]
  <2>1. c # 0 /\ n # 0 /\ Linked(K, L, span, n, r) /\ Linked(K, L, span, c, u)
    BY <1>1, <1>2, <1>4, <1>7
  <2>2. span[c] = Below(span, n, r)
    BY <2>1 DEF Linked
  <2>3. d = 0 \/ d \in Below(span, c, u)
    BY <2>1 DEF Linked
  <2> HIDE DEF c, d
  <2>4. d # c /\ d # n
    BY <2>1, <2>2, <2>3 DEF Below
  <2> QED  BY <2>4 DEF c, d
<1> QED  BY <1>6, <1>7

LEMMA UpIsRising ==
  ASSUME IInv, Apart(oram), Searching, pc = "up", path # <<>>, NEW m,
         LinkSet(oram, m, Head(path), SideOf(op.key, Head(path)), at.key),
         Head(path) \in DOMAIN oram.cache
  PROVE  \E L, span : Rising(m, root.key, Tail(path), op.key, Head(path), Stored, L, span)
<1> DEFINE n == Head(path)
           s == SideOf(op.key, n)
           K == Stored
<1>1. PICK L, span : /\ Shows(Buckets, store, oram, root.key, pc = "up", op.key, path, L)
                     /\ IsTree(K, L, span)
                     /\ Where(K, L, span, pc, op.key, path, at.key)
  BY DEF Searching
<1>2. Good(oram) /\ path \in Seq(Key) /\ op.key \in Key /\ K \in SUBSET Key
  BY GoodWhenNotWriting, OpIsCall, StoredIsKeys DEF IInv, Control
<1>3. Chain(K, L, span, path, op.key, at.key)
  BY <1>1 DEF Where
<1>4. Up(path, 1) = n /\ n \in Key /\ n # 0 /\ s \in Side /\ Tail(path) \in Seq(Key) /\ n \in DOMAIN oram.cache
  BY <1>2, UpFacts, Sides
<1>5. Have(oram) = K
  BY DEF Have, HaveIn, Stored
<1>6. LinkOf(L, n, s, at.key)
  BY <1>3, <1>4 DEF Chain, LinkOf
<1>7. Chain(K, L, span, Tail(path), op.key, n)
  BY <1>2, <1>3, ChainUp
<1>8. ShowsBut(oram, root.key, n, s, L)
  <2> SUFFICES ASSUME NEW i \in Have(oram) \cup {0}, NEW r \in Side, ~(i = n /\ r = s)
               PROVE  L[i][r] = LinkIn(Buckets, store, oram, root.key, i, r)
    BY DEF ShowsBut
  <2> QED  BY <1>1, <1>4 DEF Shows, Have
<1> HIDE DEF n, s, K
<1>9. Missing(oram, root.key, n, s, at.key, L)
  BY <1>2, <1>4, <1>6, <1>8 DEF Missing
<1>10. Good(m) /\ Apart(m) /\ Have(m) = Have(oram) /\ n \in DOMAIN m.cache /\ ShowsAll(m, root.key, L)
  <2>1. LinkSet(oram, m, n, s, at.key)
    BY DEF n, s
  <2> QED  BY ONLY <1>9, <2>1, LinkShowsAll
<1>11. Rising(m, root.key, Tail(path), op.key, n, K, L, span)
  BY <1>1, <1>2, <1>4, <1>5, <1>7, <1>10 DEF Rising
<1> QED  BY <1>11 DEF n, K

LEMMA UpKeeps ==
  ASSUME IInv, Apart(oram), Searching, InsertUp
  PROVE  \E m, C, D : /\ Keeps(oram, m, C) /\ Keeps(m, oram', D)
                      /\ oram'.lost \/ \E M, new : Risen(oram', root.key, Tail(path), op.key, at'.key, Stored, M, new)
<1> DEFINE n == Head(path)
           s == SideOf(op.key, n)
           linked == Link(oram, n, s, at.key, at.pos)
           m == SetHeight(linked, n)
           up == IF m.lost THEN Result(m, n) ELSE Rebalance(m, n, op.key)
           C == {n}
<1>1. /\ pc = "up" /\ path # <<>> /\ oram' = up.m
      /\ ~up.m.lost => at'.key = up.top
  BY Zenon DEF InsertUp
<1>2. Good(oram) /\ StoreOK
  BY <1>1, GoodWhenNotWriting
<1>3. /\ path \in Seq(Key) /\ op \in Calls /\ Place(at)
      /\ \A i \in 1..Len(path) : path[i] \in DOMAIN oram.cache
  BY <1>1 DEF IInv, Control
<1>4. n = path[1] /\ 1 \in 1..Len(path)
  <2>1. Len(path) \in Nat \ {0}
    BY <1>1, <1>3, EmptySeq
  <2> QED  BY <1>3, <2>1
<1>5. n \in DOMAIN oram.cache /\ s \in Side
  BY <1>3, <1>4 DEF SideOf
<1> HIDE DEF n, s, up
<1>6. /\ Keeps(oram, linked, {n}) /\ DOMAIN linked.cache = DOMAIN oram.cache
      /\ Relinked(oram.cache[n].kid, linked.cache[n].kid, s, at.key)
  <2>1. at.key \in NodeKey /\ at.pos \in Leaves \cup {NoPos} /\ Placing(at.key, at.pos)
    BY <1>3 DEF Place
  <2> HIDE DEF C
  <2> QED  BY Zenon, <1>2, <1>5, <2>1, LinkKeeps
<1>7. Good(linked) /\ n \in DOMAIN linked.cache
  BY <1>5, <1>6 DEF Keeps, Grown
<1> HIDE DEF linked
<1>8. Keeps(linked, m, {})
  BY <1>2, <1>7, SetHeightKeeps
<1> HIDE DEF m
<1>9. m.cache[n].kid = linked.cache[n].kid
  BY <1>7, <1>8 DEF Keeps, Same
<1>10. Keeps(oram, m, C)
  <2>1. Keeps(oram, linked, C)
    BY <1>6
  <2> HIDE DEF C
  <2> QED  BY <1>8, <2>1, KeepsThen
<1>11. LinkSet(oram, m, n, s, at.key)
  BY <1>6, <1>9, <1>10 DEF LinkSet
<1>12. PICK L, span : Rising(m, root.key, Tail(path), op.key, n, Stored, L, span)
  BY <1>1, <1>5, <1>11, UpIsRising DEF n, s
<1>13. Good(m) /\ n \in DOMAIN m.cache
  BY <1>12 DEF Rising
<1> HIDE DEF C
<1>14. CASE m.lost
  <2>1. up.m = m
    BY <1>14 DEF up, Result
  <2>2. Keeps(m, m, {})
    BY <1>13, KeepsSelf
  <2>3. oram' = m
    BY <1>1, <2>1
  <2> QED  BY <1>10, <1>14, <2>2, <2>3
<1>15. CASE ~m.lost
  <2> DEFINE D == DOMAIN m.cache
  <2>1. up = Rebalance(m, n, op.key)
    BY <1>15 DEF up
  <2>2. Distinct(m, n)
    BY <1>12, TreeIsDistinct
  <2>3. Keeps(m, up.m, D) /\ (up.m.lost \/ Balances(m, n, up.m, up.top))
    BY <1>2, <1>13, <2>1, <2>2, RebalanceKeeps
  <2> HIDE DEF D
  <2>4. CASE up.m.lost
    BY <1>1, <1>10, <2>3, <2>4
  <2>5. CASE ~up.m.lost
    <3>1. \E M, new : Risen(up.m, root.key, Tail(path), op.key, up.top, Stored, M, new)
      BY <1>12, <2>3, <2>5, BalanceRises
    <3>2. oram' = up.m /\ at'.key = up.top
      BY <1>1, <2>5
    <3> QED  BY <1>10, <2>3, <3>1, <3>2
  <2> QED  BY <2>4, <2>5
<1> QED  BY <1>14, <1>15

\* The same of two steps in a row.
LEMMA MovedTwice ==
  ASSUME IInv, Apart(oram), Listed(oram), pc # "write", geo' = geo, store' = store,
         NEW m, NEW C, NEW D, Keeps(oram, m, C), Keeps(m, oram', D)
  PROVE  /\ Apart(oram)' /\ Listed(oram)' /\ Stored' = Stored /\ Contents' = Contents
<1>1. Good(oram) /\ Good(m) /\ Good(oram')
  BY GoodWhenNotWriting DEF Keeps, Grown
<1>2. /\ Apart(m) /\ Have(m) = Have(oram)
      /\ \A k \in Have(oram) : Seen(m, k).value = Seen(oram, k).value
  BY <1>1, KeepsSeen
<1>3. /\ Apart(oram') /\ Have(oram') = Have(m)
      /\ \A k \in Have(m) : Seen(oram', k).value = Seen(m, k).value
  BY <1>1, <1>2, KeepsSeen
<1>4. /\ Stored = Have(oram) /\ Stored' = Have(oram')
      /\ \A k : Newest(k) = Seen(oram, k) /\ Newest(k)' = Seen(oram', k)
      /\ Apart(oram)'
  BY <1>3, NewestNext DEF Have, Seen, Apart
<1>5. \A k \in Stored : Newest(k)'.value = Newest(k).value
  BY <1>2, <1>3, <1>4
<1>6. Contents' = Contents
  BY <1>2, <1>3, <1>4, <1>5 DEF Contents
<1>7. Listed(oram)'
  <2>1. Listed(oram')
    BY DEF Keeps
  <2>2. \A S : Paths(S)' = Paths(S)
    BY GeoKept DEF Paths
  <2> QED  BY <2>1, <2>2 DEF Listed
<1> QED  BY <1>2, <1>3, <1>4, <1>6, <1>7

\* An insert takes effect where it puts its node; what it then does to the links and
\* heights above, the plain map does not see.
LEMMA InsertUpStutters ==
  ASSUME MInv, InsertUp
  PROVE  MInv' /\ [Map!Next]_(Map!vars)
<1>1. /\ pc = "up" /\ pc' = (IF oram'.lost THEN "broken" ELSE "up") /\ geo' = geo /\ store' = store
      /\ root' = root /\ op' = op /\ path' = Tail(path) /\ res' = res
  BY Zenon DEF InsertUp
<1>2. IInv /\ Apart(oram) /\ Listed(oram) /\ Ready /\ Searching /\ IInv'
  BY InsertUpIsGood DEF MInv
<1>3. PICK m, C, D : /\ Keeps(oram, m, C) /\ Keeps(m, oram', D)
                     /\ oram'.lost \/ \E M, new : Risen(oram', root.key, Tail(path), op.key, at'.key, Stored, M, new)
  BY <1>2, UpKeeps
<1>4. Apart(oram)' /\ Listed(oram)' /\ Stored' = Stored /\ Contents' = Contents
  BY <1>1, <1>2, <1>3, MovedTwice
<1>5. Searching'
  <2>1. CASE oram'.lost
    BY <1>1, <2>1 DEF Searching
  <2>2. CASE ~oram'.lost
    <3>1. PICK M, new : Risen(oram', root.key, Tail(path), op.key, at'.key, Stored, M, new)
      BY <1>3, <2>2
    <3> DEFINE p == Tail(path)
               K == Stored
               k == op.key
    <3>2. Have(oram') = K /\ ShowsBut(oram', root.key, Up(p, 1), SideOf(k, Up(p, 1)), M)
      BY <3>1 DEF Risen
    <3>3. IsTree(K, M, new) /\ Chain(K, M, new, p, k, at'.key)
      BY <3>1 DEF Risen
    <3> HIDE DEF p, k, K
    <3>4. Shows(Buckets, store, oram', root.key, TRUE, k, p, M)
      BY <3>2 DEF Shows, ShowsBut, Have
    <3>5. Where(K, M, new, "up", k, p, at'.key)
      BY <3>3 DEF Where
    <3>6. Buckets' = Buckets
      BY <1>1, GeoKept
    <3>7. pc' = "up" /\ (pc' = "up") = TRUE
      BY <1>1, <2>2
    <3>8. /\ Shows(Buckets, store, oram', root'.key, pc' = "up", op'.key, path', M)
          /\ IsTree(Stored, M, new) /\ Where(Stored, M, new, pc', op'.key, path', at'.key)
      BY Zenon, <1>1, <3>3, <3>4, <3>5, <3>7 DEF p, k, K
    <3> QED  BY <1>1, <1>4, <3>6, <3>8 DEF Searching
  <2> QED  BY <2>1, <2>2
<1>6. Ready'
  BY <1>1, <1>2 DEF Ready
<1>7. UNCHANGED Map!vars
  BY <1>1, <1>4, MapStutters DEF Answered
<1> QED  BY <1>2, <1>4, <1>5, <1>6, <1>7 DEF MInv

\* The end of an operation gives the blocks new places: no value and no link changes.
LEMMA RefreshKeeps ==
  ASSUME NEW m, Blocks(m.cache), NEW leafOf, NEW k \in DOMAIN m.cache
  PROVE  LET C == Refresh(m, leafOf)
         IN  C[k].value = m.cache[k].value /\ C[k].kid = m.cache[k].kid
<1> DEFINE Reached(j) == m.cache[j].height \in 1..maxHeightOfAVLTree
           Pos(j) == IF Reached(j) /\ j \in m.modified THEN leafOf[j] ELSE m.cache[j].pos
           Told(n, c, old) == IF c \notin DOMAIN m.cache THEN old
                              ELSE IF m.cache[c].height < n.height THEN Pos(c)
                              ELSE m.cache[c].pos
           n == m.cache[k]
           kidPos == [s \in {"l", "r"} |-> Told(n, n.kid[s], n.kidPos[s])]
           pos == Pos(k)
           new == [n EXCEPT !.pos = pos, !.kidPos = kidPos]
<1>1. Refresh(m, leafOf)[k] = IF ~Reached(k) THEN n ELSE new
  BY Zenon DEF Refresh
<1>2. m.cache[k] \in Nodes
  BY DEF Blocks
<1> HIDE DEF Told, Pos, Reached, pos, kidPos
<1>3. new.value = n.value /\ new.kid = n.kid
  <2> HIDE DEF n
  <2>1. n \in Nodes
    BY <1>2 DEF n
  <2> QED  BY <2>1 DEF Nodes
<1> QED  BY <1>1, <1>3

LEMMA FinishKeeps ==
  ASSUME IInv, Finish
  PROVE  /\ Keeps(oram, oram', {}) /\ oram'.lost = oram.lost
         /\ \E m : /\ Keeps(oram, m, {}) /\ Reads(oram, m)
                   /\ m.lost = oram.lost /\ m.modified = oram.modified
                   /\ oram'.lost = m.lost /\ oram'.readview = m.readview /\ oram'.writeview = m.writeview
                   /\ \E leafOf \in [oram.modified -> Leaves] : oram'.cache = Refresh(m, leafOf)
<1>1. pc = "finish" /\ geo' = geo /\ store' = store
  BY DEF Finish
<1>2. PICK pad \in SUBSET Leaves, leafOf \in [oram.modified -> Leaves] :
        LET m == FetchPaths([oram EXCEPT !.leafList = @ \cup pad], pad)
        IN  oram' = [m EXCEPT !.cache = Refresh(m, leafOf)]
  BY Zenon DEF Finish, Pads
<1> DEFINE o == [oram EXCEPT !.leafList = @ \cup pad]
           m == FetchPaths(o, pad)
           L == oram.leafList \cup pad
<1>3. Good(oram) /\ StoreOK
  BY <1>1, GoodWhenNotWriting
<1>4. oram \in Record(oram.cache) /\ Blocks(oram.cache) /\ Paths(oram.leafList) \subseteq oram.readview
  BY <1>3, GoodFields
<1>5. L \in SUBSET Leaves
  BY <1>4 DEF Record
<1>6. o = [oram EXCEPT !.leafList = L]
  BY <1>4 DEF Record
<1> HIDE DEF o
<1>7. /\ o \in Record(o.cache) /\ o.cache = oram.cache /\ o.leafList = L
      /\ o.readview = oram.readview /\ o.writeview = oram.writeview
      /\ o.modified = oram.modified /\ o.lost = oram.lost
  BY <1>4, <1>5, <1>6 DEF Record
<1>8. IsORAM(o) /\ Held(o)
  BY <1>3, <1>4, <1>7 DEF IsORAM, Record, Held, Good
<1>9. /\ IsORAM(m) /\ Held(m)
      /\ m.readview = oram.readview \cup Paths(pad)
      /\ m.leafList = L /\ m.modified = oram.modified
      /\ DOMAIN oram.cache \subseteq DOMAIN m.cache
  BY <1>3, <1>7, <1>8, FetchPathsIsGood
<1>a. Same(o, m, {}) /\ Reads(o, m) /\ m.lost = oram.lost
  BY <1>7, <1>8, FetchPathsIsSame
<1>10. Good(m)
  BY <1>4, <1>9, PathsOfTwo DEF Good
<1>11. oram' = [m EXCEPT !.cache = Refresh(m, leafOf)]
  BY <1>2 DEF o
<1> HIDE DEF m, L
<1>12. Blocks(Refresh(m, leafOf)) /\ DOMAIN Refresh(m, leafOf) = DOMAIN m.cache
  BY <1>9, <1>10, RefreshIsGood
<1>13. m \in Record(m.cache) /\ Blocks(m.cache) /\ Paths(m.leafList) \subseteq m.readview
  BY <1>10, GoodFields
<1>14. /\ oram' \in Record(oram'.cache) /\ oram'.cache = Refresh(m, leafOf)
       /\ oram'.leafList = m.leafList /\ oram'.lost = m.lost
       /\ oram'.readview = m.readview /\ oram'.writeview = m.writeview
  BY <1>11, <1>13 DEF Record
<1>15. Grown(m, oram')
  BY <1>10, <1>12, <1>13, <1>14, ChangeIsGood
<1>16. Grown(oram, oram')
  BY <1>9, <1>15 DEF Grown
<1>17. \A k \in DOMAIN m.cache : /\ oram'.cache[k].value = m.cache[k].value
                                 /\ oram'.cache[k].kid = m.cache[k].kid
  BY <1>13, <1>14, RefreshKeeps
<1>18. Same(oram, oram', {})
  <2>1. /\ m.readview = oram'.readview /\ oram.readview \subseteq m.readview
        /\ DOMAIN oram'.cache = DOMAIN m.cache
    BY <1>9, <1>12, <1>14
  <2>2. \A k \in DOMAIN oram.cache : /\ m.cache[k].value = oram.cache[k].value
                                     /\ m.cache[k].kid = oram.cache[k].kid
    BY <1>7, <1>a DEF Same
  <2>3. \A k \in DOMAIN m.cache \ DOMAIN oram.cache :
          \E b \in m.readview \ oram.readview : /\ k \in DOMAIN store[b]
                                                /\ m.cache[k].value = store[b][k].value
                                                /\ m.cache[k].kid = store[b][k].kid
    BY <1>7, <1>a DEF Same
  <2> QED  BY <1>9, <1>17, <2>1, <2>2, <2>3 DEF Same
<1>19. Listed(oram) => Listed(oram')
  BY <1>9, <1>a, <1>14, PathsOfTwo DEF Listed, L
<1>20. Keeps(oram, m, {}) /\ Reads(oram, m)
  <2>1. Grown(oram, m)
    BY <1>9, <1>10 DEF Grown
  <2>2. Same(oram, m, {}) /\ Reads(oram, m)
    BY <1>7, <1>a DEF Same, Reads
  <2>3. Listed(oram) => Listed(m)
    BY <1>9, <1>a, PathsOfTwo DEF Listed, L
  <2> QED  BY <1>a, <2>1, <2>2, <2>3 DEF Keeps
<1>21. Keeps(oram, oram', {})
  BY <1>a, <1>14, <1>16, <1>18, <1>19 DEF Keeps
<1> QED  BY <1>9, <1>a, <1>14, <1>20, <1>21

LEMMA FinishStutters ==
  ASSUME MInv, Finish
  PROVE  MInv' /\ [Map!Next]_(Map!vars)
<1>1. /\ pc = "finish" /\ pc' = "write" /\ geo' = geo /\ store' = store
      /\ at' = at /\ op' = op /\ path' = path /\ res' = res
      /\ root' = [root EXCEPT !.pos = IF root.key \in DOMAIN oram'.cache
                                        THEN oram'.cache[root.key].pos ELSE @]
  BY DEF Finish
<1>2. IInv /\ Apart(oram) /\ Listed(oram) /\ Ready /\ Searching /\ IInv'
  BY FinishIsGood DEF MInv
<1>3. root'.key = root.key
  BY <1>1, <1>2 DEF IInv, Control, Place
<1>4. Keeps(oram, oram', {}) /\ oram'.lost = oram.lost
  BY <1>2, FinishKeeps
<1>5. Apart(oram)' /\ Listed(oram)' /\ Contents' = Contents
  BY <1>1, <1>2, <1>4, Moved
<1>6. PICK L, span : /\ Shows(Buckets, store, oram, root.key, pc = "up", op.key, path, L)
                     /\ IsTree(Stored, L, span)
  BY <1>1, <1>2 DEF Searching
<1>7. Where(Stored, L, span, pc', op'.key, path', at'.key)
  BY <1>1 DEF Where
<1>8. Searching'
  BY <1>1, <1>2, <1>3, <1>4, <1>6, <1>7, TreeStays
<1>9. Ready'
  BY <1>1, <1>2, <1>4 DEF Ready
<1>10. UNCHANGED Map!vars
  BY <1>1, <1>5, MapStutters DEF Answered
<1> QED  BY <1>2, <1>5, <1>8, <1>9, <1>10 DEF MInv

\* A step after which every node's newest copy is what it was.
LEMMA CopiesMove ==
  ASSUME IInv, Searching, geo' = geo, root'.key = root.key,
         HaveIn(Buckets, store', oram') = Stored,
         \A k \in Stored : NewestIn(Buckets, store', oram', k) = Newest(k),
         \/ pc' = pc /\ op' = op /\ path' = path /\ at' = at
         \/ pc = "write" /\ pc' = "idle"
  PROVE  Stored' = Stored /\ Contents' = Contents /\ Searching'
<1>1. Stored' = Stored /\ Buckets' = Buckets
  BY NewestNext, GeoKept
<1>2. \A k \in Stored : Newest(k)' = Newest(k)
  BY NewestNext
<1>3. Contents' = Contents
  BY <1>1, <1>2 DEF Contents
<1>4. Searching'
  <2>1. CASE pc' \in {"lost", "broken"}
    BY <2>1 DEF Searching
  <2>2. CASE pc' \notin {"lost", "broken"}
    <3>1. PICK L, span : /\ Shows(Buckets, store, oram, root.key, pc = "up", op.key, path, L)
                         /\ IsTree(Stored, L, span)
                         /\ Where(Stored, L, span, pc, op.key, path, at.key)
      BY <2>2 DEF Searching
    <3>2. \A n \in Stored, s \in Side : \A top :
            LinkIn(Buckets, store', oram', top, n, s) = LinkIn(Buckets, store, oram, top, n, s)
      <4>1. \A n \in Stored : NewestIn(Buckets, store', oram', n) = NewestIn(Buckets, store, oram, n)
        BY Zenon DEF Newest, NewestIn
      <4> QED  BY <4>1 DEF LinkIn
    <3>3. \A s \in Side : \A top :
            LinkIn(Buckets, store', oram', top, 0, s) = LinkIn(Buckets, store, oram, top, 0, s)
      BY DEF LinkIn
    <3>4. HaveIn(Buckets, store, oram) = Stored
      BY DEF HaveIn, Stored
    <3>5. CASE pc' = pc /\ op' = op /\ path' = path /\ at' = at
      <4>1. Shows(Buckets, store', oram', root.key, pc = "up", op.key, path, L)
        BY <3>1, <3>2, <3>3, <3>4 DEF Shows
      <4> QED  BY <1>1, <3>1, <3>5, <4>1 DEF Searching
    <3>6. CASE pc = "write" /\ pc' = "idle"
      <4>1. \A n \in Stored \cup {0}, s \in Side : L[n][s] = LinkIn(Buckets, store, oram, root.key, n, s)
        BY <3>1, <3>4, <3>6 DEF Shows
      <4>2. \A n \in Stored \cup {0}, s \in Side : L[n][s] = LinkIn(Buckets, store', oram', root.key, n, s)
        BY <3>2, <3>3, <4>1
      <4>3. Shows(Buckets, store', oram', root'.key, pc' = "up", op'.key, path', L)
        BY <4>2 DEF Shows
      <4>4. Where(Stored, L, span, pc', op'.key, path', at'.key)
        BY <3>6 DEF Where
      <4> QED  BY <1>1, <3>1, <4>3, <4>4 DEF Searching
    <3> QED  BY <3>5, <3>6
  <2> QED  BY <2>1, <2>2
<1> QED  BY <1>1, <1>3, <1>4

\* A bucket is written: the newest copies of its blocks are now there.
LEMMA WriteMoves ==
  ASSUME MInv, Write
  PROVE  /\ HaveIn(Buckets, store', oram') = Stored
         /\ \A k \in Stored : NewestIn(Buckets, store', oram', k) = Newest(k)
         /\ Unshared(Buckets, store', oram')
         /\ oram'.lost = oram.lost /\ oram'.readview = oram.readview /\ oram'.leafList = oram.leafList
         /\ \E b \in Buckets : \E S \in Chosen(b) :
              /\ DOMAIN oram'.cache = DOMAIN oram.cache \ S
              /\ DOMAIN store'[b] = S /\ \A c \in Buckets \ {b} : store'[c] = store[c]
              /\ \A c \in Buckets : IsLive(oram', c) <=> IsLive(oram, c) \/ c = b
              /\ ~IsLive(oram, b)
<1>1. /\ pc = "write" /\ pc' = pc /\ geo' = geo /\ root' = root
      /\ at' = at /\ op' = op /\ path' = path /\ res' = res
  BY DEF Write
<1>2. IInv /\ Apart(oram) /\ Listed(oram) /\ Ready /\ Searching /\ IInv' /\ Stored \subseteq Stored'
  BY WriteIsGood DEF MInv
<1>3. PICK b \in Buckets : IsDeepest(b) /\ WriteBucket(b)
  BY DEF Write
<1>4. PICK S \in Chosen(b) :
        /\ store' = [store EXCEPT ![b] = Sub(oram.cache, S)]
        /\ oram' = [oram EXCEPT !.writeview = @ \cup {b},
                                !.cache = Sub(@, DOMAIN @ \ S)]
  BY Zenon, <1>3 DEF WriteBucket
<1> DEFINE C == Sub(oram.cache, DOMAIN oram.cache \ S)
           W == oram.writeview \cup {b}
<1>5. S \subseteq DOMAIN oram.cache
  BY DEF Chosen, Intersecting
<1>6. b \in oram.readview \ oram.writeview
  BY <1>2, <1>3 DEF IsDeepest, Unwritten, IInv, Memory, Kept
<1>7. oram \in Record(oram.cache)
  BY <1>2 DEF IInv, Memory, IsORAM, Record
<1>8. DOMAIN C = DOMAIN oram.cache \ S /\ \A k \in DOMAIN C : C[k] = oram.cache[k]
  BY <1>5 DEF Sub
<1>9. oram' = [oram EXCEPT !.writeview = W, !.cache = C]
  BY <1>4, <1>7 DEF Record
<1>10. DOMAIN store = Buckets
  BY <1>2 DEF IInv, Memory, StoreOK
<1>11. /\ DOMAIN store'[b] = S /\ \A k \in S : store'[b][k] = oram.cache[k]
       /\ \A c \in Buckets \ {b} : store'[c] = store[c]
  BY <1>3, <1>4, <1>5, <1>10 DEF Sub
<1> HIDE DEF C, W
<1>12. /\ oram'.cache = C /\ oram'.writeview = W /\ oram'.lost = oram.lost
       /\ oram'.readview = oram.readview /\ oram'.leafList = oram.leafList
  BY <1>7, <1>9 DEF Record
<1>13. \A c \in Buckets : IsLive(oram', c) <=> IsLive(oram, c) \/ c = b
  BY <1>6, <1>12 DEF IsLive, W
<1>14. ~IsLive(oram, b)
  BY <1>6 DEF IsLive
<1>15. Unshared(Buckets, store, oram) /\ Covered(Buckets, store, oram)
  <2>1. oram.writeview \subseteq Buckets
    BY <1>7 DEF Record
  <2> QED  BY <1>2, <2>1 DEF Apart, IInv, Memory, Kept, Covered
<1>16. Unshared(Buckets, store', oram')
  <2>1. ASSUME NEW c \in Buckets, IsLive(oram', c), NEW k \in DOMAIN store'[c], NEW d \in Buckets,
               IsLive(oram', d), k \in DOMAIN store'[d]
        PROVE  k \notin DOMAIN C /\ c = d
    <3>1. k \in DOMAIN C => k \in DOMAIN oram.cache /\ k \notin S
      BY <1>8
    <3>2. \A e \in Buckets : IsLive(oram', e) /\ k \in DOMAIN store'[e] =>
            \/ e = b /\ k \in S
            \/ IsLive(oram, e) /\ k \in DOMAIN store[e]
      BY <1>11, <1>13
    <3>3. \A e \in Buckets : IsLive(oram, e) /\ k \in DOMAIN store[e] => k \notin DOMAIN oram.cache
      BY <1>15 DEF Unshared
    <3>4. CASE k \in S
      BY <1>5, <2>1, <3>1, <3>2, <3>3, <3>4
    <3>5. CASE k \notin S
      BY <1>15, <2>1, <3>1, <3>2, <3>3, <3>5 DEF Unshared
    <3> QED  BY <3>4, <3>5
  <2> QED  BY <1>12, <2>1 DEF Unshared
<1>17. Covered(Buckets, store', oram')
  <2>1. Buckets' = Buckets
    BY <1>1, GeoKept
  <2>2. oram'.writeview \subseteq Buckets
    BY <1>3, <1>7, <1>12 DEF W, Record
  <2> QED  BY <1>2, <2>1, <2>2 DEF IInv, Memory, Kept, Covered
<1>18. HaveIn(Buckets, store', oram') = Stored
  <2>1. Stored \subseteq HaveIn(Buckets, store', oram')
    BY <1>1, <1>2, NewestNext
  <2>2. \A k \in DOMAIN oram'.cache : k \in Stored
    BY <1>8, <1>12 DEF Stored
  <2>3. \A c \in Buckets : \A k \in DOMAIN store'[c] : k \in Stored
    BY <1>5, <1>11 DEF Stored
  <2> QED  BY <2>1, <2>2, <2>3 DEF HaveIn
<1>19. ASSUME NEW k \in Stored PROVE NewestIn(Buckets, store', oram', k) = Newest(k)
  <2>1. Newest(k) = NewestIn(Buckets, store, oram, k)
    BY DEF Newest, NewestIn
  <2>2. CASE k \in DOMAIN oram.cache /\ k \notin S
    <3>1. NewestIn(Buckets, store', oram', k) = C[k]
      BY <1>8, <1>12, <1>16, <1>17, <2>2, NewestIs
    <3> QED  BY <1>8, <1>15, <2>1, <2>2, <3>1, NewestIs
  <2>3. CASE k \in S
    <3>1. NewestIn(Buckets, store', oram', k) = store'[b][k]
      BY <1>11, <1>13, <1>16, <1>17, <2>3, NewestIs
    <3> QED  BY <1>5, <1>11, <1>15, <2>1, <2>3, <3>1, NewestIs
  <2>4. CASE k \notin DOMAIN oram.cache
    <3>1. k \in HaveIn(Buckets, store, oram)
      BY <1>19 DEF Stored, HaveIn
    <3>2. PICK c \in Buckets : IsLive(oram, c) /\ k \in DOMAIN store[c]
      BY <1>15, <2>4, <3>1, NewestIs
    <3>3. NewestIn(Buckets, store, oram, k) = store[c][k]
      BY <1>15, <3>2, NewestIs
    <3>4. store'[c] = store[c] /\ IsLive(oram', c)
      BY <1>11, <1>13, <1>14, <3>2
    <3>5. NewestIn(Buckets, store', oram', k) = store'[c][k]
      BY <1>16, <1>17, <3>2, <3>4, NewestIs
    <3> QED  BY <2>1, <3>3, <3>4, <3>5
  <2> QED  BY <2>2, <2>3, <2>4
<1>20. DOMAIN oram'.cache = DOMAIN oram.cache \ S
  BY <1>8, <1>12
<1> QED  BY <1>11, <1>12, <1>13, <1>14, <1>16, <1>18, <1>19, <1>20

LEMMA WriteStutters ==
  ASSUME MInv, Write
  PROVE  MInv' /\ [Map!Next]_(Map!vars)
<1>1. /\ pc = "write" /\ pc' = pc /\ geo' = geo /\ root' = root
      /\ at' = at /\ op' = op /\ path' = path /\ res' = res
  BY DEF Write
<1>2. IInv /\ Apart(oram) /\ Listed(oram) /\ Ready /\ Searching /\ IInv'
  BY WriteIsGood DEF MInv
<1>3. /\ HaveIn(Buckets, store', oram') = Stored
      /\ \A k \in Stored : NewestIn(Buckets, store', oram', k) = Newest(k)
      /\ Unshared(Buckets, store', oram')
      /\ oram'.lost = oram.lost /\ oram'.readview = oram.readview /\ oram'.leafList = oram.leafList
  BY WriteMoves
<1>4. Stored' = Stored /\ Contents' = Contents /\ Searching'
  BY <1>1, <1>2, <1>3, CopiesMove
<1>5. Apart(oram)'
  BY <1>1, <1>3, NewestNext
<1>6. Listed(oram)'
  <2>1. \A T : Paths(T)' = Paths(T)
    BY <1>1, GeoKept DEF Paths
  <2> QED  BY <1>2, <1>3, <2>1 DEF Listed
<1>7. Ready'
  BY <1>1, <1>2, <1>3 DEF Ready
<1>8. UNCHANGED Map!vars
  BY <1>1, <1>4, MapStutters DEF Answered
<1> QED  BY <1>2, <1>4, <1>5, <1>6, <1>7, <1>8 DEF MInv

\* Everything that was fetched is written: an operation ends with the memory as it is.
LEMMA ReturnMoves ==
  ASSUME MInv, Return
  PROVE  /\ HaveIn(Buckets, store', oram') = Stored
         /\ \A k \in Stored : NewestIn(Buckets, store', oram', k) = Newest(k)
         /\ Unshared(Buckets, store', oram')
         /\ oram'.cache = oram.cache /\ ~oram.lost /\ ~oram'.lost
         /\ oram'.leafList = {} /\ oram'.readview = {} /\ oram'.writeview = {} /\ oram'.modified = {}
         /\ \A b \in Buckets : IsLive(oram, b) /\ IsLive(oram', b)
<1>1. /\ pc = "write" /\ pc' = "idle" /\ geo' = geo /\ store' = store /\ root' = root
      /\ path' = path /\ at' = NoNode /\ res' = None /\ op' = None /\ oram' = Cleared(oram)
      /\ Unwritten = {}
  BY DEF Return
<1>2. IInv /\ Apart(oram) /\ Listed(oram) /\ Ready /\ Searching /\ IInv'
  BY ReturnIsGood DEF MInv
<1>3. oram \in Record(oram.cache)
  BY <1>2 DEF IInv, Memory, IsORAM, Record
<1>4. /\ oram'.cache = oram.cache /\ oram'.lost = oram.lost
      /\ oram'.leafList = {} /\ oram'.readview = {} /\ oram'.writeview = {} /\ oram'.modified = {}
  BY <1>1, <1>3 DEF Cleared, Record
<1>5. ~oram.lost
  BY <1>1, <1>2 DEF Ready
<1>6. \A b \in Buckets : IsLive(oram, b) /\ IsLive(oram', b)
  <2>1. oram.readview \subseteq oram.writeview
    BY <1>1, <1>2, <1>5 DEF Listed, Unwritten
  <2> QED  BY <1>4, <2>1 DEF IsLive
<1>7. Unshared(Buckets, store, oram) /\ Covered(Buckets, store, oram)
  <2>1. oram.writeview \subseteq Buckets
    BY <1>3 DEF Record
  <2> QED  BY <1>2, <2>1 DEF Apart, IInv, Memory, Kept, Covered
<1>8. Unshared(Buckets, store', oram') /\ Covered(Buckets, store', oram')
  <2>1. Unshared(Buckets, store, oram')
    BY <1>4, <1>6, <1>7 DEF Unshared
  <2>2. Covered(Buckets, store, oram')
    BY <1>4 DEF Covered
  <2> QED  BY <1>1, <2>1, <2>2
<1>9. HaveIn(Buckets, store', oram') = Stored
  BY <1>1, <1>4 DEF HaveIn, Stored
<1>10. ASSUME NEW k \in Stored PROVE NewestIn(Buckets, store', oram', k) = Newest(k)
  <2>1. Newest(k) = NewestIn(Buckets, store, oram, k)
    BY DEF Newest, NewestIn
  <2>2. CASE k \in DOMAIN oram.cache
    BY <1>4, <1>7, <1>8, <2>1, <2>2, NewestIs
  <2>3. CASE k \notin DOMAIN oram.cache
    <3>1. k \in HaveIn(Buckets, store, oram)
      BY <1>10 DEF Stored, HaveIn
    <3>2. PICK c \in Buckets : IsLive(oram, c) /\ k \in DOMAIN store[c]
      BY <1>7, <2>3, <3>1, NewestIs
    <3>3. NewestIn(Buckets, store, oram, k) = store[c][k]
      BY <1>7, <3>2, NewestIs
    <3>4. store'[c] = store[c] /\ IsLive(oram', c)
      BY <1>1, <1>6
    <3>5. NewestIn(Buckets, store', oram', k) = store'[c][k]
      BY <1>8, <3>2, <3>4, NewestIs
    <3> QED  BY <2>1, <3>3, <3>4, <3>5
  <2> QED  BY <2>2, <2>3
<1> QED  BY <1>4, <1>5, <1>6, <1>8, <1>9, <1>10

LEMMA ReturnIsReturn ==
  ASSUME MInv, Return
  PROVE  MInv' /\ [Map!Next]_(Map!vars)
<1>1. /\ pc = "write" /\ pc' = "idle" /\ geo' = geo /\ store' = store /\ root' = root
      /\ path' = path /\ at' = NoNode /\ res' = None /\ op' = None /\ oram' = Cleared(oram)
      /\ Unwritten = {}
  BY DEF Return
<1>2. IInv /\ Apart(oram) /\ Listed(oram) /\ Ready /\ Searching /\ IInv'
  BY ReturnIsGood DEF MInv
<1>3. /\ HaveIn(Buckets, store', oram') = Stored
      /\ \A k \in Stored : NewestIn(Buckets, store', oram', k) = Newest(k)
      /\ Unshared(Buckets, store', oram') /\ ~oram.lost /\ ~oram'.lost
      /\ oram'.leafList = {} /\ oram'.readview = {}
  BY ReturnMoves
<1>4. Stored' = Stored /\ Contents' = Contents /\ Searching'
  BY <1>1, <1>2, <1>3, CopiesMove
<1>5. Apart(oram)'
  BY <1>1, <1>3, NewestNext
<1>6. Listed(oram)'
  BY <1>3 DEF Listed
<1>7. Ready'
  BY <1>1, <1>3 DEF Ready
<1>8. Answered # None /\ Answered' = None
  <2>1. [value |-> res] # None
    BY <1>2, NoneFacts DEF IInv, Control
  <2> QED  BY <1>1, <2>1 DEF Answered
<1>9. Map!Return
  BY <1>1, <1>4, <1>8 DEF Map!Return, Answered
<1>10. Map!Next
  BY <1>9 DEF Map!Next
<1> QED  BY <1>2, <1>4, <1>5, <1>6, <1>7, <1>10 DEF MInv

\* The empty map, and its empty tree.
LEMMA InitIsMapInit == Init => MInv /\ Map!Init
<1> SUFFICES ASSUME Init PROVE MInv /\ Map!Init
  OBVIOUS
<1>1. /\ store = [b \in Buckets |-> <<>>] /\ oram = NewORAM /\ root = NoNode /\ at = NoNode
      /\ pc = "idle" /\ op = None /\ path = <<>> /\ res = None
  BY DEF Init
<1>2. IInv
  BY InitInv
<1>3. /\ DOMAIN oram.cache = {} /\ oram.readview = {} /\ oram.lost = FALSE /\ root.key = 0
      /\ \A b \in Buckets : DOMAIN store[b] = {}
  BY <1>1 DEF NewORAM, NoNode
<1>4. Stored = {}
  BY <1>3 DEF Stored
<1>5. Apart(oram) /\ Listed(oram)
  BY <1>3 DEF Apart, Unshared, Listed
<1>6. Ready
  BY <1>1, <1>3 DEF Ready
<1>7. Searching
  <2> DEFINE L == [n \in {0} |-> [s \in Side |-> 0]]
             span == [n \in NodeKey |-> IF n = 0 THEN Key ELSE {}]
             K == {}
  <2>1. \A s \in Side : L[0][s] = 0
    OBVIOUS
  <2>2. span \in [NodeKey -> SUBSET Key] /\ span[0] = Key
    BY DEF NodeKey
  <2> HIDE DEF L, span
  <2>3. \A s \in Side : Linked(K, L, span, 0, s)
    BY <2>1 DEF Linked
  <2>4. IsTree(K, L, span)
    BY <2>2, <2>3 DEF IsTree, Nested
  <2>5. Shows(Buckets, store, oram, root.key, pc = "up", op.key, path, L)
    <3>1. HaveIn(Buckets, store, oram) = {}
      BY <1>4 DEF HaveIn, Stored
    <3> QED  BY <1>3, <2>1, <3>1 DEF Shows, LinkIn
  <2>6. Where(K, L, span, pc, op.key, path, at.key)
    BY <1>1 DEF Where
  <2>7. IsTree(Stored, L, span) /\ Where(Stored, L, span, pc, op.key, path, at.key)
    BY <1>4, <2>4, <2>6
  <2> QED  BY <2>5, <2>7 DEF Searching
<1>8. Map!Init
  <2>1. Contents = <<>>
    BY <1>4 DEF Contents
  <2>2. Answered = None
    BY <1>1 DEF Answered
  <2> QED  BY <1>1, <2>1, <2>2 DEF Map!Init, Answered
<1> QED  BY <1>2, <1>5, <1>6, <1>7, <1>8 DEF MInv

LEMMA StutterIsStutter ==
  ASSUME MInv, UNCHANGED vars
  PROVE  MInv' /\ UNCHANGED Map!vars
<1>1. /\ geo' = geo /\ store' = store /\ oram' = oram /\ root' = root /\ pc' = pc
      /\ op' = op /\ at' = at /\ path' = path /\ res' = res
  BY DEF vars
<1>2. IInv /\ Apart(oram) /\ Listed(oram) /\ Ready /\ Searching /\ IInv'
  BY StutterInv DEF MInv
<1>3. HaveIn(Buckets, store', oram') = Stored /\ \A k : NewestIn(Buckets, store', oram', k) = Newest(k)
  BY <1>1 DEF HaveIn, Stored, Newest, NewestIn
<1>4. Contents' = Contents /\ Searching'
  BY <1>1, <1>2, <1>3, CopiesMove
<1>5. Apart(oram)'
  <2>1. Unshared(Buckets, store', oram')
    BY <1>1, <1>2 DEF Apart
  <2> QED  BY <1>1, <2>1, NewestNext
<1>6. Listed(oram)'
  <2>1. \A T : Paths(T)' = Paths(T)
    BY <1>1, GeoKept DEF Paths
  <2> QED  BY <1>1, <1>2, <2>1 DEF Listed
<1>7. Ready'
  BY <1>1, <1>2 DEF Ready
<1>8. UNCHANGED Map!vars
  BY <1>1, <1>4, MapStutters DEF Answered
<1> QED  BY <1>2, <1>4, <1>5, <1>6, <1>7, <1>8 DEF MInv

LEMMA NextIsMapNext ==
  ASSUME MInv, Next
  PROVE  MInv' /\ [Map!Next]_(Map!vars)
BY StartIsCall, FindMissIsFind, FindHitIsFind, FindDownStutters, InsertDownStutters,
   InsertNewIsInsert, InsertSameIsInsert, InsertUpStutters, InsertDoneStutters, FinishStutters,
   WriteStutters, ReturnIsReturn DEF Next

\* The oblivious map implements a plain map, for every geometry, key and value set:
\* an operation of AVLTree.cpp that comes to its end took effect once, and a find
\* answered with the value of the last insert of its key, or with nothing if there
\* was none, whatever rotations the tree made, whichever leaves its blocks were
\* given, and however full the buckets are.  An operation that meets a node it cannot
\* read stops without an answer here ("lost"); OMAPPlacedProofs says where there is none.
THEOREM OMAPIsAMap == Spec => MapSpec
<1>1. Init => MInv /\ Map!Init
  BY InitIsMapInit
<1>2. MInv /\ [Next]_vars => MInv' /\ [Map!Next]_(Map!vars)
  BY NextIsMapNext, StutterIsStutter
<1> QED  BY <1>1, <1>2, PTL DEF Spec, MapSpec, Map!Spec
=============================================================================
