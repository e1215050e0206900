-------------------------- MODULE OMAPPlacedProofs --------------------------
(***************************************************************************)
(* Proof, for every tree of buckets, bucket size and set of keys whose     *)
(* trees are no higher than maxHeightOfAVLTree, that the oblivious map     *)
(* never misses a node: every block is where its parent says, and the AVL  *)
(* tree is balanced between operations.                                    *)
(*                                                                         *)
(* Where a function f of nodes appears, it is the tree as the operation    *)
(* sees it: the newest copy of each node.  The parts are, in this order:   *)
(* the ORAM's operators keep the nodes and where they are; a rotation; the *)
(* balance on the way up of an insert; each action; the fewest nodes of a  *)
(* balanced tree, so that finilize reaches all of it; the theorems.        *)
(***************************************************************************)
EXTENDS OMAPProofs, WellFoundedInduction

USE DEF Side, NoPos

-----------------------------------------------------------------------------
(* The ORAM's operators: the nodes stay what they are, and can be found.     *)

\* A block is in the cache, or in a bucket on its path that was not read yet or is
\* written back already.
FoundIn(st, m, k, pos) ==
  k \in DOMAIN m.cache \/ \E b \in Path(pos) : IsLive(m, b) /\ k \in DOMAIN st[b]

\* The ORAM holds the nodes f, each where its position says, and lost none.
Holds(m, f) ==
  /\ Good(m) /\ Apart(m) /\ ~m.lost /\ DOMAIN f = Have(m)
  /\ \A k \in DOMAIN f : Seen(m, k) = f[k] /\ FoundIn(store, m, k, f[k].pos)

\* What the cache holds are those nodes.
LEMMA HoldsCached ==
  ASSUME NEW m, NEW f, Holds(m, f)
  PROVE  DOMAIN m.cache \subseteq DOMAIN f /\ \A k \in DOMAIN m.cache : m.cache[k] = f[k]
<1>1. \A k \in DOMAIN m.cache : k \in Have(m) /\ Seen(m, k) = m.cache[k]
  BY GoodIsCovered, NewestIs DEF Holds, Have, HaveIn, Seen, Apart
<1> QED  BY <1>1 DEF Holds

LEMMA HoldsNodes ==
  ASSUME NEW m, NEW f, Holds(m, f), StoreOK
  PROVE  DOMAIN f \subseteq Key /\ 0 \notin DOMAIN f /\ \A k \in DOMAIN f : f[k] \in Nodes
<1>1. ASSUME NEW k \in DOMAIN f
      PROVE  k \in Key /\ f[k] \in Nodes
  <2>1. CASE k \in DOMAIN m.cache
    BY <2>1, HoldsCached, NodeAt DEF Holds
  <2>2. CASE k \notin DOMAIN m.cache
    <3>1. PICK b \in Buckets : IsLive(m, b) /\ k \in DOMAIN store[b]
      BY <2>2, GoodIsCovered, NewestIs DEF Holds, Have, Apart
    <3>2. f[k] = store[b][k]
      BY <3>1, GoodIsCovered, NewestIs DEF Holds, Seen, Apart
    <3> QED  BY <3>1, <3>2 DEF StoreOK, Blocks
  <2> QED  BY <2>1, <2>2
<1> QED  BY <1>1, Sides

\* Fetching paths neither changes nor hides a node.
LEMMA ReadsHolds ==
  ASSUME NEW m, NEW f, Holds(m, f), NEW n, Keeps(m, n, {}), Reads(m, n), ~n.lost
  PROVE  Holds(n, f)
<1>1. /\ Good(m) /\ Apart(m) /\ Good(n) /\ m.writeview = {} /\ n.writeview = {}
      /\ Apart(n) /\ Have(n) = Have(m) /\ m.readview \subseteq n.readview /\ n.readview \subseteq Buckets
  BY KeepsSeen, GoodIsCovered DEF Holds, Keeps, Grown, Reads, Good, IsORAM
<1>2. \A k \in DOMAIN n.cache : Seen(n, k) = n.cache[k]
  BY <1>1, KeepsSeen
<1>3. ASSUME NEW k \in DOMAIN f
      PROVE  Seen(n, k) = f[k] /\ FoundIn(store, n, k, f[k].pos)
  <2>0. Seen(m, k) = f[k] /\ FoundIn(store, m, k, f[k].pos) /\ k \in Have(m)
    BY <1>3 DEF Holds
  <2>1. CASE k \in DOMAIN m.cache
    BY <1>2, <2>1, HoldsCached DEF Reads, FoundIn
  <2>2. CASE k \in DOMAIN n.cache \ DOMAIN m.cache
    <3>1. PICK b \in n.readview \ m.readview : k \in DOMAIN store[b] /\ n.cache[k] = store[b][k]
      BY <2>2 DEF Reads
    <3>2. Seen(m, k) = store[b][k]
      BY <1>1, <3>1, GoodIsCovered, NewestIs DEF Seen, Apart, IsLive
    <3> QED  BY <1>2, <2>0, <2>2, <3>1, <3>2 DEF FoundIn
  <2>3. CASE k \notin DOMAIN n.cache
    <3>0. k \notin DOMAIN m.cache
      BY <2>3 DEF Reads
    <3>1. PICK b \in Buckets : b \notin n.readview /\ k \in DOMAIN store[b]
      BY <1>1, <2>0, <2>3, GoodIsCovered, NewestIs DEF Have, Apart, IsLive
    <3>2. Seen(m, k) = store[b][k] /\ Seen(n, k) = store[b][k]
      BY <1>1, <3>1, GoodIsCovered, NewestIs DEF Seen, Apart, IsLive
    <3>3. PICK c \in Path(f[k].pos) : c \notin m.readview /\ k \in DOMAIN store[c]
      BY <1>1, <2>0, <3>0 DEF FoundIn, IsLive
    <3>4. c \notin n.readview
      BY <1>1, <2>3, <3>3 DEF Good, Held
    <3> QED  BY <2>0, <3>2, <3>3, <3>4 DEF FoundIn, IsLive
  <2> QED  BY <2>1, <2>2, <2>3
<1> QED  BY <1>1, <1>3 DEF Holds

LEMMA PathIsBuckets ==
  ASSUME NEW leaf \in Leaves
  PROVE  Path(leaf) \subseteq Buckets
BY DEF Buckets, Paths

\* A path that is read brings the blocks whose path it is.
LEMMA ReadNodeHolds ==
  ASSUME NEW m, NEW f, Holds(m, f), StoreOK, NEW k \in DOMAIN f, NEW pos, pos = f[k].pos
  PROVE  LET n == ReadNode(m, k, pos)
         IN  /\ Holds(n, f) /\ k \in DOMAIN n.cache /\ DOMAIN m.cache \subseteq DOMAIN n.cache
             /\ n.modified = m.modified \cup {k}
<1> DEFINE g == IF k \in DOMAIN m.cache /\ pos \in m.leafList THEN m ELSE FetchPath(m, pos)
           n == ReadNode(m, k, pos)
<1>1. k \in Key /\ k # 0 /\ f[k] \in Nodes /\ pos \in Leaves /\ Good(m) /\ ~m.lost
  BY HoldsNodes DEF Holds, Nodes
<1>2. /\ Good(g) /\ Reads(m, g) /\ g.lost = m.lost /\ g.modified = m.modified
      /\ k \in DOMAIN g.cache
  <2>1. CASE k \in DOMAIN m.cache /\ pos \in m.leafList
    <3>1. g = m
      BY <2>1
    <3> QED  BY <1>1, <2>1, <3>1 DEF Reads
  <2>2. CASE ~(k \in DOMAIN m.cache /\ pos \in m.leafList)
    <3>1. g = FetchPath(m, pos)
      BY <2>2
    <3> HIDE DEF g
    <3>2. /\ Good(g) /\ Reads(m, g) /\ g.lost = m.lost /\ g.modified = m.modified
          /\ Path(pos) \subseteq g.readview
      BY <1>1, <3>1, FetchPathIsGood, FetchPathIsSame DEF Grown
    <3>3. k \in DOMAIN g.cache
      <4>1. CASE k \in DOMAIN m.cache
        BY <3>2, <4>1 DEF Reads
      <4>2. CASE k \notin DOMAIN m.cache
        <5>1. PICK b \in Path(pos) : k \in DOMAIN store[b]
          BY <4>2 DEF Holds, FoundIn
        <5> QED  BY <3>2, <5>1 DEF Good, Held
      <4> QED  BY <4>1, <4>2
    <3> QED  BY <3>2, <3>3
  <2> QED  BY <2>1, <2>2
<1>3. n = [g EXCEPT !.cache[k].pos = pos, !.leafList = @ \cup {pos}, !.modified = @ \cup {k}]
  BY <1>1, <1>2 DEF ReadNode
<1>4. Keeps(m, n, {})
  BY <1>1, ReadNodeKeeps DEF Placing, NodeKey
<1> HIDE DEF g, n
<1>5. g \in Record(g.cache) /\ Blocks(g.cache)
  BY <1>2, GoodFields
<1>6. g.cache[k].pos = pos
  <2>1. CASE k \in DOMAIN m.cache
    BY <1>2, <2>1, HoldsCached DEF Reads
  <2>2. CASE k \notin DOMAIN m.cache
    <3>1. PICK b \in g.readview \ m.readview : k \in DOMAIN store[b] /\ g.cache[k] = store[b][k]
      BY <1>2, <2>2 DEF Reads
    <3>2. b \in Buckets /\ m.writeview = {}
      BY <1>1, <1>2 DEF Good, IsORAM, Held
    <3>3. Seen(m, k) = store[b][k]
      BY <1>1, <3>1, <3>2, GoodIsCovered, NewestIs DEF Holds, Seen, Apart, IsLive
    <3> QED  BY <3>1, <3>3 DEF Holds
  <2> QED  BY <2>1, <2>2
<1>7. [g.cache[k] EXCEPT !.pos = pos] = g.cache[k]
  <2>1. g.cache[k] \in Nodes
    BY <1>2, NodeAt
  <2> QED  BY <1>6, <2>1 DEF Nodes
<1>8. n.cache = g.cache /\ n.readview = g.readview /\ n.lost = g.lost /\ n.modified = g.modified \cup {k}
  <2>1. [g.cache EXCEPT ![k] = [@ EXCEPT !.pos = pos]] = g.cache
    BY <1>2, <1>5, <1>7 DEF Blocks
  <2>2. n = [g EXCEPT !.cache = [g.cache EXCEPT ![k] = [@ EXCEPT !.pos = pos]],
                      !.leafList = @ \cup {pos}, !.modified = @ \cup {k}]
    BY <1>3, <1>5 DEF Record
  <2> QED  BY Zenon, <1>5, <2>1, <2>2 DEF Record
<1>9. Reads(m, n) /\ ~n.lost
  BY <1>1, <1>2, <1>8 DEF Reads
<1> QED  BY <1>2, <1>4, <1>8, <1>9, ReadsHolds DEF n, Reads

\* One node is changed, or is new.
Updates(f, g, k, node) == DOMAIN g = DOMAIN f \cup {k} /\ g[k] = node /\ \A j \in DOMAIN f \ {k} : g[j] = f[j]

\* A node put into the cache is the newest from then on.
LEMMA PutHolds ==
  ASSUME NEW m, NEW f, Holds(m, f), NEW n, NEW k, Puts(m, n, k), ~n.lost,
         NEW g, Updates(f, g, k, n.cache[k])
  PROVE  Holds(n, g)
<1>1. /\ Good(m) /\ Good(n) /\ Apart(m) /\ DOMAIN f = Have(m) /\ m.writeview = {} /\ n.writeview = {}
      /\ n.readview = m.readview /\ k \in DOMAIN n.cache /\ DOMAIN m.cache \subseteq DOMAIN n.cache
  BY GoodIsCovered DEF Holds, Puts
<1>2. /\ Apart(n) /\ Have(n) = Have(m) \cup {k} /\ Seen(n, k) = n.cache[k]
      /\ \A j \in Have(m) \ {k} : Seen(n, j) = Seen(m, j)
  BY <1>1, PutsSeen
<1>3. ASSUME NEW j \in DOMAIN g
      PROVE  Seen(n, j) = g[j] /\ FoundIn(store, n, j, g[j].pos)
  <2>1. CASE j = k
    BY <1>1, <1>2, <2>1 DEF FoundIn, Updates
  <2>2. CASE j # k
    <3>1. j \in DOMAIN f /\ g[j] = f[j] /\ Seen(m, j) = f[j] /\ FoundIn(store, m, j, f[j].pos)
      BY <1>3, <2>2 DEF Holds, Updates
    <3> QED  BY <1>1, <1>2, <2>2, <3>1 DEF FoundIn, IsLive
  <2> QED  BY <2>1, <2>2
<1> QED  BY <1>1, <1>2, <1>3 DEF Holds, Updates

\* The cache only gains nodes, and only those of X are noted as modified.
Works(m, o, X) == DOMAIN m.cache \subseteq DOMAIN o.cache /\ o.modified \subseteq m.modified \cup X

LEMMA WorksTwice ==
  ASSUME NEW m, NEW n, NEW o, NEW X, NEW Y, Works(m, n, X), Works(n, o, Y)
  PROVE  Works(m, o, X \cup Y)
BY DEF Works

Changed(m, n, k, node) ==
  n = [m EXCEPT !.cache[k] = node] \/ n = [m EXCEPT !.cache[k] = node, !.modified = @ \cup {k}]

LEMMA ChangeHolds ==
  ASSUME NEW m, NEW f, Holds(m, f), NEW k \in DOMAIN m.cache, NEW node \in Nodes,
         NEW n, Changed(m, n, k, node)
  PROVE  Holds(n, [f EXCEPT ![k] = node]) /\ Works(m, n, {k}) /\ DOMAIN n.cache = DOMAIN m.cache
<1>1. Good(m) /\ k \in DOMAIN f /\ ~m.lost
  BY HoldsCached DEF Holds
<1>2. m \in Record(m.cache) /\ Blocks(m.cache)
  BY <1>1, GoodFields
<1>3. Good(n)
  <2>1. CASE n = [m EXCEPT !.cache[k] = node]
    BY <1>1, <2>1, NodeChangeIsGood DEF Grown
  <2>2. CASE n = [m EXCEPT !.cache[k] = node, !.modified = @ \cup {k}]
    BY Zenon, <1>1, <2>2, NodeNotedIsGood DEF Grown
  <2> QED  BY Zenon, <2>1, <2>2 DEF Changed
<1>4. /\ n.cache = [m.cache EXCEPT ![k] = node] /\ n.readview = m.readview /\ n.lost = m.lost
      /\ n.modified \subseteq m.modified \cup {k}
  <2>1. CASE n = [m EXCEPT !.cache[k] = node]
    BY <1>2, <2>1 DEF Record
  <2>2. CASE n = [m EXCEPT !.cache[k] = node, !.modified = @ \cup {k}]
    BY <1>2, <2>2 DEF Record
  <2> QED  BY Zenon, <2>1, <2>2 DEF Changed
<1>5. Puts(m, n, k)
  BY <1>1, <1>3, <1>4 DEF Puts
<1>6. Holds(n, [f EXCEPT ![k] = node])
  <2> DEFINE g == [f EXCEPT ![k] = node]
  <2>1. Updates(f, g, k, n.cache[k])
    BY <1>1, <1>4 DEF Updates
  <2> HIDE DEF g
  <2>2. ~n.lost
    BY <1>1, <1>4
  <2>3. Holds(n, g)
    BY <1>5, <2>1, <2>2, PutHolds
  <2> QED  BY <2>3 DEF g
<1> QED  BY <1>4, <1>6 DEF Works

Joined(f, n, s, c, pos) == [f EXCEPT ![n] = [@ EXCEPT !.kid[s] = c, !.kidPos[s] = pos]]

\* A link that is set.
LEMMA LinkHolds ==
  ASSUME NEW m, NEW f, Holds(m, f), NEW n \in DOMAIN m.cache, NEW s \in Side,
         NEW c \in NodeKey, NEW pos \in Leaves \cup {NoPos}, Placing(c, pos)
  PROVE  LET l == Link(m, n, s, c, pos)
         IN  Holds(l, Joined(f, n, s, c, pos)) /\ DOMAIN l.cache = DOMAIN m.cache /\ Works(m, l, {})
<1> DEFINE l == Link(m, n, s, c, pos)
           old == m.cache[n]
           node == [old EXCEPT !.kid[s] = c, !.kidPos[s] = pos]
<1>0. Good(m) /\ old = f[n] /\ n \in DOMAIN f
  BY HoldsCached DEF Holds
<1>1. m \in Record(m.cache) /\ Blocks(m.cache)
  BY <1>0, GoodFields
<1>2. old \in Nodes
  BY <1>0, NodeAt
<1>3. /\ old \in [value : Value, pos : Leaves, height : Nat,
                  kid : [Side -> NodeKey], kidPos : [Side -> Leaves \cup {NoPos}]]
      /\ \A r \in Side : Placing(old.kid[r], old.kidPos[r])
  BY <1>2, NodeFields
<1>4. /\ node \in [value : Value, pos : Leaves, height : Nat,
                   kid : [Side -> NodeKey], kidPos : [Side -> Leaves \cup {NoPos}]]
      /\ node.kid = [old.kid EXCEPT ![s] = c] /\ node.kidPos = [old.kidPos EXCEPT ![s] = pos]
  BY Zenon, <1>3
<1>5. \A r \in Side : Placing(node.kid[r], node.kidPos[r])
  BY <1>3, <1>4
<1>6. node \in Nodes
  BY Zenon, <1>4, <1>5 DEF Nodes
<1>7. l = [m EXCEPT !.cache[n] = node]
  BY Zenon, <1>1, <1>3 DEF Link, Record, Blocks
<1>8. Joined(f, n, s, c, pos) = [f EXCEPT ![n] = node]
  BY <1>0 DEF Joined
<1>9. l.modified = m.modified
  BY <1>1, <1>7 DEF Record
<1> HIDE DEF l, node
<1>10. Holds(l, [f EXCEPT ![n] = node]) /\ DOMAIN l.cache = DOMAIN m.cache
  <2>1. Changed(m, l, n, node)
    BY Zenon, <1>7 DEF Changed
  <2> QED  BY <1>6, <2>1, ChangeHolds
<1> QED  BY <1>8, <1>9, <1>10 DEF l, Works

\* The height of a node, none for no node; the node n with its height set.
H(f, k) == IF k = 0 THEN 0 ELSE f[k].height
Big(a, b) == IF a > b THEN a ELSE b
Raised(f, n) == [f EXCEPT ![n] = [@ EXCEPT !.height = 1 + Big(H(f, f[n].kid["l"]), H(f, f[n].kid["r"]))]]

\* The node n knows where its child on side s is.
Tells(f, n, s) == LET c == f[n].kid[s]
                  IN  c # 0 => c \in DOMAIN f /\ f[n].kidPos[s] = f[c].pos
KidsOf(f, n) == {f[n].kid[s] : s \in Side} \ {0}

LEMMA ReadKidHolds ==
  ASSUME NEW m, NEW f, Holds(m, f), StoreOK, NEW n \in DOMAIN m.cache, NEW s \in Side, Tells(f, n, s)
  PROVE  LET o == ReadKid(m, n, s)
         IN  Holds(o, f) /\ f[n].kid[s] \in DOMAIN o.cache \cup {0} /\ Works(m, o, KidsOf(f, n))
<1> DEFINE c == f[n].kid[s]
<1>1. ReadKid(m, n, s) = ReadNode(m, c, f[n].kidPos[s])
  BY HoldsCached DEF ReadKid
<1>2. CASE c = 0
  <2>1. ReadKid(m, n, s) = m
    BY <1>1, <1>2 DEF ReadNode
  <2> QED  BY <1>2, <2>1 DEF Works
<1>3. CASE c # 0
  BY <1>1, <1>3, ReadNodeHolds DEF Tells, Works, KidsOf
<1> QED  BY <1>2, <1>3

LEMMA HeightHolds ==
  ASSUME NEW m, NEW f, Holds(m, f), StoreOK, NEW k \in DOMAIN m.cache \cup {0}
  PROVE  Height(m, k) = H(f, k) /\ H(f, k) \in Nat
<1>1. 0 \notin DOMAIN m.cache
  BY HoldsCached, HoldsNodes
<1> QED  BY <1>1, HoldsCached, HoldsNodes DEF Height, H, Nodes

\* A height that is set: the children are read.
LEMMA SetHeightHolds ==
  ASSUME NEW m, NEW f, Holds(m, f), StoreOK, NEW n \in DOMAIN m.cache, \A s \in Side : Tells(f, n, s)
  PROVE  LET o == SetHeight(m, n)
         IN  /\ Holds(o, Raised(f, n)) /\ KidsOf(f, n) \subseteq DOMAIN o.cache
             /\ Works(m, o, KidsOf(f, n) \cup {n})
<1> DEFINE m0 == ReadKid(m, n, "l")
           m1 == ReadKid(m0, n, "r")
           l == Height(m1, m.cache[n].kid["l"])
           r == Height(m1, m.cache[n].kid["r"])
           h == 1 + (IF l > r THEN l ELSE r)
           node == [m1.cache[n] EXCEPT !.height = h]
           o == SetHeight(m, n)
<1>1. Holds(m0, f) /\ f[n].kid["l"] \in DOMAIN m0.cache \cup {0} /\ Works(m, m0, KidsOf(f, n))
  BY ReadKidHolds
<1>2. n \in DOMAIN m0.cache
  BY <1>1 DEF Works
<1> HIDE DEF m0
<1>3. Holds(m1, f) /\ f[n].kid["r"] \in DOMAIN m1.cache \cup {0} /\ Works(m0, m1, KidsOf(f, n))
  BY <1>1, <1>2, ReadKidHolds
<1>4. n \in DOMAIN m1.cache /\ f[n].kid["l"] \in DOMAIN m1.cache \cup {0}
  BY <1>1, <1>2, <1>3 DEF Works
<1>5. o = [m1 EXCEPT !.cache[n].height = h, !.modified = @ \cup {n}]
  BY DEF SetHeight, m0
<1> HIDE DEF m1, o
<1>6. /\ l = H(f, f[n].kid["l"]) /\ r = H(f, f[n].kid["r"]) /\ l \in Nat /\ r \in Nat
  BY <1>3, <1>4, HeightHolds, HoldsCached
<1>7. m1.cache[n] = f[n] /\ f[n] \in Nodes /\ Good(m1) /\ n \in DOMAIN f
  BY <1>3, <1>4, HoldsCached, HoldsNodes DEF Holds
<1> HIDE DEF l, r
<1>8. h = 1 + Big(H(f, f[n].kid["l"]), H(f, f[n].kid["r"])) /\ h \in Nat
  BY <1>6 DEF Big
<1> HIDE DEF h
<1>9. m1 \in Record(m1.cache) /\ Blocks(m1.cache)
  BY <1>7, GoodFields
<1>10. node \in Nodes
  BY <1>7, <1>8 DEF Nodes
<1>11. o = [m1 EXCEPT !.cache[n] = node, !.modified = @ \cup {n}]
  BY <1>4, <1>5, <1>9 DEF Record
<1>12. [f EXCEPT ![n] = node] = Raised(f, n)
  BY <1>7, <1>8 DEF Raised
<1> HIDE DEF node
<1>13. Holds(o, Raised(f, n)) /\ Works(m1, o, {n}) /\ DOMAIN o.cache = DOMAIN m1.cache
  <2>1. Changed(m1, o, n, node)
    BY Zenon, <1>11 DEF Changed
  <2> QED  BY <1>3, <1>4, <1>10, <1>12, <2>1, ChangeHolds
<1>14. KidsOf(f, n) \subseteq DOMAIN o.cache
  BY <1>3, <1>4, <1>13 DEF KidsOf
<1> QED  BY <1>1, <1>3, <1>13, <1>14 DEF Works, o

-----------------------------------------------------------------------------
(* A rotation.                                                               *)

LEMMA JoinedIs ==
  ASSUME NEW f, NEW n \in DOMAIN f, f[n] \in Nodes, NEW s \in Side, NEW c, NEW pos
  PROVE  LET g == Joined(f, n, s, c, pos)
             u == Other(s)
         IN  /\ DOMAIN g = DOMAIN f /\ \A i \in DOMAIN f \ {n} : g[i] = f[i]
             /\ g[n].value = f[n].value /\ g[n].pos = f[n].pos /\ g[n].height = f[n].height
             /\ g[n].kid[s] = c /\ g[n].kidPos[s] = pos
             /\ g[n].kid[u] = f[n].kid[u] /\ g[n].kidPos[u] = f[n].kidPos[u]
<1> DEFINE g == Joined(f, n, s, c, pos)
           u == Other(s)
           node == [f[n] EXCEPT !.kid[s] = c, !.kidPos[s] = pos]
<1>1. f[n] \in [value : Value, pos : Leaves, height : Nat,
                kid : [Side -> NodeKey], kidPos : [Side -> Leaves \cup {NoPos}]]
  BY NodeFields
<1>2. /\ node.value = f[n].value /\ node.pos = f[n].pos /\ node.height = f[n].height
      /\ node.kid = [f[n].kid EXCEPT ![s] = c] /\ node.kidPos = [f[n].kidPos EXCEPT ![s] = pos]
  BY Zenon, <1>1
<1>3. g = [f EXCEPT ![n] = node]
  BY DEF Joined
<1>4. u \in Side /\ u # s
  BY Sides
<1> HIDE DEF node, g, u
<1>5. /\ node.kid[s] = c /\ node.kidPos[s] = pos
      /\ node.kid[u] = f[n].kid[u] /\ node.kidPos[u] = f[n].kidPos[u]
  BY <1>1, <1>2, <1>4
<1>6. DOMAIN g = DOMAIN f /\ g[n] = node /\ \A i \in DOMAIN f \ {n} : g[i] = f[i]
  BY <1>3
<1> QED  BY <1>2, <1>5, <1>6 DEF g, u

LEMMA RaisedIs ==
  ASSUME NEW f, NEW n \in DOMAIN f, f[n] \in Nodes
  PROVE  LET g == Raised(f, n)
         IN  /\ DOMAIN g = DOMAIN f /\ \A i \in DOMAIN f \ {n} : g[i] = f[i]
             /\ g[n].value = f[n].value /\ g[n].pos = f[n].pos
             /\ g[n].kid = f[n].kid /\ g[n].kidPos = f[n].kidPos
             /\ g[n].height = 1 + Big(H(f, f[n].kid["l"]), H(f, f[n].kid["r"]))
<1> DEFINE h == 1 + Big(H(f, f[n].kid["l"]), H(f, f[n].kid["r"]))
           node == [f[n] EXCEPT !.height = h]
           g == Raised(f, n)
<1>1. g = [f EXCEPT ![n] = node]
  BY DEF Raised
<1> HIDE DEF h
<1>2. /\ node.value = f[n].value /\ node.pos = f[n].pos /\ node.height = h
      /\ node.kid = f[n].kid /\ node.kidPos = f[n].kidPos
  BY NodeFields
<1> HIDE DEF node, g
<1>3. DOMAIN g = DOMAIN f /\ g[n] = node /\ \A i \in DOMAIN f \ {n} : g[i] = f[i]
  BY <1>1
<1> QED  BY <1>2, <1>3 DEF g, h

LEMMA BigSym ==
  ASSUME NEW a \in Nat, NEW b \in Nat
  PROVE  Big(a, b) = Big(b, a) /\ Big(a, b) \in Nat
BY DEF Big

LEMMA KidsAre ==
  ASSUME NEW f, NEW n, NEW s \in Side
  PROVE  KidsOf(f, n) = {f[n].kid[s], f[n].kid[Other(s)]} \ {0}
BY Sides DEF KidsOf, Other

\* In f the child x of y on side s can be turned up: all nodes concerned are there.
Turnable(f, y, s, x) ==
  LET u == Other(s)
      t == f[x].kid[u]
  IN  /\ s \in Side /\ y \in DOMAIN f /\ x = f[y].kid[s] /\ x \in DOMAIN f /\ x # y
      /\ t \in DOMAIN f \cup {0} /\ t \notin {x, y}
      /\ f[x].kid[s] \notin {x, y} /\ f[y].kid[u] \notin {x, y}
      /\ Tells(f, y, u) /\ Tells(f, x, s)

\* From f to g the child x of y on side s took the place of y.
TurnedIn(f, g, y, s, x) ==
  LET u == Other(s)
      t == f[x].kid[u]
  IN  /\ DOMAIN g = DOMAIN f /\ \A i \in DOMAIN f \ {x, y} : g[i] = f[i]
      /\ g[x].value = f[x].value /\ g[y].value = f[y].value
      /\ g[x].pos = f[x].pos /\ g[y].pos = f[y].pos
      /\ g[x].kid[u] = y /\ g[x].kid[s] = f[x].kid[s]
      /\ g[x].kidPos[u] = f[y].pos /\ g[x].kidPos[s] = f[x].kidPos[s]
      /\ g[y].kid[s] = t /\ g[y].kid[u] = f[y].kid[u]
      /\ t # 0 => g[y].kidPos[s] = f[t].pos
      /\ g[y].kidPos[u] = f[y].kidPos[u]
      /\ g[y].height = 1 + Big(H(f, t), H(f, f[y].kid[u]))
      /\ g[x].height = 1 + Big(g[y].height, H(f, f[x].kid[s]))

Family(f, n) == {n} \cup KidsOf(f, n)

\* The rotation turns the tree of the nodes, and what it reads is in the cache then.
LEMMA RotateHolds ==
  ASSUME NEW m, NEW f, Holds(m, f), StoreOK, NEW y \in DOMAIN m.cache, NEW s, NEW x \in DOMAIN m.cache,
         Turnable(f, y, s, x), f[x].kid[Other(s)] \in DOMAIN m.cache \cup {0}
  PROVE  LET o == Rotate(m, y, s)
         IN  /\ \E g : Holds(o, g) /\ TurnedIn(f, g, y, s, x)
             /\ Family(f, x) \cup Family(f, y) \subseteq DOMAIN o.cache
             /\ Works(m, o, Family(f, x) \cup Family(f, y))
<1> DEFINE u == Other(s)
           t == f[x].kid[u]
           tPos == IF t = 0 THEN NoPos ELSE f[t].pos
           ma == Link(m, x, u, y, f[y].pos)
           fa == Joined(f, x, u, y, f[y].pos)
           mb == Link(ma, y, s, t, tPos)
           fb == Joined(fa, y, s, t, tPos)
           mc == SetHeight(mb, y)
           fc == Raised(fb, y)
           md == SetHeight(mc, x)
           fd == Raised(fc, x)
<1>0. /\ s \in Side /\ u \in Side /\ u # s /\ Other(u) = s /\ Side = {s, u}
      /\ x = f[y].kid[s] /\ x # y /\ t \in DOMAIN m.cache \cup {0} /\ t \notin {x, y}
  BY Sides DEF Turnable, Other
<1>1. /\ DOMAIN m.cache \subseteq DOMAIN f /\ f[x] \in Nodes /\ f[y] \in Nodes
      /\ x \in NodeKey /\ y \in NodeKey /\ t \in NodeKey /\ x # 0 /\ y # 0
      /\ \A k \in DOMAIN m.cache : m.cache[k] = f[k]
  BY <1>0, HoldsCached, HoldsNodes DEF NodeKey
<1>2. f[y].pos \in Leaves /\ Placing(y, f[y].pos) /\ Placing(t, tPos) /\ tPos \in Leaves \cup {NoPos}
  BY <1>0, <1>1, HoldsNodes DEF Placing, Nodes
<1>3. Rotate(m, y, s) = md
  BY <1>0, <1>1 DEF Rotate
<1>t. t = f[x].kid[u] /\ f[x].kid[Other(s)] = t /\ (t # 0 => tPos = f[t].pos) /\ u = Other(s)
  OBVIOUS
<1> HIDE DEF t, tPos, u
<1>4. Holds(ma, fa) /\ DOMAIN ma.cache = DOMAIN m.cache /\ Works(m, ma, {})
  BY <1>0, <1>1, <1>2, LinkHolds
<1>5. /\ DOMAIN fa = DOMAIN f /\ \A i \in DOMAIN f \ {x} : fa[i] = f[i]
      /\ fa[x].value = f[x].value /\ fa[x].pos = f[x].pos /\ fa[x].height = f[x].height
      /\ fa[x].kid[u] = y /\ fa[x].kidPos[u] = f[y].pos
      /\ fa[x].kid[s] = f[x].kid[s] /\ fa[x].kidPos[s] = f[x].kidPos[s]
  BY <1>0, <1>1, JoinedIs
<1> HIDE DEF ma, fa
<1>6. Holds(mb, fb) /\ DOMAIN mb.cache = DOMAIN m.cache /\ Works(ma, mb, {})
  BY <1>0, <1>1, <1>2, <1>4, LinkHolds
<1>7. /\ DOMAIN fb = DOMAIN f /\ \A i \in DOMAIN f \ {y} : fb[i] = fa[i]
      /\ fb[y].value = f[y].value /\ fb[y].pos = f[y].pos /\ fb[y].height = f[y].height
      /\ fb[y].kid[s] = t /\ fb[y].kidPos[s] = tPos
      /\ fb[y].kid[u] = f[y].kid[u] /\ fb[y].kidPos[u] = f[y].kidPos[u]
  <2>1. fa[y] = f[y] /\ y \in DOMAIN fa
    BY <1>0, <1>1, <1>5
  <2> DEFINE old == fa[y]
  <2>2. /\ DOMAIN fb = DOMAIN fa /\ \A i \in DOMAIN fa \ {y} : fb[i] = fa[i]
        /\ fb[y].value = old.value /\ fb[y].pos = old.pos /\ fb[y].height = old.height
        /\ fb[y].kid[s] = t /\ fb[y].kidPos[s] = tPos
        /\ fb[y].kid[Other(s)] = old.kid[Other(s)] /\ fb[y].kidPos[Other(s)] = old.kidPos[Other(s)]
    BY <1>0, <1>1, <2>1, JoinedIs
  <2> HIDE DEF fb
  <2> QED  BY <1>t, <1>5, <2>1, <2>2
<1> HIDE DEF mb, fb
<1>8. \A i \in DOMAIN f : fb[i].pos = f[i].pos /\ H(fb, i) = H(f, i)
  BY <1>0, <1>5, <1>7 DEF H
<1>9. \A r \in Side : Tells(fb, y, r)
  BY <1>0, <1>1, <1>t, <1>7, <1>8 DEF Tells, Turnable
<1>10. fb[y] \in Nodes /\ y \in DOMAIN mb.cache /\ fb[x] \in Nodes
  BY <1>1, <1>6, <1>7, HoldsNodes
<1>11. Holds(mc, fc) /\ KidsOf(fb, y) \subseteq DOMAIN mc.cache /\ Works(mb, mc, KidsOf(fb, y) \cup {y})
  BY <1>6, <1>9, <1>10, SetHeightHolds
<1>12. /\ DOMAIN fc = DOMAIN f /\ \A i \in DOMAIN f \ {y} : fc[i] = fb[i]
       /\ fc[y].value = f[y].value /\ fc[y].pos = f[y].pos /\ fc[y].kid = fb[y].kid /\ fc[y].kidPos = fb[y].kidPos
       /\ fc[y].height = 1 + Big(H(fb, fb[y].kid["l"]), H(fb, fb[y].kid["r"]))
  BY <1>1, <1>7, <1>10, RaisedIs
<1> HIDE DEF mc, fc
<1>13. /\ fc[x].kid[u] = y /\ fc[x].kid[s] = f[x].kid[s] /\ fc[x].value = f[x].value /\ fc[x].pos = f[x].pos
       /\ fc[x].kidPos[u] = f[y].pos /\ fc[x].kidPos[s] = f[x].kidPos[s]
  <2>1. fc[x] = fa[x]
    BY <1>0, <1>1, <1>7, <1>12
  <2> QED  BY <1>5, <2>1
<1>14. \A i \in DOMAIN f : fc[i].pos = f[i].pos
  BY <1>8, <1>12
<1>15. \A r \in Side : Tells(fc, x, r)
  BY <1>0, <1>1, <1>t, <1>12, <1>13, <1>14 DEF Tells, Turnable
<1>16. x \in DOMAIN mc.cache /\ y \in DOMAIN mc.cache
  BY <1>6, <1>11 DEF Works
<1>17. Holds(md, fd) /\ KidsOf(fc, x) \subseteq DOMAIN md.cache /\ Works(mc, md, KidsOf(fc, x) \cup {x})
  BY <1>11, <1>15, <1>16, SetHeightHolds
<1>18. /\ DOMAIN fd = DOMAIN f /\ \A i \in DOMAIN f \ {x} : fd[i] = fc[i]
       /\ fd[x].value = f[x].value /\ fd[x].pos = f[x].pos /\ fd[x].kid = fc[x].kid /\ fd[x].kidPos = fc[x].kidPos
       /\ fd[x].height = 1 + Big(H(fc, fc[x].kid["l"]), H(fc, fc[x].kid["r"]))
  BY <1>1, <1>11, <1>12, <1>13, HoldsNodes, RaisedIs
<1> HIDE DEF md, fd
<1>19. fd[y].height = 1 + Big(H(f, t), H(f, f[y].kid[u]))
  <2>1. H(fb, fb[y].kid[s]) = H(f, t) /\ H(fb, fb[y].kid[u]) = H(f, f[y].kid[u])
    <3>1. f[y].kid[u] \in DOMAIN f \cup {0}
      BY <1>t DEF Turnable, Tells
    <3> QED  BY <1>0, <1>1, <1>7, <1>8, <3>1 DEF H
  <2>2. H(f, t) \in Nat /\ H(f, f[y].kid[u]) \in Nat
    BY <1>0, <1>1, <1>t, HoldsNodes DEF H, Turnable, Tells, Nodes
  <2>3. fd[y].height = fc[y].height
    BY <1>0, <1>1, <1>18
  <2>4. CASE s = "l"
    BY <1>t, <1>12, <2>1, <2>3, <2>4 DEF Other
  <2>5. CASE s = "r"
    BY <1>t, <1>12, <2>1, <2>2, <2>3, <2>5, BigSym DEF Other
  <2> QED  BY <1>0, <2>4, <2>5
<1>20. fd[x].height = 1 + Big(fd[y].height, H(f, f[x].kid[s]))
  <2>1. /\ H(fc, fc[x].kid[u]) = fd[y].height /\ H(fc, fc[x].kid[s]) = H(f, f[x].kid[s])
    <3>1. fc[y].height = fd[y].height
      BY <1>0, <1>1, <1>18
    <3>2. f[x].kid[s] \in DOMAIN f \cup {0} /\ f[x].kid[s] # y
      BY DEF Turnable, Tells
    <3>3. H(fc, f[x].kid[s]) = H(fb, f[x].kid[s])
      BY <1>12, <3>2 DEF H
    <3>4. H(fb, f[x].kid[s]) = H(f, f[x].kid[s])
      BY <1>8, <3>2 DEF H
    <3> QED  BY <1>1, <1>13, <3>1, <3>3, <3>4 DEF H
  <2>2. fd[y].height \in Nat /\ H(f, f[x].kid[s]) \in Nat
    <3>1. fd[y] \in Nodes
      BY <1>1, <1>17, <1>18, HoldsNodes
    <3> QED  BY <1>1, <3>1, HoldsNodes DEF H, Turnable, Tells, Nodes
  <2>4. CASE s = "l"
    <3>1. fd[x].height = 1 + Big(H(fc, fc[x].kid[s]), H(fc, fc[x].kid[u]))
      BY <1>t, <1>18, <2>4 DEF Other
    <3> QED  BY <2>1, <2>2, <3>1, BigSym
  <2>5. CASE s = "r"
    BY <1>t, <1>18, <2>1, <2>5 DEF Other
  <2> QED  BY <1>0, <2>4, <2>5
<1>21. TurnedIn(f, fd, y, s, x)
  <2>1. \A i \in DOMAIN f \ {x, y} : fd[i] = f[i]
    BY <1>5, <1>7, <1>12, <1>18
  <2>2. /\ fd[y].value = f[y].value /\ fd[y].pos = f[y].pos /\ fd[y].kid[s] = t /\ fd[y].kid[u] = f[y].kid[u]
        /\ fd[y].kidPos[s] = tPos /\ fd[y].kidPos[u] = f[y].kidPos[u]
    BY <1>0, <1>1, <1>7, <1>12, <1>18
  <2> QED  BY <1>t, <1>13, <1>18, <1>19, <1>20, <2>1, <2>2 DEF TurnedIn
<1>22. KidsOf(fb, y) = {t, f[y].kid[u]} \ {0} /\ KidsOf(fc, x) = {y, f[x].kid[s]} \ {0}
  <2>1. KidsOf(fb, y) = {fb[y].kid[s], fb[y].kid[u]} \ {0} /\ KidsOf(fc, x) = {fc[x].kid[s], fc[x].kid[u]} \ {0}
    BY <1>0, <1>t, KidsAre
  <2>2. fc[x].kid[u] = y /\ fc[x].kid[s] = f[x].kid[s] /\ fb[y].kid[s] = t /\ fb[y].kid[u] = f[y].kid[u]
    BY <1>7, <1>13, <1>12
  <2> QED  BY <2>1, <2>2
<1>23. Family(f, x) = {x} \cup ({t, f[x].kid[s]} \ {0}) /\ Family(f, y) = {y} \cup ({x, f[y].kid[u]} \ {0})
  BY <1>0, <1>t, KidsAre DEF Family
<1>24. Family(f, x) \cup Family(f, y) \subseteq DOMAIN md.cache
  BY <1>11, <1>16, <1>17, <1>22, <1>23 DEF Works
<1>25. Works(m, md, Family(f, x) \cup Family(f, y))
  BY <1>1, <1>4, <1>6, <1>11, <1>17, <1>22, <1>23 DEF Works
<1> QED  BY <1>3, <1>17, <1>21, <1>24, <1>25

-----------------------------------------------------------------------------
(* What the tree says of the nodes.                                          *)

\* The nodes e make the tree T, where the way q to k ends at n.
Poised(K, T, span, e, q, k, n) ==
  /\ K \in SUBSET Key /\ IsTree(K, T, span) /\ q \in Seq(Key) /\ k \in Key /\ n \in K
  /\ Chain(K, T, span, q, k, n) /\ DOMAIN e = K
  /\ \A i \in K : e[i] \in Nodes /\ \A r \in Side : e[i].kid[r] = T[i][r]

\* A child has one parent, is not its own, and belongs below it with all below it.
LEMMA PoisedKids ==
  ASSUME NEW K, NEW T, NEW span, NEW e, NEW q, NEW k, NEW n, Poised(K, T, span, e, q, k, n),
         NEW y \in K, NEW s \in Side, NEW x, x = e[y].kid[s], x # 0
  PROVE  /\ x \in K /\ x \in span[y] /\ x # y /\ span[x] \subseteq span[y] /\ y \notin span[x]
         /\ \A i \in K, r \in Side : e[i].kid[r] = x => i = y /\ r = s
<1>1. K \in SUBSET Key /\ IsTree(K, T, span) /\ x = T[y][s] /\ \A i \in K, r \in Side : e[i].kid[r] = T[i][r]
  BY DEF Poised
<1>2. Linked(K, T, span, y, s)
  BY <1>1 DEF IsTree
<1>3. /\ x \in K /\ x \in span[y] /\ x # y /\ span[x] \subseteq span[y] /\ y \notin span[x]
  BY <1>1, <1>2 DEF Linked, Below
<1>4. ASSUME NEW i \in K, NEW r \in Side, e[i].kid[r] = x
      PROVE  i = y /\ r = s
  <2>1. T[i][r] = T[y][s] /\ T[i][r] # 0
    BY <1>1, <1>4
  <2> QED  BY <1>1, <2>1, OneParent
<1> QED  BY <1>3, <1>4

LEMMA PoisedIn ==
  ASSUME NEW K, NEW T, NEW span, NEW e, NEW q, NEW k, NEW n, Poised(K, T, span, e, q, k, n)
  PROVE  /\ \A i \in K, r \in Side : e[i].kid[r] \in K \cup {0}
         /\ 0 \notin K /\ n \in span[n]
<1>1. \A i \in K, r \in Side : e[i].kid[r] \in K \cup {0}
  BY DEF Poised, IsTree, Linked
<1>2. n \in span[n]
  BY DEF Poised, IsTree
<1>3. 0 \notin K
  BY Sides DEF Poised
<1> QED  BY <1>1, <1>2, <1>3

\* The end of the way hangs at the last node of the way; nothing below it is on the way.
LEMMA PoisedWay ==
  ASSUME NEW K, NEW T, NEW span, NEW e, NEW q, NEW k, NEW n, Poised(K, T, span, e, q, k, n)
  PROVE  /\ \A i \in K, r \in Side : e[i].kid[r] = n => i = Up(q, 1) /\ r = SideOf(k, Up(q, 1))
         /\ \A j \in 1..Len(q) : q[j] \in K /\ q[j] = Up(q, j) /\ q[j] \notin span[n]
         /\ \A j \in 1..Len(q), r \in Side : e[q[j]].kid[r] = n => j = 1 /\ r = SideOf(k, q[1])
<1>1. /\ K \in SUBSET Key /\ IsTree(K, T, span) /\ q \in Seq(Key) /\ k \in Key /\ n \in K
      /\ Chain(K, T, span, q, k, n) /\ \A i \in K, r \in Side : e[i].kid[r] = T[i][r]
      /\ 0 \notin Key
  BY Sides DEF Poised
<1>2. Up(q, 1) \in K \cup {0} /\ T[Up(q, 1)][SideOf(k, Up(q, 1))] = n /\ n # 0 /\ SideOf(k, Up(q, 1)) \in Side
  BY <1>1, UpFacts, Sides DEF Chain
<1>3. \A i \in K, r \in Side : e[i].kid[r] = n => i = Up(q, 1) /\ r = SideOf(k, Up(q, 1))
  <2> SUFFICES ASSUME NEW i \in K, NEW r \in Side, e[i].kid[r] = n
               PROVE  i = Up(q, 1) /\ r = SideOf(k, Up(q, 1))
    OBVIOUS
  <2>1. T[i][r] = T[Up(q, 1)][SideOf(k, Up(q, 1))] /\ T[i][r] # 0
    BY <1>1, <1>2
  <2> QED  BY <1>1, <1>2, <2>1, OneParent
<1>4. \A j \in 1..Len(q) : q[j] \in K /\ q[j] = Up(q, j) /\ q[j] \notin span[n]
  <2> SUFFICES ASSUME NEW j \in 1..Len(q)
               PROVE  q[j] \in K /\ q[j] = Up(q, j) /\ q[j] \notin span[n]
    OBVIOUS
  <2>1. q[j] = Up(q, j) /\ j \in Steps(q) /\ q[j] \in Key
    BY <1>1 DEF Up, Steps
  <2>2. q[j] \in K
    BY <1>1, <2>1 DEF Chain
  <2>3. q[j] \notin span[n]
    BY <1>1, <1>2, <2>1, ChainApart
  <2> QED  BY <2>1, <2>2, <2>3
<1>5. ASSUME NEW j \in 1..Len(q), NEW r \in Side, e[q[j]].kid[r] = n
      PROVE  j = 1 /\ r = SideOf(k, q[1])
  <2>1. q[j] = Up(q, 1) /\ r = SideOf(k, Up(q, 1)) /\ j \in Steps(q) /\ Len(q) \in Nat
    BY <1>1, <1>3, <1>4, <1>5 DEF Steps
  <2>2. j = 1
    BY <1>1, <1>4, <2>1, ChainApart
  <2>3. Up(q, 1) = q[1]
    BY <1>4, <2>2
  <2> QED  BY <2>1, <2>2, <2>3
<1> QED  BY <1>3, <1>4, <1>5

-----------------------------------------------------------------------------
(* Heights.                                                                  *)

\* x is the height of a node with subtrees of heights l and r, which differ by one
\* at most.
Even(x, l, r) == x = 1 + Big(l, r) /\ l - r \in -1..1
EvenAt(f, i) == Even(H(f, i), H(f, f[i].kid["l"]), H(f, f[i].kid["r"]))

LEMMA HeightsAre ==
  ASSUME NEW K, NEW T, NEW span, NEW e, NEW q, NEW k, NEW n, Poised(K, T, span, e, q, k, n)
  PROVE  \A i \in K : H(e, i) = e[i].height /\ H(e, i) \in Nat
                      /\ \A r \in Side : H(e, e[i].kid[r]) \in Nat
<1>1. \A i \in K : e[i] \in Nodes /\ i # 0
  BY PoisedIn DEF Poised
<1>2. \A i \in K : e[i].height \in Nat
  BY <1>1 DEF Nodes
<1>3. \A i \in K, r \in Side : e[i].kid[r] \in K \cup {0}
  BY PoisedIn
<1> QED  BY <1>1, <1>2, <1>3 DEF H

LEMMA EvenSides ==
  ASSUME NEW f, NEW i, NEW s \in Side, \A r \in Side : H(f, f[i].kid[r]) \in Nat
  PROVE  EvenAt(f, i) <=> Even(H(f, i), H(f, f[i].kid[s]), H(f, f[i].kid[Other(s)]))
<1>1. CASE s = "l"
  BY <1>1 DEF EvenAt, Other
<1>2. CASE s = "r"
  <2>1. H(f, f[i].kid["l"]) \in Nat /\ H(f, f[i].kid["r"]) \in Nat
    OBVIOUS
  <2> QED  BY <1>2, <2>1 DEF EvenAt, Other, Even, Big
<1> QED  BY <1>1, <1>2

\* What stands the same in f and g stands even in both.
LEMMA EvenKept ==
  ASSUME NEW f, NEW g, NEW i, g[i] = f[i], i # 0,
         \A r \in Side : f[i].kid[r] = 0 \/ g[f[i].kid[r]].height = f[f[i].kid[r]].height
  PROVE  H(g, i) = H(f, i) /\ (EvenAt(f, i) => EvenAt(g, i)) /\ \A r \in Side : H(g, g[i].kid[r]) = H(f, f[i].kid[r])
BY DEF EvenAt, H

\* The nodes on the way q are even, but for the last, below which something
\* grew from height h to that of the node it ends at.
Climbing(f, q, k, h) ==
  \A i \in 1..Len(q) :
    Even(H(f, q[i]), IF i = 1 THEN h ELSE H(f, q[i - 1]),
         H(f, f[q[i]].kid[Other(SideOf(k, q[i]))]))

\* Whatever grew, grew towards k, and what a rotation above needs is in the cache.
Leaning(m, f, k, c) ==
  /\ c \in DOMAIN m.cache /\ KidsOf(f, c) \subseteq DOMAIN m.cache
  /\ \/ c = k /\ H(f, c) = 1
     \/ LET s == SideOf(k, c)
        IN  /\ c # k /\ f[c].kid[s] # 0 /\ H(f, f[c].kid[s]) > H(f, f[c].kid[Other(s)])
            /\ KidsOf(f, f[c].kid[s]) \subseteq DOMAIN m.cache

\* Only nodes below n changed: the way up to n is as it was.
LEMMA ClimbingKept ==
  ASSUME NEW K, NEW T, NEW span, NEW e, NEW q, NEW k, NEW n, Poised(K, T, span, e, q, k, n),
         NEW g, NEW D, D \subseteq span[n], D \subseteq K, n \in D,
         \A i \in K \ D : g[i] = e[i],
         \A i \in K \ D, r \in Side : e[i].kid[r] \in D => e[i].kid[r] = n,
         NEW h, Climbing(e, q, k, h)
  PROVE  Climbing(g, q, k, h)
<1>0. q \in Seq(Key) /\ k \in Key /\ 0 \notin K
  BY PoisedIn DEF Poised
<1>1. SUFFICES ASSUME NEW j \in 1..Len(q)
               PROVE  Even(H(g, q[j]), IF j = 1 THEN h ELSE H(g, q[j - 1]),
                           H(g, g[q[j]].kid[Other(SideOf(k, q[j]))]))
  BY DEF Climbing
<1>2. \A i \in 1..Len(q) : q[i] \in K \ D /\ g[q[i]] = e[q[i]] /\ H(g, q[i]) = H(e, q[i])
  BY <1>0, PoisedWay DEF H
<1> DEFINE u == Other(SideOf(k, q[j]))
           c == e[q[j]].kid[u]
<1>3. u \in Side /\ u # SideOf(k, q[j]) /\ c \in K \cup {0}
  BY <1>2, Sides, PoisedIn
<1>4. c \notin D
  <2>1. SUFFICES ASSUME c = n PROVE FALSE
    BY <1>2, <1>3
  <2>2. j = 1 /\ u = SideOf(k, q[1])
    BY <1>3, <2>1, PoisedWay
  <2> QED  BY <1>3, <2>2
<1>5. H(g, c) = H(e, c)
  BY <1>3, <1>4 DEF H
<1>6. j # 1 => H(g, q[j - 1]) = H(e, q[j - 1])
  BY <1>0, <1>2
<1>7. Even(H(e, q[j]), IF j = 1 THEN h ELSE H(e, q[j - 1]), H(e, c))
  BY DEF Climbing
<1> QED  BY <1>2, <1>5, <1>6, <1>7

On(q) == {q[j] : j \in 1..Len(q)}

\* The parent of a node noted as modified is in the cache.
Told(m, f) == \A i \in DOMAIN f, s \in Side : f[i].kid[s] \in m.modified => i \in DOMAIN m.cache
\* Every node knows where its children are, but for one that is told on the way up.
TellsBut(f, q, k) == \A i \in DOMAIN f, s \in Side : (i = Up(q, 1) /\ s = SideOf(k, i)) \/ Tells(f, i, s)
\* Every node is even, but for those on the way up.
EvenBut(f, q) == \A i \in DOMAIN f : i \in On(q) \/ EvenAt(f, i)

\* An insert came up to the node top, the height of which was h before.
Climbs(m, f, q, k, top, h) ==
  /\ top \in DOMAIN m.cache /\ h \in Nat
  /\ TellsBut(f, q, k) /\ EvenBut(f, q) /\ Told(m, f)
  /\ Climbing(f, q, k, h)
  /\ H(f, top) \in {h, h + 1} /\ (H(f, top) = h + 1 => Leaning(m, f, k, top))
Climbed(m, f, q, k, top, h) == Holds(m, f) /\ Climbs(m, f, q, k, top, h)

\* At the node n above it the link was set, and the height.
Lifted(m, e, q, k, n, h) ==
  LET s == SideOf(k, n)
      c == e[n].kid[s]
      b == e[n].kid[Other(s)]
  IN  /\ Holds(m, e) /\ Family(e, n) \subseteq DOMAIN m.cache /\ On(q) \subseteq DOMAIN m.cache
      /\ \A i \in DOMAIN e, r \in Side : Tells(e, i, r)
      /\ \A i \in DOMAIN e : i \in On(q) \/ i = n \/ EvenAt(e, i)
      /\ Told(m, e)
      /\ Climbing(e, q, k, 1 + Big(h, H(e, b)))
      /\ k # n /\ c # 0 /\ h \in Nat
      /\ H(e, c) \in {h, h + 1} /\ (H(e, c) = h + 1 => Leaning(m, e, k, c))
      /\ h - H(e, b) \in -1..1
      /\ H(e, n) = 1 + Big(H(e, c), H(e, b))

\* n is out of balance only towards k, after the subtree there grew.
LEMMA OutOfBalance ==
  ASSUME NEW h \in Nat, NEW x \in {h, h + 1}, NEW b \in Nat, h - b \in -1..1
  PROVE  /\ x - b \in -1..2
         /\ x - b \in -1..1 => 1 + Big(x, b) \in {1 + Big(h, b), 2 + Big(h, b)}
         /\ x - b \in -1..1 /\ 1 + Big(x, b) = 2 + Big(h, b) => x = h + 1 /\ x > b
         /\ x - b \notin -1..1 => x = h + 1 /\ b = h - 1 /\ 1 + Big(h, b) = h + 1
BY DEF Big

\* No rotation: the way goes on from n.
LEMMA BalancedClimbs ==
  ASSUME NEW K, NEW T, NEW span, NEW e, NEW q, NEW k, NEW n, Poised(K, T, span, e, q, k, n),
         NEW m, NEW h, Lifted(m, e, q, k, n, h), NEW s, s = SideOf(k, n),
         H(e, e[n].kid[s]) - H(e, e[n].kid[Other(s)]) \in -1..1
  PROVE  Climbed(m, e, q, k, n, 1 + Big(h, H(e, e[n].kid[Other(s)])))
<1> DEFINE u == Other(s)
           c == e[n].kid[s]
           b == e[n].kid[u]
           h1 == 1 + Big(h, H(e, b))
<1>1. /\ K = DOMAIN e /\ n \in K /\ s \in Side /\ u \in Side /\ k \in Key /\ 0 \notin K
      /\ H(e, c) \in Nat /\ H(e, b) \in Nat
      /\ \A r \in Side : H(e, e[n].kid[r]) \in Nat
  BY Sides, HeightsAre, PoisedIn DEF Poised
<1>2. /\ Holds(m, e) /\ Family(e, n) \subseteq DOMAIN m.cache
      /\ \A i \in DOMAIN e, r \in Side : Tells(e, i, r)
      /\ \A i \in DOMAIN e : i \in On(q) \/ i = n \/ EvenAt(e, i)
      /\ Told(m, e) /\ Climbing(e, q, k, h1)
      /\ k # n /\ c # 0 /\ h \in Nat
      /\ H(e, c) \in {h, h + 1} /\ (H(e, c) = h + 1 => Leaning(m, e, k, c))
      /\ h - H(e, b) \in -1..1
      /\ H(e, n) = 1 + Big(H(e, c), H(e, b))
  BY Zenon DEF Lifted
<1>3. n \in DOMAIN m.cache /\ KidsOf(e, n) \subseteq DOMAIN m.cache
  BY <1>2 DEF Family
<1>4. Even(H(e, n), H(e, c), H(e, b))
  BY <1>2 DEF Even
<1>5. EvenBut(e, q)
  BY <1>1, <1>2, <1>4, EvenSides DEF EvenBut
<1>6. TellsBut(e, q, k)
  BY <1>2 DEF TellsBut
<1>7. h1 \in Nat /\ H(e, n) \in {h1, h1 + 1} /\ (H(e, n) = h1 + 1 => H(e, c) = h + 1 /\ H(e, c) > H(e, b))
  <2>1. h1 \in Nat
    BY <1>1, <1>2 DEF Big
  <2> DEFINE x == H(e, c)
             y == H(e, b)
  <2>2. x \in {h, h + 1} /\ y \in Nat /\ h \in Nat /\ h - y \in -1..1 /\ x - y \in -1..1
        /\ H(e, n) = 1 + Big(x, y) /\ h1 = 1 + Big(h, y)
    BY <1>1, <1>2
  <2> HIDE DEF x, y
  <2>3. Big(h, y) \in Nat /\ Big(x, y) \in Nat
    BY <2>2 DEF Big
  <2>4. /\ 1 + Big(x, y) \in {1 + Big(h, y), 2 + Big(h, y)}
        /\ 1 + Big(x, y) = 2 + Big(h, y) => x = h + 1 /\ x > y
    BY <2>2, OutOfBalance
  <2>5. /\ H(e, n) \in {h1, h1 + 1}
        /\ H(e, n) = h1 + 1 => x = h + 1 /\ x > y
    <3> HIDE DEF h1
    <3> QED  BY <2>2, <2>3, <2>4
  <2> QED  BY <2>1, <2>5 DEF x, y
<1>8. ASSUME H(e, n) = h1 + 1
      PROVE  Leaning(m, e, k, n)
  <2>1. Leaning(m, e, k, c)
    BY <1>2, <1>7, <1>8
  <2>2. KidsOf(e, c) \subseteq DOMAIN m.cache
    BY <2>1 DEF Leaning
  <2> QED  BY <1>2, <1>3, <1>7, <1>8, <2>2 DEF Leaning
<1> QED  BY <1>2, <1>3, <1>5, <1>6, <1>7, <1>8 DEF Climbed, Climbs

\* The nodes D that a rotation changes: n, and below it.
Closed(e, D, n) == n \in D /\ D \subseteq DOMAIN e
                   /\ \A d \in D : d = n \/ \E y \in D, r \in Side : e[y].kid[r] = d
\* The nodes it reads or changes.
Reach(e, D) == D \cup UNION {KidsOf(e, d) : d \in D}

LEMMA ClosedKids ==
  ASSUME NEW K, NEW T, NEW span, NEW e, NEW q, NEW k, NEW n, Poised(K, T, span, e, q, k, n),
         NEW D, Closed(e, D, n), NEW i \in K \ D, NEW r \in Side, e[i].kid[r] \in Reach(e, D)
  PROVE  e[i].kid[r] = n /\ i \in On(q)
<1>0. K = DOMAIN e /\ 0 \notin K /\ D \subseteq K
  BY PoisedIn DEF Poised, Closed
<1>1. e[i].kid[r] = n
  <2>1. SUFFICES ASSUME e[i].kid[r] # n PROVE FALSE
    OBVIOUS
  <2>2. \E y \in D, s \in Side : e[y].kid[s] = e[i].kid[r] /\ e[i].kid[r] # 0
    <3>1. CASE e[i].kid[r] \in D
      BY <1>0, <2>1, <3>1 DEF Closed
    <3>2. CASE e[i].kid[r] \notin D
      BY <3>2 DEF Reach, KidsOf
    <3> QED  BY <3>1, <3>2
  <2>3. PICK y \in D, s \in Side : e[y].kid[s] = e[i].kid[r] /\ e[i].kid[r] # 0
    BY <2>2
  <2>4. i = y
    BY <1>0, <2>3, PoisedKids
  <2> QED  BY <2>3, <2>4
<1>2. i = Up(q, 1) /\ i # 0
  BY <1>0, <1>1, PoisedWay
<1>3. i \in On(q)
  BY <1>2 DEF Up, On
<1> QED  BY <1>1, <1>3

\* From e to g only the nodes D changed, and not where they are.
Reshapes(m, e, o, g, D) ==
  /\ DOMAIN g = DOMAIN e /\ \A i \in DOMAIN e \ D : g[i] = e[i]
  /\ \A i \in DOMAIN e : g[i].pos = e[i].pos
  /\ Works(m, o, Reach(e, D)) /\ D \subseteq DOMAIN o.cache

\* A rotation, or two, at n: what its nodes have to show for the way to go on.
LEMMA TurnedClimbs ==
  ASSUME NEW K, NEW T, NEW span, NEW e, NEW q, NEW k, NEW n, Poised(K, T, span, e, q, k, n),
         NEW m, NEW h, Lifted(m, e, q, k, n, h), h = 1 + H(e, e[n].kid[Other(SideOf(k, n))]),
         NEW o, NEW g, NEW D, Closed(e, D, n), D \subseteq span[n], Reshapes(m, e, o, g, D), Holds(o, g),
         \A i \in D : EvenAt(g, i) /\ \A r \in Side : Tells(g, i, r),
         NEW top \in D, H(g, top) = h + 1
  PROVE  Climbed(o, g, q, k, top, h + 1)
<1>0. K = DOMAIN e /\ 0 \notin K /\ D \subseteq K /\ \A i \in K, r \in Side : e[i].kid[r] \in K \cup {0}
  BY PoisedIn DEF Poised, Closed
<1>1. /\ On(q) \subseteq DOMAIN m.cache
      /\ \A i \in DOMAIN e, r \in Side : Tells(e, i, r)
      /\ \A i \in DOMAIN e : i \in On(q) \/ i = n \/ EvenAt(e, i)
      /\ Told(m, e) /\ Climbing(e, q, k, 1 + Big(h, H(e, e[n].kid[Other(SideOf(k, n))]))) /\ h \in Nat
  BY Zenon DEF Lifted
<1>2. 1 + Big(h, H(e, e[n].kid[Other(SideOf(k, n))])) = h + 1
  <2>1. H(e, e[n].kid[Other(SideOf(k, n))]) \in Nat
    BY HeightsAre, Sides DEF Poised
  <2> QED  BY <1>1, <2>1 DEF Big
<1>3. \A i \in K \ D, r \in Side : e[i].kid[r] \in Reach(e, D) => e[i].kid[r] = n /\ i \in On(q)
  BY ClosedKids
<1>4. Climbing(g, q, k, h + 1)
  <2>1. n \in D /\ \A i \in K \ D : g[i] = e[i]
    BY <1>0 DEF Closed, Reshapes
  <2>2. \A i \in K \ D, r \in Side : e[i].kid[r] \in D => e[i].kid[r] = n
    BY <1>3 DEF Reach
  <2>3. Climbing(e, q, k, h + 1)
    BY Zenon, <1>1, <1>2
  <2> QED  BY <1>0, <2>1, <2>2, <2>3, ClimbingKept
<1>5. EvenBut(g, q)
  <2> SUFFICES ASSUME NEW i \in DOMAIN g, i \notin On(q) PROVE EvenAt(g, i)
    BY DEF EvenBut
  <2>1. CASE i \in D
    BY <2>1
  <2>2. CASE i \notin D
    <3>1. i \in K /\ g[i] = e[i] /\ EvenAt(e, i) /\ i # 0
      BY <1>0, <1>1, <2>2 DEF Reshapes, Closed
    <3>2. \A r \in Side : e[i].kid[r] = 0 \/ g[e[i].kid[r]].height = e[e[i].kid[r]].height
      <4> SUFFICES ASSUME NEW r \in Side, e[i].kid[r] # 0
                   PROVE  g[e[i].kid[r]] = e[e[i].kid[r]]
        OBVIOUS
      <4>1. e[i].kid[r] \notin D
        BY <1>3, <2>2, <3>1 DEF Reach
      <4> QED  BY <1>0, <3>1, <4>1 DEF Reshapes
    <3> QED  BY <3>1, <3>2, EvenKept
  <2> QED  BY <2>1, <2>2
<1>6. TellsBut(g, q, k)
  <2> SUFFICES ASSUME NEW i \in DOMAIN g, NEW r \in Side PROVE Tells(g, i, r)
    BY DEF TellsBut
  <2>1. CASE i \in D
    BY <2>1
  <2>2. CASE i \notin D
    <3>1. i \in K /\ g[i] = e[i] /\ Tells(e, i, r)
      BY <1>0, <1>1, <2>2 DEF Reshapes
    <3> QED  BY <1>0, <3>1 DEF Tells, Reshapes
  <2> QED  BY <2>1, <2>2
<1>7. Told(o, g)
  <2> SUFFICES ASSUME NEW i \in DOMAIN g, NEW r \in Side, g[i].kid[r] \in o.modified
               PROVE  i \in DOMAIN o.cache
    BY DEF Told
  <2>1. CASE i \in D
    BY <2>1 DEF Reshapes
  <2>2. CASE i \notin D
    <3>1. i \in K /\ e[i].kid[r] \in m.modified \cup Reach(e, D) /\ DOMAIN m.cache \subseteq DOMAIN o.cache
      BY <1>0, <2>2 DEF Reshapes, Works
    <3>2. CASE e[i].kid[r] \in m.modified
      BY <1>0, <1>1, <3>1, <3>2 DEF Told
    <3>3. CASE e[i].kid[r] \in Reach(e, D)
      BY <1>1, <1>3, <2>2, <3>1, <3>3
    <3> QED  BY <3>1, <3>2, <3>3
  <2> QED  BY <2>1, <2>2
<1>8. top \in DOMAIN o.cache
  BY DEF Reshapes
<1>9. h + 1 \in Nat /\ h + 1 # (h + 1) + 1
  BY <1>1
<1> QED  BY Zenon, <1>4, <1>5, <1>6, <1>7, <1>8, <1>9 DEF Climbed, Climbs

\* The heights after a turn, and that the two nodes know where their children are.
LEMMA TurnHeights ==
  ASSUME NEW e, 0 \notin DOMAIN e, NEW g, NEW y, NEW s, NEW x, NEW u, NEW t, NEW v, NEW b,
         Turnable(e, y, s, x), TurnedIn(e, g, y, s, x),
         u = Other(s), t = e[x].kid[u], v = e[x].kid[s], b = e[y].kid[u]
  PROVE  /\ g[y].kid[s] = t /\ g[y].kid[u] = b /\ g[x].kid[u] = y /\ g[x].kid[s] = v
         /\ H(g, t) = H(e, t) /\ H(g, b) = H(e, b) /\ H(g, v) = H(e, v)
         /\ H(g, y) = 1 + Big(H(e, t), H(e, b)) /\ H(g, x) = 1 + Big(H(g, y), H(e, v))
         /\ \A i \in DOMAIN e : g[i].pos = e[i].pos
         /\ \A r \in Side : Tells(g, y, r) /\ Tells(g, x, r)
<1>1. /\ s \in Side /\ u \in Side /\ Side = {s, u} /\ y \in DOMAIN e /\ x \in DOMAIN e /\ x # y /\ x # 0 /\ y # 0
      /\ t \in DOMAIN e \cup {0} /\ t \notin {x, y} /\ v \notin {x, y} /\ b \notin {x, y}
      /\ Tells(e, y, u) /\ Tells(e, x, s)
  BY Sides DEF Turnable, Other
<1>2. /\ DOMAIN g = DOMAIN e /\ \A i \in DOMAIN e \ {x, y} : g[i] = e[i]
      /\ g[x].pos = e[x].pos /\ g[y].pos = e[y].pos
      /\ g[x].kid[u] = y /\ g[x].kid[s] = v
      /\ g[x].kidPos[u] = e[y].pos /\ g[x].kidPos[s] = e[x].kidPos[s]
      /\ g[y].kid[s] = t /\ g[y].kid[u] = b
      /\ t # 0 => g[y].kidPos[s] = e[t].pos
      /\ g[y].kidPos[u] = e[y].kidPos[u]
      /\ g[y].height = 1 + Big(H(e, t), H(e, b))
      /\ g[x].height = 1 + Big(g[y].height, H(e, v))
  BY DEF TurnedIn
<1>3. \A i \in DOMAIN e : g[i].pos = e[i].pos
  BY <1>2
<1>4. (b # 0 => b \in DOMAIN e /\ e[y].kidPos[u] = e[b].pos) /\ (v # 0 => v \in DOMAIN e /\ e[x].kidPos[s] = e[v].pos)
  BY <1>1 DEF Tells
<1>5. H(g, t) = H(e, t) /\ H(g, b) = H(e, b) /\ H(g, v) = H(e, v)
  BY <1>1, <1>2, <1>4 DEF H
<1>6. H(g, y) = g[y].height /\ H(g, x) = g[x].height
  BY <1>1 DEF H
<1>7. Tells(g, y, s) /\ Tells(g, y, u) /\ Tells(g, x, s) /\ Tells(g, x, u)
  BY <1>1, <1>2, <1>3, <1>4 DEF Tells
<1> QED  BY <1>1, <1>2, <1>3, <1>5, <1>6, <1>7

\* What the tree says of a node out of balance, its child and its grandchildren.
LEMMA PoisedTurnable ==
  ASSUME NEW K, NEW T, NEW span, NEW e, NEW q, NEW k, NEW n, Poised(K, T, span, e, q, k, n),
         \A i \in K, r \in Side : Tells(e, i, r),
         NEW y \in K, NEW s \in Side, NEW x, x = e[y].kid[s], x # 0
  PROVE  Turnable(e, y, s, x)
<1> DEFINE u == Other(s)
<1>1. K = DOMAIN e /\ u \in Side /\ u # s /\ 0 \notin K /\ \A i \in K, r \in Side : e[i].kid[r] \in K \cup {0}
  BY Sides, PoisedIn DEF Poised
<1>2. /\ x \in K /\ x \in span[y] /\ x # y /\ y \notin span[x]
      /\ \A i \in K, r \in Side : e[i].kid[r] = x => i = y /\ r = s
  BY PoisedKids
<1>3. ASSUME NEW r \in Side
      PROVE  e[x].kid[r] \notin {x, y}
  <2>1. CASE e[x].kid[r] = 0
    BY <1>1, <1>2, <2>1
  <2>2. CASE e[x].kid[r] # 0
    <3>1. e[x].kid[r] \in span[x] /\ e[x].kid[r] # x
      BY <1>2, <2>2, PoisedKids
    <3> QED  BY <1>2, <3>1
  <2> QED  BY <2>1, <2>2
<1>4. e[y].kid[u] \notin {x, y}
  <2>1. e[y].kid[u] # x
    BY <1>1, <1>2
  <2>2. CASE e[y].kid[u] = 0
    BY <1>1, <2>1, <2>2
  <2>3. CASE e[y].kid[u] # 0
    BY <1>1, <2>1, <2>3, PoisedKids
  <2> QED  BY <2>2, <2>3
<1> QED  BY <1>1, <1>2, <1>3, <1>4 DEF Turnable

\* n is out of balance: what is known of its child on the side of k, as numbers.
Tilted(m, e, q, k, n, h, s, c) ==
  /\ s = SideOf(k, n) /\ c = e[n].kid[s] /\ c # 0 /\ c # k
  /\ c \in DOMAIN m.cache /\ n \in DOMAIN m.cache /\ KidsOf(e, c) \subseteq DOMAIN m.cache
  /\ h \in Nat /\ H(e, c) = h + 1 /\ h = 1 + H(e, e[n].kid[Other(s)])
  /\ LET r == SideOf(k, c)
     IN  /\ H(e, e[c].kid[r]) = h /\ h = 1 + H(e, e[c].kid[Other(r)])
         /\ e[c].kid[r] # 0 /\ KidsOf(e, e[c].kid[r]) \subseteq DOMAIN m.cache

LEMMA TiltedIs ==
  ASSUME NEW K, NEW T, NEW span, NEW e, NEW q, NEW k, NEW n, Poised(K, T, span, e, q, k, n),
         NEW m, NEW h, Lifted(m, e, q, k, n, h), NEW s, s = SideOf(k, n), NEW c, c = e[n].kid[s],
         H(e, c) - H(e, e[n].kid[Other(s)]) \notin -1..1
  PROVE  Tilted(m, e, q, k, n, h, s, c)
<1> DEFINE b == e[n].kid[Other(s)]
           r == SideOf(k, c)
           v == e[c].kid[r]
           t == e[c].kid[Other(r)]
<1>1. /\ Family(e, n) \subseteq DOMAIN m.cache
      /\ \A i \in DOMAIN e : i \in On(q) \/ i = n \/ EvenAt(e, i)
      /\ c # 0 /\ h \in Nat
      /\ H(e, c) \in {h, h + 1} /\ (H(e, c) = h + 1 => Leaning(m, e, k, c))
      /\ h - H(e, b) \in -1..1
  BY Zenon DEF Lifted
<1>2. /\ s \in Side /\ Other(s) \in Side /\ r \in Side /\ n \in K /\ K = DOMAIN e
  BY Sides DEF Poised
<1>3. c \in K /\ c # n /\ c \in span[n]
  BY <1>1, <1>2, PoisedKids
<1>4. H(e, b) \in Nat /\ H(e, c) \in Nat /\ H(e, v) \in Nat /\ H(e, t) \in Nat /\ \A i \in Side : H(e, e[c].kid[i]) \in Nat
  BY <1>2, <1>3, HeightsAre, Sides
<1>5. H(e, c) = h + 1 /\ H(e, b) = h - 1
  <2> DEFINE x == H(e, c)
             y == H(e, b)
  <2>1. x \in {h, h + 1} /\ y \in Nat /\ h \in Nat /\ h - y \in -1..1 /\ x - y \notin -1..1
    BY <1>1, <1>4
  <2> HIDE DEF x, y
  <2>2. x = h + 1 /\ y = h - 1
    BY <2>1, OutOfBalance
  <2> QED  BY <2>2 DEF x, y
<1>6. c \notin On(q)
  BY <1>3, PoisedWay DEF On
<1>7. Even(H(e, c), H(e, v), H(e, t))
  BY <1>1, <1>2, <1>3, <1>4, <1>6, EvenSides
<1>8. c # k /\ v # 0 /\ H(e, v) > H(e, t) /\ KidsOf(e, v) \subseteq DOMAIN m.cache /\ KidsOf(e, c) \subseteq DOMAIN m.cache
  <2>1. Leaning(m, e, k, c)
    BY <1>1, <1>5
  <2>2. H(e, c) # 1
    BY <1>1, <1>4, <1>5
  <2> QED  BY <2>1, <2>2 DEF Leaning
<1>9. H(e, v) = h /\ h = 1 + H(e, t)
  <2> DEFINE x == H(e, v)
             y == H(e, t)
  <2>1. h + 1 = 1 + Big(x, y) /\ x - y \in -1..1 /\ x > y /\ x \in Nat /\ y \in Nat /\ h \in Nat
    BY <1>1, <1>4, <1>5, <1>7, <1>8 DEF Even
  <2> HIDE DEF x, y
  <2>2. x = h /\ h = 1 + y
    BY <2>1 DEF Big
  <2> QED  BY <2>2 DEF x, y
<1>10. c \in DOMAIN m.cache /\ n \in DOMAIN m.cache
  BY <1>1, <1>2, KidsAre DEF Family
<1>11. h = 1 + H(e, b)
  BY <1>1, <1>4, <1>5
<1> QED  BY <1>1, <1>5, <1>8, <1>9, <1>10, <1>11 DEF Tilted

\* One rotation.
LEMMA SingleClimbs ==
  ASSUME NEW K, NEW T, NEW span, NEW e, NEW q, NEW k, NEW n, Poised(K, T, span, e, q, k, n), StoreOK,
         NEW m, NEW h, Lifted(m, e, q, k, n, h), NEW s, NEW c, Tilted(m, e, q, k, n, h, s, c),
         SideOf(k, c) = s
  PROVE  \E g : Climbed(Rotate(m, n, s), g, q, k, c, h + 1)
<1> DEFINE u == Other(s)
           t == e[c].kid[u]
           v == e[c].kid[s]
           b == e[n].kid[u]
           D == {n, c}
           o == Rotate(m, n, s)
<1>1. /\ Holds(m, e) /\ \A i \in K, r \in Side : Tells(e, i, r)
  BY Zenon DEF Lifted, Poised
<1>2. /\ c = e[n].kid[s] /\ s = SideOf(k, n) /\ s \in Side /\ u \in Side /\ Side = {s, u} /\ c # 0 /\ n \in K /\ K = DOMAIN e /\ 0 \notin K
      /\ c \in DOMAIN m.cache /\ n \in DOMAIN m.cache /\ KidsOf(e, c) \subseteq DOMAIN m.cache
      /\ h \in Nat /\ H(e, b) = h - 1 /\ H(e, v) = h /\ H(e, t) = h - 1 /\ h # 0
  <2>1. /\ c = e[n].kid[s] /\ s = SideOf(k, n) /\ c # 0 /\ c \in DOMAIN m.cache /\ n \in DOMAIN m.cache
        /\ KidsOf(e, c) \subseteq DOMAIN m.cache /\ h \in Nat
        /\ h = 1 + H(e, b) /\ H(e, v) = h /\ h = 1 + H(e, t)
    BY DEF Tilted
  <2>2. s \in Side /\ u \in Side /\ Side = {s, u} /\ n \in K /\ K = DOMAIN e /\ 0 \notin K
    BY <2>1, Sides, PoisedIn DEF Poised, Other
  <2>3. c \in K
    BY <2>1, <2>2, PoisedKids
  <2>4. H(e, b) \in Nat /\ H(e, t) \in Nat
    BY <2>2, <2>3, HeightsAre
  <2> QED  BY <2>1, <2>2, <2>4
<1>3. c \in K /\ c \in span[n] /\ n \in span[n] /\ c # n
  BY <1>2, PoisedKids, PoisedIn
<1>4. Turnable(e, n, s, c)
  BY <1>1, <1>2, PoisedTurnable
<1>5. t \in DOMAIN m.cache \cup {0}
  BY <1>2, KidsAre
<1>6. PICK g : Holds(o, g) /\ TurnedIn(e, g, n, s, c)
  BY <1>1, <1>2, <1>4, <1>5, RotateHolds
<1>7. /\ Family(e, c) \cup Family(e, n) \subseteq DOMAIN o.cache
      /\ Works(m, o, Family(e, c) \cup Family(e, n))
  BY <1>1, <1>2, <1>4, <1>5, RotateHolds
<1> HIDE DEF o
<1>8. /\ g[n].kid[s] = t /\ g[n].kid[u] = b /\ g[c].kid[u] = n /\ g[c].kid[s] = v
      /\ H(g, t) = H(e, t) /\ H(g, b) = H(e, b) /\ H(g, v) = H(e, v)
      /\ H(g, n) = 1 + Big(H(e, t), H(e, b)) /\ H(g, c) = 1 + Big(H(g, n), H(e, v))
      /\ \A i \in DOMAIN e : g[i].pos = e[i].pos
      /\ \A r \in Side : Tells(g, n, r) /\ Tells(g, c, r)
  BY <1>2, <1>4, <1>6, TurnHeights
<1>9. H(g, n) = h /\ H(g, c) = h + 1
  BY <1>2, <1>8 DEF Big
<1>10. EvenAt(g, n) /\ EvenAt(g, c)
  <2>1. Even(H(g, n), H(g, g[n].kid[s]), H(g, g[n].kid[u])) /\ Even(H(g, c), H(g, g[c].kid[s]), H(g, g[c].kid[u]))
    BY <1>2, <1>8, <1>9 DEF Even, Big
  <2>2. \A r \in Side : H(g, g[n].kid[r]) \in Nat /\ H(g, g[c].kid[r]) \in Nat
    BY <1>2, <1>8, <1>9
  <2> QED  BY <1>2, <2>1, <2>2, EvenSides
<1>11. Closed(e, D, n) /\ D \subseteq span[n]
  BY <1>2, <1>3 DEF Closed
<1>12. Reshapes(m, e, o, g, D)
  <2>1. Reach(e, D) = Family(e, c) \cup Family(e, n)
    BY DEF Reach, Family
  <2>2. DOMAIN g = DOMAIN e /\ \A i \in DOMAIN e \ D : g[i] = e[i]
    BY <1>6 DEF TurnedIn
  <2>3. D \subseteq DOMAIN o.cache
    BY <1>7 DEF Family
  <2> QED  BY <1>7, <1>8, <2>1, <2>2, <2>3 DEF Reshapes
<1>13. h = 1 + H(e, e[n].kid[Other(SideOf(k, n))])
  BY <1>2
<1>14. \A i \in D : EvenAt(g, i) /\ \A r \in Side : Tells(g, i, r)
  BY <1>8, <1>10
<1>15. c \in D
  OBVIOUS
<1> HIDE DEF D
<1>16. Climbed(o, g, q, k, c, h + 1)
  BY <1>6, <1>9, <1>11, <1>12, <1>13, <1>14, <1>15, TurnedClimbs
<1> QED  BY <1>16 DEF o

\* A node n, its child c, the child g of c on the other side, and what hangs at them.
Doubly(K, e, n, s, u, c, g, w, t, v, b) ==
  /\ s \in Side /\ u \in Side /\ Side = {s, u} /\ s # u /\ Other(s) = u /\ Other(u) = s
  /\ K = DOMAIN e /\ 0 \notin K /\ n \in K /\ c \in K /\ g \in K /\ n # c /\ n # g /\ c # g
  /\ w \in K \cup {0} /\ t \in K \cup {0} /\ v \in K \cup {0} /\ b \in K \cup {0}
  /\ w \notin {n, c, g} /\ t \notin {n, c, g} /\ v \notin {n, c, g} /\ b \notin {n, c, g}
  /\ e[n].kid[s] = c /\ e[n].kid[u] = b /\ e[c].kid[u] = g /\ e[c].kid[s] = v
  /\ e[g].kid[s] = w /\ e[g].kid[u] = t
  /\ Turnable(e, c, u, g)

LEMMA DoublyIs ==
  ASSUME NEW K, NEW T, NEW span, NEW e, NEW q, NEW k, NEW n, Poised(K, T, span, e, q, k, n),
         \A i \in K, r \in Side : Tells(e, i, r), NEW s \in Side, NEW c, c = e[n].kid[s], c # 0,
         NEW g, g = e[c].kid[Other(s)], g # 0
  PROVE  /\ \E u, w, t, v, b : Doubly(K, e, n, s, u, c, g, w, t, v, b)
         /\ c \in span[n] /\ g \in span[n] /\ n \in span[n] /\ g \notin On(q)
<1> DEFINE u == Other(s)
<1>1. /\ n \in K /\ K = DOMAIN e /\ 0 \notin K /\ n \in span[n]
      /\ \A i \in K, r \in Side : e[i].kid[r] \in K \cup {0}
  BY PoisedIn DEF Poised
<1>2. u \in Side /\ Side = {s, u} /\ s # u /\ Other(u) = s
  BY Sides DEF Other
<1>3. /\ c \in K /\ c \in span[n] /\ c # n /\ n \notin span[c] /\ span[c] \subseteq span[n]
      /\ \A i \in K, r \in Side : e[i].kid[r] = c => i = n /\ r = s
  BY <1>1, PoisedKids
<1>4. /\ g \in K /\ g \in span[c] /\ g # c /\ c \notin span[g] /\ span[g] \subseteq span[c]
      /\ \A i \in K, r \in Side : e[i].kid[r] = g => i = c /\ r = u
  BY <1>2, <1>3, PoisedKids
<1> HIDE DEF u
<1>5. n # g
  BY <1>3, <1>4
<1>6. ASSUME NEW y \in K, NEW r \in Side, e[y].kid[r] # 0
      PROVE  e[y].kid[r] \in span[y] /\ e[y].kid[r] # y
  BY <1>6, PoisedKids
<1>7. ASSUME NEW r \in Side PROVE e[g].kid[r] \notin {n, c, g}
  <2>1. CASE e[g].kid[r] = 0
    BY <1>1, <1>3, <1>4, <2>1
  <2>2. CASE e[g].kid[r] # 0
    BY <1>3, <1>4, <1>6, <2>2
  <2> QED  BY <2>1, <2>2
<1>8. e[c].kid[s] \notin {n, c, g}
  <2>1. CASE e[c].kid[s] = 0
    BY <1>1, <1>3, <1>4, <2>1
  <2>2. CASE e[c].kid[s] # 0
    BY <1>2, <1>3, <1>4, <1>6, <2>2
  <2> QED  BY <2>1, <2>2
<1>9. e[n].kid[u] \notin {n, c, g}
  <2>1. CASE e[n].kid[u] = 0
    BY <1>1, <1>3, <1>4, <2>1
  <2>2. CASE e[n].kid[u] # 0
    BY <1>1, <1>2, <1>3, <1>4, <1>6, <2>2
  <2> QED  BY <2>1, <2>2
<1>10. Turnable(e, c, u, g)
  BY <1>2, <1>3, PoisedTurnable DEF u
<1>11. g = e[c].kid[u] /\ Other(s) = u
  BY DEF u
<1>12. Doubly(K, e, n, s, u, c, g, e[g].kid[s], e[g].kid[u], e[c].kid[s], e[n].kid[u])
  BY <1>1, <1>2, <1>3, <1>4, <1>5, <1>7, <1>8, <1>9, <1>10, <1>11 DEF Doubly
<1>13. g \notin On(q)
  <2>1. g \in span[n]
    BY <1>3, <1>4
  <2>2. \A j \in 1..Len(q) : q[j] \notin span[n]
    BY PoisedWay
  <2> QED  BY <2>1, <2>2 DEF On
<1> QED  BY <1>1, <1>3, <1>4, <1>12, <1>13

\* After the first rotation, at c, and with g linked to n.
Halfway(K, e, f, n, s, u, c, g, w, t, v, b) ==
  /\ DOMAIN f = K /\ \A i \in K \ {n, c, g} : f[i] = e[i]
  /\ \A i \in K : f[i].pos = e[i].pos
  /\ f[c].kid[u] = w /\ f[c].kid[s] = v /\ f[g].kid[s] = c /\ f[g].kid[u] = t
  /\ f[n].kid[s] = g /\ f[n].kid[u] = b
  /\ H(f, t) = H(e, t) /\ H(f, w) = H(e, w) /\ H(f, v) = H(e, v) /\ H(f, b) = H(e, b)
  /\ H(f, c) = 1 + Big(H(e, w), H(e, v))
  /\ Tells(f, c, s) /\ Tells(f, c, u) /\ Turnable(f, n, s, g)

LEMMA HalfwayIs ==
  ASSUME NEW K, NEW e, NEW n, NEW s, NEW u, NEW c, NEW g, NEW w, NEW t, NEW v, NEW b,
         Doubly(K, e, n, s, u, c, g, w, t, v, b), \A i \in K, r \in Side : Tells(e, i, r),
         NEW f, TurnedIn(e, f, c, u, g), f[n] \in Nodes, NEW pos, pos = e[g].pos
  PROVE  Halfway(K, e, Joined(f, n, s, g, pos), n, s, u, c, g, w, t, v, b)
<1> DEFINE j == Joined(f, n, s, g, pos)
<1>d. /\ s \in Side /\ u \in Side /\ Side = {s, u} /\ s # u /\ Other(s) = u /\ Other(u) = s
      /\ K = DOMAIN e /\ 0 \notin K /\ n \in K /\ c \in K /\ g \in K /\ n # c /\ n # g /\ c # g
  BY Zenon DEF Doubly
<1>k. /\ w \in K \cup {0} /\ t \in K \cup {0} /\ v \in K \cup {0} /\ b \in K \cup {0}
      /\ w \notin {n, c, g} /\ t \notin {n, c, g} /\ v \notin {n, c, g} /\ b \notin {n, c, g}
      /\ e[n].kid[u] = b
  BY Zenon DEF Doubly
<1>1. /\ f[c].kid[u] = w /\ f[c].kid[s] = v /\ f[g].kid[s] = c /\ f[g].kid[u] = t
      /\ H(f, w) = H(e, w) /\ H(f, v) = H(e, v) /\ H(f, t) = H(e, t)
      /\ H(f, c) = 1 + Big(H(e, w), H(e, v))
      /\ \A i \in DOMAIN e : f[i].pos = e[i].pos
      /\ Tells(f, c, s) /\ Tells(f, c, u) /\ Tells(f, g, s) /\ Tells(f, g, u)
  <2>1. /\ 0 \notin DOMAIN e /\ Turnable(e, c, u, g) /\ s = Other(u) /\ w = e[g].kid[s] /\ t = e[g].kid[u]
        /\ v = e[c].kid[s]
    BY DEF Doubly
  <2>2. /\ f[c].kid[u] = w /\ f[c].kid[s] = v /\ f[g].kid[s] = c /\ f[g].kid[u] = t
        /\ H(f, w) = H(e, w) /\ H(f, v) = H(e, v) /\ H(f, t) = H(e, t)
        /\ H(f, c) = 1 + Big(H(e, w), H(e, v))
        /\ \A i \in DOMAIN e : f[i].pos = e[i].pos
        /\ \A r \in Side : Tells(f, c, r) /\ Tells(f, g, r)
    BY <2>1, TurnHeights
  <2> QED  BY <1>d, <2>2
<1>2. DOMAIN f = K /\ \A i \in K \ {c, g} : f[i] = e[i]
  BY <1>d DEF TurnedIn
<1>3. f[n] = e[n] /\ n \in DOMAIN f
  BY <1>d, <1>2
<1>4. /\ DOMAIN j = K /\ \A i \in K \ {n} : j[i] = f[i]
      /\ j[n].pos = e[n].pos
      /\ j[n].kid[s] = g /\ j[n].kidPos[s] = pos
      /\ j[n].kid[u] = b /\ j[n].kidPos[u] = e[n].kidPos[u]
  <2>1. /\ DOMAIN j = DOMAIN f /\ \A i \in DOMAIN f \ {n} : j[i] = f[i]
        /\ j[n].pos = f[n].pos
        /\ j[n].kid[s] = g /\ j[n].kidPos[s] = pos
        /\ j[n].kid[Other(s)] = f[n].kid[Other(s)] /\ j[n].kidPos[Other(s)] = f[n].kidPos[Other(s)]
    BY <1>d, <1>3, JoinedIs
  <2> HIDE DEF j
  <2> QED  BY <1>d, <1>k, <1>2, <1>3, <2>1
<1> HIDE DEF j
<1>5. /\ \A i \in K : j[i].pos = e[i].pos
      /\ \A i \in K \ {n, c, g} : j[i] = e[i]
      /\ j[c] = f[c] /\ j[g] = f[g]
  BY <1>d, <1>1, <1>2, <1>4
<1>6. \A i \in K \cup {0} : i # n => H(j, i) = H(f, i)
  BY <1>d, <1>4 DEF H
<1>7. H(f, b) = H(e, b)
  BY <1>d, <1>k, <1>2 DEF H
<1>8. H(j, t) = H(f, t) /\ H(j, w) = H(f, w) /\ H(j, v) = H(f, v) /\ H(j, b) = H(f, b) /\ H(j, c) = H(f, c)
  BY <1>d, <1>k, <1>6
<1>9. ASSUME NEW r \in Side
      PROVE  /\ Tells(f, c, r) => Tells(j, c, r)
             /\ Tells(f, g, r) => Tells(j, g, r)
  BY <1>d, <1>1, <1>2, <1>4, <1>5 DEF Tells
<1>10. Tells(j, c, s) /\ Tells(j, c, u) /\ Tells(j, g, s)
  BY <1>d, <1>1, <1>9
<1>11. Tells(j, n, u)
  <2>1. b # 0 => b \in K /\ e[n].kidPos[u] = e[b].pos
    BY <1>d, <1>k DEF Tells
  <2> QED  BY <1>4, <1>5, <2>1 DEF Tells
<1>12. j[g].kid[u] = t /\ j[g].kid[s] = c /\ j[c].kid[u] = w /\ j[c].kid[s] = v
  BY <1>1, <1>5
<1>13. Turnable(j, n, s, g)
  BY <1>d, <1>k, <1>4, <1>10, <1>11, <1>12 DEF Turnable
<1>14. /\ H(j, t) = H(e, t) /\ H(j, w) = H(e, w) /\ H(j, v) = H(e, v) /\ H(j, b) = H(e, b)
       /\ H(j, c) = 1 + Big(H(e, w), H(e, v))
  BY <1>1, <1>7, <1>8
<1>15. Halfway(K, e, j, n, s, u, c, g, w, t, v, b)
  BY <1>4, <1>5, <1>10, <1>12, <1>13, <1>14 DEF Halfway
<1> QED  BY <1>15 DEF j

\* After the second, at n.
LEMMA DoubleHeights ==
  ASSUME NEW K, NEW e, NEW n, NEW s, NEW u, NEW c, NEW g, NEW w, NEW t, NEW v, NEW b,
         Doubly(K, e, n, s, u, c, g, w, t, v, b), NEW f,
         Halfway(K, e, f, n, s, u, c, g, w, t, v, b), NEW o, TurnedIn(f, o, n, s, g)
  PROVE  /\ DOMAIN o = K /\ \A i \in K \ {n, c, g} : o[i] = e[i]
         /\ \A i \in K : o[i].pos = e[i].pos
         /\ o[n].kid[s] = t /\ o[n].kid[u] = b /\ o[g].kid[u] = n /\ o[g].kid[s] = c
         /\ o[c].kid[u] = w /\ o[c].kid[s] = v
         /\ H(o, t) = H(e, t) /\ H(o, w) = H(e, w) /\ H(o, v) = H(e, v) /\ H(o, b) = H(e, b)
         /\ H(o, c) = 1 + Big(H(e, w), H(e, v)) /\ H(o, n) = 1 + Big(H(e, t), H(e, b))
         /\ H(o, g) = 1 + Big(H(o, n), H(o, c))
         /\ \A r \in Side : Tells(o, n, r) /\ Tells(o, c, r) /\ Tells(o, g, r)
<1>d. /\ s \in Side /\ u \in Side /\ Side = {s, u} /\ s # u /\ Other(s) = u
      /\ K = DOMAIN e /\ 0 \notin K /\ n \in K /\ c \in K /\ g \in K /\ n # c /\ n # g /\ c # g
  BY Zenon DEF Doubly
<1>k. /\ w \in K \cup {0} /\ t \in K \cup {0} /\ v \in K \cup {0} /\ b \in K \cup {0}
      /\ w \notin {n, c, g} /\ t \notin {n, c, g} /\ v \notin {n, c, g} /\ b \notin {n, c, g}
  BY Zenon DEF Doubly
<1>h. /\ DOMAIN f = K /\ \A i \in K \ {n, c, g} : f[i] = e[i]
      /\ \A i \in K : f[i].pos = e[i].pos
      /\ f[c].kid[u] = w /\ f[c].kid[s] = v /\ f[g].kid[s] = c /\ f[g].kid[u] = t
      /\ f[n].kid[s] = g /\ f[n].kid[u] = b
      /\ H(f, t) = H(e, t) /\ H(f, w) = H(e, w) /\ H(f, v) = H(e, v) /\ H(f, b) = H(e, b)
      /\ H(f, c) = 1 + Big(H(e, w), H(e, v))
      /\ Tells(f, c, s) /\ Tells(f, c, u) /\ Turnable(f, n, s, g)
  BY Zenon DEF Halfway
<1>1. /\ o[n].kid[s] = t /\ o[n].kid[u] = b /\ o[g].kid[u] = n /\ o[g].kid[s] = c
      /\ H(o, t) = H(f, t) /\ H(o, b) = H(f, b) /\ H(o, c) = H(f, c)
      /\ H(o, n) = 1 + Big(H(f, t), H(f, b)) /\ H(o, g) = 1 + Big(H(o, n), H(f, c))
      /\ \A i \in DOMAIN f : o[i].pos = f[i].pos
      /\ \A r \in Side : Tells(o, n, r) /\ Tells(o, g, r)
  <2>1. 0 \notin DOMAIN f /\ u = Other(s) /\ t = f[g].kid[u] /\ c = f[g].kid[s] /\ b = f[n].kid[u]
    BY <1>d, <1>h
  <2> QED  BY <1>h, <2>1, TurnHeights
<1>2. DOMAIN o = K /\ \A i \in K \ {n, g} : o[i] = f[i]
  BY <1>h DEF TurnedIn
<1>3. /\ \A i \in K \ {n, c, g} : o[i] = e[i]
      /\ \A i \in K : o[i].pos = e[i].pos
      /\ o[c] = f[c]
  BY <1>d, <1>h, <1>1, <1>2
<1>4. \A i \in K \cup {0} : i \notin {n, c, g} => H(o, i) = H(e, i)
  BY <1>d, <1>3 DEF H
<1>5. H(o, w) = H(e, w) /\ H(o, v) = H(e, v) /\ o[c].kid[u] = w /\ o[c].kid[s] = v
  BY <1>k, <1>h, <1>3, <1>4
<1>6. ASSUME NEW r \in Side, Tells(f, c, r) PROVE Tells(o, c, r)
  BY <1>d, <1>h, <1>1, <1>2, <1>3, <1>6 DEF Tells
<1>7. \A r \in Side : Tells(o, c, r)
  BY <1>d, <1>h, <1>6
<1> QED  BY <1>h, <1>1, <1>2, <1>3, <1>5, <1>7

\* The numbers of it.
LEMMA DoubleEven ==
  ASSUME NEW h \in Nat, NEW w \in Nat, NEW t \in Nat, NEW v \in Nat, NEW b \in Nat,
         h = 1 + v, h = 1 + b, Even(h, w, t)
  PROVE  /\ 1 + Big(w, v) = h /\ 1 + Big(t, b) = h /\ 1 + Big(h, h) = h + 1
         /\ Even(h, v, w) /\ Even(h, t, b) /\ Even(h + 1, h, h)
BY DEF Even, Big

LEMMA DoubleIsEven ==
  ASSUME NEW o, NEW i, NEW s \in Side, NEW u, u = Other(s), NEW x, NEW y, NEW h \in Nat,
         o[i].kid[s] = x, o[i].kid[u] = y, Even(h, H(o, x), H(o, y)), H(o, x) \in Nat, H(o, y) \in Nat, H(o, i) = h
  PROVE  EvenAt(o, i)
<1>1. Side = {s, u}
  BY Sides DEF Other
<1>2. \A r \in Side : H(o, o[i].kid[r]) \in Nat
  BY <1>1
<1> QED  BY <1>2, EvenSides

LEMMA DoubleStands ==
  ASSUME NEW K, NEW T, NEW span, NEW e, NEW q, NEW k, NEW n, Poised(K, T, span, e, q, k, n),
         NEW m, NEW h, Lifted(m, e, q, k, n, h), NEW s, NEW c, Tilted(m, e, q, k, n, h, s, c), SideOf(k, c) # s,
         NEW u, NEW g, NEW w, NEW t, NEW v, NEW b, Doubly(K, e, n, s, u, c, g, w, t, v, b), g \notin On(q),
         NEW f, Halfway(K, e, f, n, s, u, c, g, w, t, v, b), NEW o, TurnedIn(f, o, n, s, g)
  PROVE  /\ EvenAt(o, n) /\ EvenAt(o, c) /\ EvenAt(o, g) /\ H(o, g) = h + 1
         /\ h = 1 + H(e, e[n].kid[Other(SideOf(k, n))])
<1>d. /\ s \in Side /\ u \in Side /\ Side = {s, u} /\ s # u /\ Other(s) = u /\ Other(u) = s
      /\ K = DOMAIN e /\ 0 \notin K /\ n \in K /\ c \in K /\ g \in K /\ n # c /\ n # g /\ c # g
      /\ e[n].kid[u] = b /\ e[c].kid[u] = g /\ e[c].kid[s] = v /\ e[g].kid[s] = w /\ e[g].kid[u] = t
  BY Zenon DEF Doubly
<1>1. SideOf(k, c) = u
  BY <1>d, Sides
<1>2. h \in Nat /\ h = 1 + H(e, b) /\ H(e, g) = h /\ h = 1 + H(e, v) /\ s = SideOf(k, n)
  BY <1>d, <1>1 DEF Tilted
<1>3. H(e, w) \in Nat /\ H(e, t) \in Nat /\ H(e, v) \in Nat /\ H(e, b) \in Nat
  BY <1>d, HeightsAre
<1>4. Even(h, H(e, w), H(e, t))
  <2>1. EvenAt(e, g)
    BY <1>d DEF Lifted
  <2>2. \A r \in Side : H(e, e[g].kid[r]) \in Nat
    BY <1>d, HeightsAre
  <2> QED  BY <1>d, <1>2, <2>1, <2>2, EvenSides
<1>5. /\ 1 + Big(H(e, w), H(e, v)) = h /\ 1 + Big(H(e, t), H(e, b)) = h /\ 1 + Big(h, h) = h + 1
      /\ Even(h, H(e, v), H(e, w)) /\ Even(h, H(e, t), H(e, b)) /\ Even(h + 1, h, h)
  BY <1>2, <1>3, <1>4, DoubleEven
<1>6. /\ o[n].kid[s] = t /\ o[n].kid[u] = b /\ o[g].kid[u] = n /\ o[g].kid[s] = c
      /\ o[c].kid[u] = w /\ o[c].kid[s] = v
      /\ H(o, t) = H(e, t) /\ H(o, w) = H(e, w) /\ H(o, v) = H(e, v) /\ H(o, b) = H(e, b)
      /\ H(o, c) = 1 + Big(H(e, w), H(e, v)) /\ H(o, n) = 1 + Big(H(e, t), H(e, b))
      /\ H(o, g) = 1 + Big(H(o, n), H(o, c))
  BY DoubleHeights
<1>7. H(o, n) = h /\ H(o, c) = h /\ H(o, g) = h + 1 /\ h + 1 \in Nat
  BY <1>2, <1>5, <1>6
<1>8. EvenAt(o, n)
  BY <1>d, <1>2, <1>3, <1>5, <1>6, <1>7, DoubleIsEven
<1>9. EvenAt(o, c)
  BY <1>d, <1>2, <1>3, <1>5, <1>6, <1>7, DoubleIsEven
<1>10. EvenAt(o, g)
  BY <1>d, <1>2, <1>5, <1>6, <1>7, DoubleIsEven
<1> QED  BY <1>d, <1>2, <1>7, <1>8, <1>9, <1>10

\* What the two rotations read, change and leave in the cache.
LEMMA DoubleReaches ==
  ASSUME NEW K, NEW e, NEW n, NEW s, NEW u, NEW c, NEW g, NEW w, NEW t, NEW v, NEW b,
         Doubly(K, e, n, s, u, c, g, w, t, v, b), NEW f,
         Halfway(K, e, f, n, s, u, c, g, w, t, v, b),
         NEW D, D = {n, c, g}, NEW m, NEW m1, NEW m2, NEW o,
         Works(m, m1, Family(e, g) \cup Family(e, c)), Works(m1, m2, {}), Works(m2, o, Family(f, g) \cup Family(f, n))
  PROVE  Works(m, o, Reach(e, D))
<1>d. /\ s \in Side /\ Other(s) = u
      /\ e[n].kid[s] = c /\ e[n].kid[u] = b /\ e[c].kid[u] = g /\ e[c].kid[s] = v /\ e[g].kid[s] = w /\ e[g].kid[u] = t
      /\ f[g].kid[s] = c /\ f[g].kid[u] = t /\ f[n].kid[s] = g /\ f[n].kid[u] = b
  BY Zenon DEF Doubly, Halfway
<1>1. \A j, i : KidsOf(j, i) = {j[i].kid[s], j[i].kid[u]} \ {0}
  BY <1>d, KidsAre
<1>2. Family(e, g) \cup Family(e, c) \subseteq Reach(e, D)
  BY DEF Reach, Family
<1>3. KidsOf(f, g) = {c, t} \ {0} /\ KidsOf(f, n) = {g, b} \ {0}
  BY <1>d, <1>1
<1>4. t \in KidsOf(e, g) \cup {0} /\ b \in KidsOf(e, n) \cup {0}
  BY <1>d, <1>1
<1>5. Family(f, g) \cup Family(f, n) \subseteq Reach(e, D)
  BY <1>3, <1>4 DEF Reach, Family
<1> QED  BY <1>2, <1>5 DEF Works

\* Two rotations: first at the child c, the grandchild g of which is towards k.
LEMMA DoubleTurns ==
  ASSUME NEW K, NEW T, NEW span, NEW e, NEW q, NEW k, NEW n, Poised(K, T, span, e, q, k, n), StoreOK,
         NEW m, NEW h, Lifted(m, e, q, k, n, h), NEW s, NEW c, Tilted(m, e, q, k, n, h, s, c), SideOf(k, c) # s,
         NEW u, NEW g, NEW w, NEW t, NEW v, NEW b, Doubly(K, e, n, s, u, c, g, w, t, v, b), g \notin On(q),
         c \in span[n], g \in span[n], n \in span[n]
  PROVE  LET m1 == Rotate(m, c, u)
             m2 == Link(m1, n, s, g, m1.cache[g].pos)
         IN  ~m1.lost /\ \E o : Climbed(Rotate(m2, n, s), o, q, k, g, h + 1)
<1>d. /\ s \in Side /\ u \in Side /\ Side = {s, u} /\ s # u /\ Other(s) = u /\ Other(u) = s
      /\ K = DOMAIN e /\ 0 \notin K /\ n \in K /\ c \in K /\ g \in K /\ n # c /\ n # g /\ c # g
      /\ e[n].kid[s] = c /\ e[c].kid[u] = g /\ e[g].kid[s] = w /\ e[g].kid[u] = t
      /\ t \in K \cup {0} /\ w \in K \cup {0} /\ Turnable(e, c, u, g)
  BY Zenon DEF Doubly
<1>1. /\ Holds(m, e) /\ \A i \in K, r \in Side : Tells(e, i, r)
  BY Zenon DEF Lifted, Poised
<1>2. /\ s = SideOf(k, n) /\ c \in DOMAIN m.cache /\ n \in DOMAIN m.cache /\ KidsOf(e, c) \subseteq DOMAIN m.cache
      /\ KidsOf(e, g) \subseteq DOMAIN m.cache
  <2>1. SideOf(k, c) = u
    BY <1>d, Sides
  <2> QED  BY <1>d, <2>1 DEF Tilted
<1>3. g \in DOMAIN m.cache /\ w \in DOMAIN m.cache \cup {0} /\ t \in DOMAIN m.cache \cup {0}
  <2>1. g \in KidsOf(e, c) /\ KidsOf(e, g) = {w, t} \ {0}
    BY <1>d, KidsAre DEF KidsOf
  <2> QED  BY <1>2, <2>1
<1> DEFINE m1 == Rotate(m, c, u)
           m2 == Link(m1, n, s, g, m1.cache[g].pos)
           oo == Rotate(m2, n, s)
           D == {n, c, g}
<1>4. /\ \E f : Holds(m1, f) /\ TurnedIn(e, f, c, u, g)
      /\ Works(m, m1, Family(e, g) \cup Family(e, c))
  <2>1. e[g].kid[Other(u)] \in DOMAIN m.cache \cup {0}
    BY <1>d, <1>3
  <2> QED  BY <1>d, <1>1, <1>2, <1>3, <2>1, RotateHolds
<1> HIDE DEF m1
<1>5. PICK f : Holds(m1, f) /\ TurnedIn(e, f, c, u, g)
  BY <1>4
<1>6. /\ n \in DOMAIN m1.cache /\ g \in DOMAIN m1.cache /\ c \in DOMAIN m1.cache
      /\ m1.cache[g].pos = e[g].pos /\ f[n] \in Nodes /\ g \in NodeKey
      /\ e[g].pos \in Leaves
  <2>1. n \in DOMAIN m1.cache /\ g \in DOMAIN m1.cache /\ c \in DOMAIN m1.cache
    BY <1>2, <1>3, <1>4 DEF Works
  <2>2. m1.cache[g] = f[g]
    BY <1>5, <2>1, HoldsCached
  <2>3. f[g].pos = e[g].pos /\ DOMAIN f = K
    BY <1>d, <1>5 DEF TurnedIn
  <2>4. f[n] \in Nodes /\ f[g] \in Nodes /\ g \in Key
    BY <1>d, <1>5, <2>3, HoldsNodes
  <2> QED  BY <2>1, <2>2, <2>3, <2>4 DEF Nodes, NodeKey
<1>7. m2 = Link(m1, n, s, g, e[g].pos) /\ Placing(g, e[g].pos)
  BY <1>6 DEF Placing
<1>8. Holds(m2, Joined(f, n, s, g, e[g].pos)) /\ DOMAIN m2.cache = DOMAIN m1.cache /\ Works(m1, m2, {})
  BY <1>d, <1>5, <1>6, <1>7, LinkHolds
<1>9. PICK j : j = Joined(f, n, s, g, e[g].pos)
  OBVIOUS
<1>10. Halfway(K, e, j, n, s, u, c, g, w, t, v, b)
  BY <1>1, <1>5, <1>6, <1>9, HalfwayIs
<1> HIDE DEF m2
<1>11. Turnable(j, n, s, g) /\ j[g].kid[Other(s)] = t
  BY <1>d, <1>10 DEF Halfway
<1>12. n \in DOMAIN m2.cache /\ g \in DOMAIN m2.cache /\ t \in DOMAIN m2.cache \cup {0}
  BY <1>3, <1>4, <1>6, <1>8 DEF Works
<1>13. /\ \E o : Holds(oo, o) /\ TurnedIn(j, o, n, s, g)
       /\ Family(j, g) \cup Family(j, n) \subseteq DOMAIN oo.cache
       /\ Works(m2, oo, Family(j, g) \cup Family(j, n))
  <2>1. Holds(m2, j) /\ j[g].kid[Other(s)] \in DOMAIN m2.cache \cup {0}
    BY <1>8, <1>9, <1>11, <1>12
  <2> QED  BY <1>11, <1>12, <2>1, RotateHolds
<1> HIDE DEF oo
<1>14. PICK o : Holds(oo, o) /\ TurnedIn(j, o, n, s, g)
  BY <1>13
<1>15. /\ DOMAIN o = K /\ \A i \in K \ {n, c, g} : o[i] = e[i]
       /\ \A i \in K : o[i].pos = e[i].pos
       /\ \A r \in Side : Tells(o, n, r) /\ Tells(o, c, r) /\ Tells(o, g, r)
  BY <1>10, <1>14, DoubleHeights
<1>16. /\ EvenAt(o, n) /\ EvenAt(o, c) /\ EvenAt(o, g) /\ H(o, g) = h + 1
       /\ h = 1 + H(e, e[n].kid[Other(SideOf(k, n))])
  BY <1>10, <1>14, DoubleStands
<1>17. Closed(e, D, n) /\ D \subseteq span[n]
  BY <1>d DEF Closed
<1>18. Reshapes(m, e, oo, o, D)
  <2>1. Works(m, oo, Reach(e, D))
    BY <1>4, <1>8, <1>10, <1>13, DoubleReaches
  <2>2. D \subseteq DOMAIN oo.cache
    BY <1>6, <1>8, <1>13 DEF Works, Family
  <2> QED  BY <1>d, <1>15, <2>1, <2>2 DEF Reshapes
<1>19. g \in D /\ \A i \in D : EvenAt(o, i) /\ \A r \in Side : Tells(o, i, r)
  BY <1>15, <1>16
<1> HIDE DEF D
<1>20. Climbed(oo, o, q, k, g, h + 1)
  BY <1>14, <1>16, <1>17, <1>18, <1>19, TurnedClimbs
<1>21. ~m1.lost
  BY <1>5 DEF Holds
<1> QED  BY <1>20, <1>21 DEF oo, m2, m1

LEMMA DoubleClimbs ==
  ASSUME NEW K, NEW T, NEW span, NEW e, NEW q, NEW k, NEW n, Poised(K, T, span, e, q, k, n), StoreOK,
         NEW m, NEW h, Lifted(m, e, q, k, n, h), NEW s, NEW c, Tilted(m, e, q, k, n, h, s, c), SideOf(k, c) # s
  PROVE  LET g == e[c].kid[Other(s)]
             m1 == Rotate(m, c, Other(s))
             m2 == Link(m1, n, s, g, m1.cache[g].pos)
         IN  ~m1.lost /\ \E o : Climbed(Rotate(m2, n, s), o, q, k, g, h + 1)
<1>1. PICK g : g = e[c].kid[Other(s)]
  OBVIOUS
<1>2. \A i \in K, r \in Side : Tells(e, i, r)
  BY Zenon DEF Lifted, Poised
<1>3. c = e[n].kid[s] /\ c # 0 /\ s \in Side /\ SideOf(k, c) = Other(s)
  <2>1. c = e[n].kid[s] /\ c # 0 /\ s = SideOf(k, n)
    BY Zenon DEF Tilted
  <2>2. \A i : SideOf(k, i) \in Side
    BY Sides
  <2> QED  BY <2>1, <2>2 DEF Other
<1>4. g # 0
  BY <1>1, <1>3 DEF Tilted
<1>5. /\ \E u, w, t, v, b : Doubly(K, e, n, s, u, c, g, w, t, v, b)
      /\ c \in span[n] /\ g \in span[n] /\ n \in span[n] /\ g \notin On(q)
  BY <1>1, <1>2, <1>3, <1>4, DoublyIs
<1>6. PICK u, w, t, v, b : Doubly(K, e, n, s, u, c, g, w, t, v, b)
  BY <1>5
<1>7. u = Other(s)
  BY <1>6 DEF Doubly
<1>8. LET m1 == Rotate(m, c, u)
          m2 == Link(m1, n, s, g, m1.cache[g].pos)
      IN  ~m1.lost /\ \E o : Climbed(Rotate(m2, n, s), o, q, k, g, h + 1)
  BY <1>5, <1>6, DoubleTurns
<1> QED  BY <1>1, <1>7, <1>8

\* The side on which n is out of balance is that of k.
LEMMA TiltIsThere ==
  ASSUME NEW h \in Nat, NEW x \in {h, h + 1}, NEW y \in Nat, h - y \in -1..1, NEW S \in Side,
         NEW l, NEW r, S = "l" => l = x /\ r = y, S = "r" => l = y /\ r = x
  PROVE  /\ l - r \in -1..1 <=> x - y \in -1..1
         /\ l - r \notin -1..1 => S = IF l - r > 1 THEN "l" ELSE "r"
BY DEF Side

LEMMA RebalanceClimbs ==
  ASSUME NEW K, NEW T, NEW span, NEW e, NEW q, NEW k, NEW n, Poised(K, T, span, e, q, k, n), StoreOK,
         NEW m, NEW h, Lifted(m, e, q, k, n, h)
  PROVE  LET up == Rebalance(m, n, k)
         IN  ~up.m.lost /\ \E f, j : Climbed(up.m, f, q, k, up.top, j)
<1> DEFINE S == SideOf(k, n)
           c == e[n].kid[S]
           b == e[n].kid[Other(S)]
           x == H(e, c)
           y == H(e, b)
           l == Height(m, m.cache[n].kid["l"])
           r == Height(m, m.cache[n].kid["r"])
           s == IF l - r > 1 THEN "l" ELSE "r"
<1> DEFINE Done(up) == ~up.m.lost /\ \E f, j : Climbed(up.m, f, q, k, up.top, j)
<1>1. /\ Holds(m, e) /\ Family(e, n) \subseteq DOMAIN m.cache /\ k # n /\ c # 0 /\ h \in Nat
      /\ x \in {h, h + 1} /\ h - y \in -1..1
  BY Zenon DEF Lifted
<1>2. S \in Side /\ Other(S) \in Side /\ n \in K /\ K = DOMAIN e /\ y \in Nat
  BY Sides, HeightsAre DEF Poised
<1>3. n \in DOMAIN m.cache /\ m.cache[n] = e[n]
  BY <1>1, HoldsCached DEF Family
<1>4. \A t \in Side : Height(m, m.cache[n].kid[t]) = H(e, e[n].kid[t])
  <2> TAKE t \in Side
  <2>1. e[n].kid[t] \in DOMAIN m.cache \cup {0}
    BY <1>1 DEF Family, KidsOf
  <2> QED  BY <1>1, <1>3, <2>1, HeightHolds
<1>5. (S = "l" => l = x /\ r = y) /\ (S = "r" => l = y /\ r = x)
  BY <1>2, <1>4 DEF Other
<1>6. /\ l - r \in -1..1 <=> x - y \in -1..1
      /\ l - r \notin -1..1 => S = s
  <2> HIDE DEF x, y, l, r, S
  <2> QED  BY <1>1, <1>2, <1>5, TiltIsThere
<1>7. PICK up : up = Rebalance(m, n, k)
  OBVIOUS
<1>10. up = IF l - r \in -1..1 \/ k = m.cache[n].kid[s] THEN Result(m, n)
           ELSE IF SideOf(k, m.cache[n].kid[s]) = s THEN Result(Rotate(m, n, s), m.cache[n].kid[s])
           ELSE LET cc == m.cache[n].kid[s]
                    g == m.cache[cc].kid[Other(s)]
                    m1 == Rotate(m, cc, Other(s))
                IN  IF m1.lost THEN Result(m1, n)
                    ELSE Result(Rotate(Link(m1, n, s, g, m1.cache[g].pos), n, s), g)
  BY <1>7 DEF Rebalance
<1>8. ASSUME x - y \in -1..1 PROVE Done(up)
  <2>1. up = Result(m, n)
    BY <1>6, <1>8, <1>10
  <2>2. up.m = m /\ up.top = n
    BY <2>1 DEF Result
  <2>3. Climbed(m, e, q, k, n, 1 + Big(h, H(e, e[n].kid[Other(S)])))
    BY <1>8, BalancedClimbs
  <2>4. ~m.lost
    BY <1>1 DEF Holds
  <2> QED  BY <2>2, <2>3, <2>4
<1>9. ASSUME x - y \notin -1..1 PROVE Done(up)
  <2>1. Tilted(m, e, q, k, n, h, S, c)
    BY <1>9, TiltedIs
  <2>2. /\ c # k /\ c \in DOMAIN m.cache /\ m.cache[c] = e[c]
    <3>1. c # k /\ c \in DOMAIN m.cache
      BY <2>1 DEF Tilted
    <3> QED  BY <1>1, <3>1, HoldsCached
  <2>3. s = S /\ m.cache[n].kid[s] = c /\ l - r \notin -1..1
    BY <1>3, <1>6, <1>9
  <2> HIDE DEF l, r, s
  <2>4. CASE SideOf(k, c) = S
    <3>1. up = Result(Rotate(m, n, S), c)
      BY <1>10, <2>2, <2>3, <2>4
    <3>2. up.m = Rotate(m, n, S) /\ up.top = c
      BY <3>1 DEF Result
    <3>3. \E g : Climbed(Rotate(m, n, S), g, q, k, c, h + 1)
      BY <2>1, <2>4, SingleClimbs
    <3>4. ~Rotate(m, n, S).lost
      BY <3>3 DEF Climbed, Climbs, Holds
    <3> QED  BY <3>2, <3>3, <3>4
  <2>5. CASE SideOf(k, c) # S
    <3> DEFINE g == e[c].kid[Other(S)]
               m1 == Rotate(m, c, Other(S))
               m2 == Link(m1, n, S, g, m1.cache[g].pos)
    <3>1. ~m1.lost /\ \E o : Climbed(Rotate(m2, n, S), o, q, k, g, h + 1)
      BY <2>1, <2>5, DoubleClimbs
    <3>2. up = Result(Rotate(m2, n, S), g)
      BY <1>10, <2>2, <2>3, <2>5, <3>1
    <3>3. up.m = Rotate(m2, n, S) /\ up.top = g
      BY <3>2 DEF Result
    <3>4. ~Rotate(m2, n, S).lost
      BY <3>1 DEF Climbed, Climbs, Holds
    <3> QED  BY <3>1, <3>3, <3>4
  <2> QED  BY <2>4, <2>5
<1>11. Done(up)
  BY <1>8, <1>9
<1> QED  BY <1>7, <1>11

-----------------------------------------------------------------------------
(* Nothing is lost: the invariant.                                           *)

\* f are the nodes, and each is where its position says.
Sound(f) ==
  /\ DOMAIN f = Stored /\ Stored \subseteq geo.keys
  /\ \A k \in DOMAIN f : Newest(k) = f[k] /\ FoundIn(store, oram, k, f[k].pos)

\* Every node is even and knows where its children are, and p where its node is.
Settled(f) == \A i \in DOMAIN f : EvenAt(f, i) /\ \A s \in Side : Tells(f, i, s)
Rooted(p, f) == p.key # 0 => p.key \in DOMAIN f /\ p.pos = f[p.key].pos

\* A search is at the root or at a child of a node it read.
Followed(m, f, top, p) == p = top \/ \E i \in DOMAIN m.cache, s \in Side : i \in DOMAIN f /\ f[i].kid[s] = p

Nodal(f) ==
  /\ Sound(f)
  /\ pc # "up" => Settled(f) /\ Rooted(root, f)
  /\ pc = "up" => \E h : Climbs(oram, f, path, op.key, at.key, h)
  /\ pc \in {"find", "down", "up"} => Rooted(at, f)
  /\ pc \in {"idle", "find", "down", "finish"} => Told(oram, f)
  /\ pc = "find" /\ at.key # 0 => Followed(oram, f, root.key, at.key)
  /\ pc = "idle" => oram.modified = {} /\ oram.readview = {}

NInv ==
  /\ pc \notin {"lost", "broken"} /\ ~oram.lost
  /\ pc \in {"find", "down", "up"} => op.key \in geo.keys
  /\ \E f : Nodal(f)

LEMMA SoundHolds ==
  ASSUME IInv, Apart(oram), ~oram.lost, pc # "write", NEW f, Sound(f)
  PROVE  Holds(oram, f) /\ StoreOK
<1>1. Good(oram) /\ StoreOK
  BY GoodWhenNotWriting
<1>2. Stored = Have(oram) /\ \A k : Newest(k) = Seen(oram, k)
  BY DEF Stored, Have, HaveIn, Newest, Seen, NewestIn
<1> QED  BY <1>1, <1>2 DEF Holds, Sound

LEMMA SoundNext ==
  ASSUME geo' = geo, store' = store, NEW f, Holds(oram', f), DOMAIN f \subseteq geo.keys
  PROVE  Sound(f)' /\ ~oram'.lost
<1>1. /\ Stored' = HaveIn(Buckets, store', oram')
      /\ \A k : Newest(k)' = NewestIn(Buckets, store', oram', k)
  BY NewestNext
<1>2. /\ Stored' = DOMAIN f /\ \A k \in DOMAIN f : Newest(k)' = f[k]
      /\ \A k \in DOMAIN f : FoundIn(store, oram', k, f[k].pos)
      /\ ~oram'.lost
  BY <1>1 DEF Holds, Have, Seen
<1>3. \A leaf : Path(leaf)' = Path(leaf)
  BY GeoKept
<1>4. \A k \in DOMAIN f : FoundIn(store, oram, k, f[k].pos)'
  BY <1>2, <1>3 DEF FoundIn, IsLive
<1> QED  BY <1>2, <1>4 DEF Sound

\* What holds of the nodes while no bucket is written.
LEMMA NodalHolds ==
  ASSUME MInv, NInv, pc # "write"
  PROVE  \E f : Nodal(f) /\ Holds(oram, f) /\ StoreOK /\ DOMAIN f = Stored /\ DOMAIN f \subseteq geo.keys /\ Stored \in SUBSET Key
<1>1. PICK f : Nodal(f)
  BY DEF NInv
<1>2. Sound(f) /\ ~oram.lost /\ IInv /\ Apart(oram)
  BY <1>1 DEF Nodal, NInv, MInv
<1>3. Stored \in SUBSET Key
  BY <1>2, StoredIsKeys
<1> QED  BY <1>1, <1>2, <1>3, SoundHolds DEF Sound

\* A step that leaves the memory alone.
LEMMA SoundKept ==
  ASSUME geo' = geo, store' = store, oram' = oram, NEW f, Sound(f)
  PROVE  Sound(f)'
<1>1. Stored' = Stored /\ (\A k : Newest(k)' = Newest(k)) /\ \A leaf : Path(leaf)' = Path(leaf)
  BY NewestNext, GeoKept DEF Stored, Have, HaveIn, Newest, Seen, NewestIn
<1> QED  BY <1>1 DEF Sound, FoundIn, IsLive

\* The links of the nodes are a tree, and the operation is where it says in it.
Grows(f, L, span) ==
  /\ IsTree(Stored, L, span) /\ Where(Stored, L, span, pc, op.key, path, at.key)
  /\ \A i \in Stored, s \in Side : L[i][s] = f[i].kid[s]
  /\ L[0]["r"] = root.key /\ L[0]["l"] = 0

LEMMA TreeOfNodes ==
  ASSUME MInv, NInv, pc # "up", NEW f, Nodal(f)
  PROVE  \E L, span : Grows(f, L, span)
<1>1. PICK L, span : /\ Shows(Buckets, store, oram, root.key, pc = "up", op.key, path, L)
                     /\ IsTree(Stored, L, span)
                     /\ Where(Stored, L, span, pc, op.key, path, at.key)
  BY DEF MInv, NInv, Searching
<1>2. \A n \in HaveIn(Buckets, store, oram) \cup {0}, s \in Side : L[n][s] = LinkIn(Buckets, store, oram, root.key, n, s)
  BY <1>1 DEF Shows
<1>3. /\ HaveIn(Buckets, store, oram) = Stored /\ 0 \notin Stored
      /\ \A i \in Stored : NewestIn(Buckets, store, oram, i) = f[i]
  <2>1. 0 \notin Stored
    BY StoredIsKeys, Sides DEF MInv
  <2>2. \A k : Newest(k) = NewestIn(Buckets, store, oram, k)
    BY DEF Newest, NewestIn
  <2> QED  BY <2>1, <2>2 DEF Nodal, Sound, Stored, HaveIn
<1>4. /\ \A i \in Stored, s \in Side : L[i][s] = f[i].kid[s]
      /\ L[0]["r"] = root.key /\ L[0]["l"] = 0
  BY <1>2, <1>3 DEF LinkIn
<1> QED  BY <1>1, <1>4 DEF Grows

\* The parent of the node that is read was read before.
LEMMA ParentIsRead ==
  ASSUME MInv, NInv, pc \in {"find", "down"}, at.key # 0, NEW f, Nodal(f)
  PROVE  /\ at.key \in DOMAIN f /\ at.pos = f[at.key].pos
         /\ \A i \in DOMAIN f, s \in Side : f[i].kid[s] = at.key => i \in DOMAIN oram.cache
<1>1. PICK L, span : Grows(f, L, span)
  BY TreeOfNodes
<1>2. /\ IInv /\ Stored \in SUBSET Key /\ DOMAIN f = Stored /\ 0 \notin Stored
      /\ at.key \in DOMAIN f /\ at.pos = f[at.key].pos
  BY StoredIsKeys, Sides DEF MInv, Nodal, Sound, Rooted
<1>3. SUFFICES ASSUME NEW i \in Stored, NEW s \in Side, f[i].kid[s] = at.key
               PROVE  i \in DOMAIN oram.cache
  BY <1>2
<1>4. L[i][s] = at.key /\ IsTree(Stored, L, span)
  BY <1>1, <1>3 DEF Grows
<1>5. \A j \in Stored \cup {0}, t \in Side : L[j][t] = at.key => j = i
  BY <1>2, <1>4, OneParent
<1>6. CASE pc = "find"
  <2>1. CASE at.key = root.key
    BY <1>1, <1>2, <1>5, <2>1 DEF Grows
  <2>2. CASE \E j \in DOMAIN oram.cache, t \in Side : j \in DOMAIN f /\ f[j].kid[t] = at.key
    BY <1>1, <1>2, <1>5, <2>2 DEF Grows
  <2> QED  BY <1>6, <2>1, <2>2 DEF Nodal, Followed
<1>7. CASE pc = "down"
  <2>1. Chain(Stored, L, span, path, op.key, at.key)
    BY <1>1, <1>7 DEF Grows, Where
  <2>2. path \in Seq(Key) /\ 1 \in Steps(path) /\ \A j \in 1..Len(path) : path[j] \in DOMAIN oram.cache
    BY <1>2, <1>7, UpFacts DEF IInv, Control
  <2>3. /\ Up(path, 1) \in Stored \cup {0} /\ SideOf(op.key, Up(path, 1)) \in Side
        /\ L[Up(path, 1)][SideOf(op.key, Up(path, 1))] = at.key
    BY <2>1, <2>2, Sides DEF Chain
  <2>4. Up(path, 1) = i
    BY <1>5, <2>3
  <2> QED  BY <1>2, <2>2, <2>4 DEF Up
<1> QED  BY <1>6, <1>7

LEMMA AtNodeHolds ==
  ASSUME MInv, NInv, pc \in {"find", "down"}, at.key # 0, NEW f, Nodal(f)
  PROVE  /\ Holds(AtNode, f) /\ ~AtNode.lost /\ at.key \in DOMAIN f /\ DOMAIN f \subseteq geo.keys
         /\ at.key \in DOMAIN AtNode.cache /\ AtNode.cache[at.key] = f[at.key]
         /\ DOMAIN oram.cache \subseteq DOMAIN AtNode.cache
         /\ Told(AtNode, f)
<1>1. /\ Holds(oram, f) /\ StoreOK /\ DOMAIN f \subseteq geo.keys /\ Told(oram, f)
  BY SoundHolds DEF MInv, NInv, Nodal, Sound
<1>2. /\ at.key \in DOMAIN f /\ at.pos = f[at.key].pos
      /\ \A i \in DOMAIN f, s \in Side : f[i].kid[s] = at.key => i \in DOMAIN oram.cache
  BY ParentIsRead
<1>3. /\ Holds(AtNode, f) /\ at.key \in DOMAIN AtNode.cache /\ DOMAIN oram.cache \subseteq DOMAIN AtNode.cache
      /\ AtNode.modified = oram.modified \cup {at.key}
  BY <1>1, <1>2, ReadNodeHolds DEF AtNode
<1>4. Told(AtNode, f)
  BY <1>1, <1>2, <1>3 DEF Told
<1>5. ~AtNode.lost /\ AtNode.cache[at.key] = f[at.key]
  BY <1>3, HoldsCached DEF Holds
<1> QED  BY <1>1, <1>2, <1>3, <1>4, <1>5

LEMMA StartIsSettled ==
  ASSUME MInv, NInv, NEW k \in geo.keys, StartFind(k) \/ \E v \in geo.values : StartInsert(k, v)
  PROVE  NInv'
<1>1. pc = "idle" /\ geo' = geo /\ store' = store /\ oram' = oram /\ root' = root
      /\ at' = root /\ pc' \in {"find", "down"} /\ op'.key = k
  BY DEF StartFind, StartInsert
<1>2. PICK f : Nodal(f)
  BY DEF NInv
<1>3. Sound(f)'
  BY <1>1, <1>2, SoundKept DEF Nodal
<1>4. Settled(f) /\ Rooted(root, f) /\ Told(oram, f)
  BY <1>1, <1>2 DEF Nodal
<1>5. Settled(f)' /\ Rooted(root, f)' /\ Rooted(at, f)' /\ Told(oram, f)' /\ Followed(oram, f, root.key, at.key)'
  BY <1>1, <1>4 DEF Settled, Rooted, Told, Followed
<1>6. Nodal(f)'
  BY <1>1, <1>3, <1>5 DEF Nodal
<1> QED  BY <1>1, <1>6 DEF NInv

LEMMA FindMissIsSettled ==
  ASSUME MInv, NInv, FindMiss
  PROVE  NInv'
<1>1. pc = "find" /\ geo' = geo /\ store' = store /\ oram' = oram /\ root' = root /\ pc' \in {"write", "finish"}
  BY DEF FindMiss
<1>2. PICK f : Nodal(f)
  BY DEF NInv
<1>3. Sound(f)'
  BY <1>1, <1>2, SoundKept DEF Nodal
<1>4. Settled(f) /\ Rooted(root, f) /\ Told(oram, f)
  BY <1>1, <1>2 DEF Nodal
<1>5. Settled(f)' /\ Rooted(root, f)' /\ Told(oram, f)'
  BY <1>1, <1>4 DEF Settled, Rooted, Told
<1>6. Nodal(f)'
  BY <1>1, <1>3, <1>5 DEF Nodal
<1> QED  BY <1>1, <1>6 DEF NInv

LEMMA FindHitIsSettled ==
  ASSUME MInv, NInv, FindHit
  PROVE  NInv'
<1>1. /\ pc = "find" /\ geo' = geo /\ store' = store /\ oram' = AtNode /\ root' = root
      /\ at.key = op.key /\ pc' = IF oram'.lost THEN "lost" ELSE "finish"
  BY DEF FindHit, Goto
<1>2. PICK f : Nodal(f)
  BY DEF NInv
<1>3. at.key # 0
  BY <1>1, OpIsCall DEF MInv
<1>4. Holds(oram', f) /\ ~oram'.lost /\ Told(oram', f) /\ DOMAIN f \subseteq geo.keys
  BY <1>1, <1>2, <1>3, AtNodeHolds
<1>5. Sound(f)'
  BY <1>1, <1>4, SoundNext
<1>6. Settled(f) /\ Rooted(root, f)
  BY <1>1, <1>2 DEF Nodal
<1>7. Settled(f)' /\ Rooted(root, f)' /\ Told(oram, f)'
  BY <1>1, <1>4, <1>6 DEF Settled, Rooted, Told
<1>8. Nodal(f)'
  BY <1>1, <1>4, <1>5, <1>7 DEF Nodal
<1> QED  BY <1>1, <1>4, <1>8 DEF NInv

\* The child that follows is where its parent says.
LEMMA NextIsRooted ==
  ASSUME MInv, NInv, pc \in {"find", "down"}, at.key \notin {0, op.key}, NEW f, Nodal(f), at' = Next1(AtNode)
  PROVE  /\ Rooted(at', f) /\ SideOf(op.key, at.key) \in Side
         /\ at'.key = f[at.key].kid[SideOf(op.key, at.key)]
<1> DEFINE s == SideOf(op.key, at.key)
<1>1. ~AtNode.lost /\ at.key \in DOMAIN f /\ AtNode.cache[at.key] = f[at.key]
  BY AtNodeHolds
<1>2. at'.key = f[at.key].kid[s] /\ at'.pos = f[at.key].kidPos[s]
  BY <1>1 DEF Next1, Kid
<1>3. s \in Side
  BY Sides
<1>4. Tells(f, at.key, s)
  BY <1>1, <1>3 DEF Nodal, Settled
<1> QED  BY <1>2, <1>3, <1>4 DEF Tells, Rooted

LEMMA FindDownIsSettled ==
  ASSUME MInv, NInv, FindDown
  PROVE  NInv'
<1>1. /\ pc = "find" /\ geo' = geo /\ store' = store /\ oram' = AtNode /\ root' = root /\ op' = op
      /\ at.key \notin {0, op.key} /\ pc' = (IF oram'.lost THEN "lost" ELSE "find") /\ at' = Next1(AtNode)
  BY DEF FindDown, Goto
<1>2. PICK f : Nodal(f)
  BY DEF NInv
<1>4. /\ Holds(oram', f) /\ ~oram'.lost /\ Told(oram', f) /\ DOMAIN f \subseteq geo.keys
      /\ at.key \in DOMAIN f /\ at.key \in DOMAIN oram'.cache
  BY <1>1, <1>2, AtNodeHolds
<1>5. Sound(f)'
  BY <1>1, <1>4, SoundNext
<1>6. Settled(f) /\ Rooted(root, f)
  BY <1>1, <1>2 DEF Nodal
<1>7. Settled(f)' /\ Rooted(root, f)' /\ Told(oram, f)'
  BY <1>1, <1>4, <1>6 DEF Settled, Rooted, Told
<1>8. Rooted(at', f) /\ Followed(oram', f, root'.key, at'.key)
  <2>1. /\ Rooted(at', f) /\ SideOf(op.key, at.key) \in Side
        /\ at'.key = f[at.key].kid[SideOf(op.key, at.key)]
    BY <1>1, <1>2, NextIsRooted
  <2> QED  BY <1>4, <2>1 DEF Followed
<1>9. Rooted(at, f)' /\ Followed(oram, f, root.key, at.key)'
  BY <1>8 DEF Rooted, Followed
<1>10. Nodal(f)'
  BY <1>1, <1>4, <1>5, <1>7, <1>9 DEF Nodal
<1> QED  BY <1>1, <1>4, <1>10 DEF NInv

LEMMA InsertDownIsSettled ==
  ASSUME MInv, NInv, InsertDown
  PROVE  NInv'
<1>1. /\ pc = "down" /\ geo' = geo /\ store' = store /\ oram' = AtNode /\ root' = root /\ op' = op
      /\ at.key \notin {0, op.key} /\ pc' = (IF oram'.lost THEN "lost" ELSE "down") /\ at' = Next1(AtNode)
  BY DEF InsertDown, Goto
<1>2. PICK f : Nodal(f)
  BY DEF NInv
<1>4. /\ Holds(oram', f) /\ ~oram'.lost /\ Told(oram', f) /\ DOMAIN f \subseteq geo.keys
  BY <1>1, <1>2, AtNodeHolds
<1>5. Sound(f)'
  BY <1>1, <1>4, SoundNext
<1>6. Settled(f) /\ Rooted(root, f)
  BY <1>1, <1>2 DEF Nodal
<1>7. Settled(f)' /\ Rooted(root, f)' /\ Told(oram, f)'
  BY <1>1, <1>4, <1>6 DEF Settled, Rooted, Told
<1>8. Rooted(at', f)
  BY <1>1, <1>2, NextIsRooted
<1>9. Rooted(at, f)'
  BY <1>8 DEF Rooted
<1>10. Nodal(f)'
  BY <1>1, <1>4, <1>5, <1>7, <1>9 DEF Nodal
<1> QED  BY <1>1, <1>4, <1>10 DEF NInv

LEMMA InsertDoneIsSettled ==
  ASSUME MInv, NInv, InsertDone
  PROVE  NInv'
<1>1. /\ pc = "up" /\ path = <<>> /\ geo' = geo /\ store' = store /\ oram' = oram /\ root' = at /\ pc' = "finish"
  BY DEF InsertDone
<1>2. PICK f : Nodal(f)
  BY DEF NInv
<1>3. PICK h : Climbs(oram, f, path, op.key, at.key, h)
  BY <1>1, <1>2 DEF Nodal
<1>4. Sound(f)'
  BY <1>1, <1>2, SoundKept DEF Nodal
<1>5. DOMAIN f \subseteq Key /\ 0 \notin Key
  BY StoredIsKeys, <1>2, Sides DEF MInv, Nodal, Sound
<1>6. Up(path, 1) = 0 /\ On(path) = {}
  BY <1>1 DEF Up, On
<1>7. Settled(f) /\ Told(oram, f)
  BY <1>3, <1>5, <1>6 DEF Climbs, TellsBut, EvenBut, Settled
<1>8. Rooted(at, f)
  BY <1>1, <1>2 DEF Nodal
<1>9. Settled(f)' /\ Rooted(root, f)' /\ Told(oram, f)'
  BY <1>1, <1>7, <1>8 DEF Settled, Rooted, Told
<1>10. Nodal(f)'
  BY <1>1, <1>4, <1>9 DEF Nodal
<1> QED  BY <1>1, <1>10 DEF NInv

\* The nodes f stand in g as they were, whatever their contents, and g may have more.
Covers(f, g) ==
  \A i \in DOMAIN f : /\ i \in DOMAIN g /\ g[i].pos = f[i].pos /\ g[i].height = f[i].height
                      /\ g[i].kid = f[i].kid /\ g[i].kidPos = f[i].kidPos

LEMMA CoversKeeps ==
  ASSUME NEW f, NEW g, Covers(f, g), Settled(f), 0 \notin DOMAIN f
  PROVE  /\ \A j \in DOMAIN f \cup {0} : H(g, j) = H(f, j)
         /\ \A i \in DOMAIN f, s \in Side : f[i].kid[s] \in DOMAIN f \cup {0}
         /\ \A i \in DOMAIN f, s \in Side : H(g, g[i].kid[s]) = H(f, f[i].kid[s])
         /\ \A i \in DOMAIN f : EvenAt(g, i) /\ \A s \in Side : Tells(g, i, s)
<1>1. \A j \in DOMAIN f \cup {0} : H(g, j) = H(f, j)
  BY DEF Covers, H
<1>2. \A i \in DOMAIN f, s \in Side : f[i].kid[s] \in DOMAIN f \cup {0}
  BY DEF Settled, Tells
<1>3. \A i \in DOMAIN f, s \in Side : H(g, g[i].kid[s]) = H(f, f[i].kid[s])
  BY <1>1, <1>2 DEF Covers
<1>4. ASSUME NEW i \in DOMAIN f PROVE EvenAt(g, i)
  <2>1. EvenAt(f, i) /\ H(g, i) = H(f, i)
    BY <1>1 DEF Settled
  <2>2. H(g, g[i].kid["l"]) = H(f, f[i].kid["l"]) /\ H(g, g[i].kid["r"]) = H(f, f[i].kid["r"])
    BY <1>3
  <2> QED  BY <2>1, <2>2 DEF EvenAt
<1>5. ASSUME NEW i \in DOMAIN f, NEW s \in Side PROVE Tells(g, i, s)
  <2>1. Tells(f, i, s)
    BY DEF Settled
  <2> QED  BY <2>1 DEF Tells, Covers
<1> QED  BY <1>1, <1>2, <1>3, <1>4, <1>5

\* The nodes of the memory are nodes.
LEMMA NodesAre ==
  ASSUME NEW m, NEW f, Holds(m, f), StoreOK
  PROVE  /\ 0 \notin DOMAIN f /\ DOMAIN f \subseteq Key /\ H(f, 0) = 0
         /\ \A i \in DOMAIN f : f[i] \in Nodes /\ H(f, i) = f[i].height /\ H(f, i) \in Nat
<1>1. 0 \notin DOMAIN f /\ DOMAIN f \subseteq Key /\ \A i \in DOMAIN f : f[i] \in Nodes
  BY HoldsNodes
<1>2. \A i \in DOMAIN f : f[i].height \in Nat
  BY <1>1 DEF Nodes
<1> QED  BY <1>1, <1>2 DEF H

\* Where the way down ends, the way back begins.
LEMMA ClimbingStart ==
  ASSUME MInv, NInv, pc = "down", NEW f, Nodal(f)
  PROVE  /\ Climbing(f, path, op.key, H(f, at.key)) /\ On(path) \subseteq DOMAIN f
         /\ Up(path, 1) # 0 => f[Up(path, 1)].kid[SideOf(op.key, Up(path, 1))] = at.key
         /\ at.key = 0 => op.key \notin DOMAIN f
         /\ H(f, at.key) \in Nat
<1> DEFINE k == op.key
<1>1. PICK L, span : Grows(f, L, span)
  BY TreeOfNodes
<1>2. /\ IInv /\ Stored \in SUBSET Key /\ DOMAIN f = Stored /\ Settled(f) /\ Holds(oram, f) /\ StoreOK
  BY StoredIsKeys, SoundHolds DEF MInv, NInv, Nodal, Sound
<1>3. 0 \notin DOMAIN f /\ \A i \in DOMAIN f : H(f, i) \in Nat
  BY <1>2, NodesAre
<1>4. Chain(Stored, L, span, path, k, at.key) /\ path \in Seq(Key) /\ IsTree(Stored, L, span) /\ k \in Key
  BY <1>1, <1>2, OpIsCall DEF Grows, Where, IInv, Control
<1>5. \A i \in 1..Len(path) : path[i] \in Stored
  <2> TAKE i \in 1..Len(path)
  <2>1. i \in Steps(path) /\ Up(path, i) = path[i] /\ path[i] \in Key
    BY <1>4, UpFacts DEF Steps, Up
  <2>2. Up(path, i) \in Stored \cup {0}
    BY <1>4, <2>1 DEF Chain
  <2> QED  BY <2>1, <2>2, Sides
<1>6. \A i \in DOMAIN f, s \in Side : f[i].kid[s] \in DOMAIN f \cup {0}
  BY <1>2 DEF Settled, Tells
<1>7. ASSUME NEW i \in 1..Len(path)
      PROVE  Even(H(f, path[i]), IF i = 1 THEN H(f, at.key) ELSE H(f, path[i - 1]),
                  H(f, f[path[i]].kid[Other(SideOf(k, path[i]))]))
  <2> DEFINE s == SideOf(k, path[i])
  <2>1. s \in Side /\ path[i] \in Stored /\ Len(path) \in Nat
    BY <1>4, <1>5, Sides
  <2>2. f[path[i]].kid[s] = IF i = 1 THEN at.key ELSE path[i - 1]
    <3>1. L[path[i]][s] = f[path[i]].kid[s]
      BY <1>1, <2>1 DEF Grows
    <3>2. CASE i = 1
      <4>1. Up(path, 1) = path[1]
        BY <3>2 DEF Up
      <4> QED  BY <1>4, <3>1, <3>2, <4>1 DEF Chain
    <3>3. CASE i # 1
      <4>1. i - 1 \in 1..Len(path) /\ Up(path, (i - 1) + 1) = path[i] /\ Up(path, i - 1) = path[i - 1]
        BY <2>1, <3>3 DEF Up
      <4>2. L[Up(path, (i - 1) + 1)][SideOf(k, Up(path, (i - 1) + 1))] = Up(path, i - 1)
        BY <1>4, <4>1 DEF Chain
      <4> QED  BY <3>1, <3>3, <4>1, <4>2
    <3> QED  BY <3>2, <3>3
  <2>3. EvenAt(f, path[i]) /\ \A r \in Side : H(f, f[path[i]].kid[r]) \in Nat
    <3>1. H(f, 0) \in Nat
      BY DEF H
    <3> QED  BY <1>2, <1>3, <1>6, <2>1, <3>1 DEF Settled
  <2>4. Even(H(f, path[i]), H(f, f[path[i]].kid[s]), H(f, f[path[i]].kid[Other(s)]))
    BY <2>1, <2>3, EvenSides
  <2> QED  BY <2>2, <2>4
<1>8. Up(path, 1) # 0 => f[Up(path, 1)].kid[SideOf(k, Up(path, 1))] = at.key
  <2> SUFFICES ASSUME Up(path, 1) # 0 PROVE f[Up(path, 1)].kid[SideOf(k, Up(path, 1))] = at.key
    OBVIOUS
  <2>1. 1 \in Steps(path) /\ Up(path, 1) \in Stored
    BY <1>4, UpFacts DEF Chain
  <2>2. SideOf(k, Up(path, 1)) \in Side
    BY Sides
  <2> QED  BY <1>1, <1>4, <2>1, <2>2 DEF Chain, Grows
<1>9. at.key \in Stored \cup {0} /\ (at.key = 0 => k \notin Stored)
  BY <1>4, ChainTop
<1>10. H(f, at.key) \in Nat
  BY <1>2, <1>3, <1>9 DEF H
<1> QED  BY <1>2, <1>5, <1>7, <1>8, <1>9, <1>10 DEF Climbing, On

\* The way back can begin with the nodes g.
LEMMA CoversClimbs ==
  ASSUME MInv, NInv, pc = "down", NEW f, Nodal(f), NEW g, Covers(f, g), DOMAIN g = DOMAIN f \cup {op.key},
         NEW m, op.key \in DOMAIN m.cache, Told(m, g),
         \A s \in Side : Tells(g, op.key, s), EvenAt(g, op.key),
         \/ at.key = op.key
         \/ at.key = 0 /\ H(g, op.key) = 1 /\ KidsOf(g, op.key) = {}
  PROVE  \E h : Climbs(m, g, path, op.key, op.key, h)
<1> DEFINE k == op.key
           h == H(f, at.key)
<1>1. /\ Settled(f) /\ Holds(oram, f) /\ StoreOK
  BY SoundHolds DEF MInv, NInv, Nodal
<1>2. 0 \notin DOMAIN f
  BY <1>1, NodesAre
<1>3. /\ \A j \in DOMAIN f \cup {0} : H(g, j) = H(f, j)
      /\ \A i \in DOMAIN f, s \in Side : f[i].kid[s] \in DOMAIN f \cup {0}
      /\ \A i \in DOMAIN f, s \in Side : H(g, g[i].kid[s]) = H(f, f[i].kid[s])
      /\ \A i \in DOMAIN f : EvenAt(g, i) /\ \A s \in Side : Tells(g, i, s)
  BY <1>1, <1>2, CoversKeeps
<1>4. Climbing(f, path, k, h) /\ On(path) \subseteq DOMAIN f /\ h \in Nat
  BY ClimbingStart
<1>5. Climbing(g, path, k, h)
  <2>1. ASSUME NEW i \in 1..Len(path)
        PROVE  Even(H(g, path[i]), IF i = 1 THEN h ELSE H(g, path[i - 1]),
                    H(g, g[path[i]].kid[Other(SideOf(k, path[i]))]))
    <3>1. path[i] \in DOMAIN f /\ (i # 1 => path[i - 1] \in DOMAIN f)
      <4>1. i # 1 => i - 1 \in 1..Len(path)
        <5>1. Len(path) \in Nat
          BY DEF MInv, IInv, Control
        <5> QED  BY <5>1
      <4> QED  BY <1>4, <4>1 DEF On
    <3>2. Other(SideOf(k, path[i])) \in Side
      BY Sides
    <3>3. Even(H(f, path[i]), IF i = 1 THEN h ELSE H(f, path[i - 1]), H(f, f[path[i]].kid[Other(SideOf(k, path[i]))]))
      BY <1>4 DEF Climbing
    <3> QED  BY <1>3, <3>1, <3>2, <3>3
  <2> QED  BY <2>1 DEF Climbing
<1>6. TellsBut(g, path, k) /\ EvenBut(g, path)
  BY <1>3 DEF TellsBut, EvenBut
<1>7. H(g, k) \in {h, h + 1} /\ (H(g, k) = h + 1 => Leaning(m, g, k, k))
  <2>1. CASE at.key = k
    <3>1. k # 0
      BY OpIsCall DEF MInv
    <3>2. k \in DOMAIN f
      BY <2>1, <3>1 DEF Nodal, Rooted
    <3> QED  BY <1>3, <1>4, <2>1, <3>2
  <2>2. CASE at.key = 0 /\ H(g, k) = 1 /\ KidsOf(g, k) = {}
    <3>1. h = 0
      BY <2>2 DEF H
    <3>2. Leaning(m, g, k, k)
      BY <2>2 DEF Leaning
    <3> QED  BY <2>2, <3>1, <3>2
  <2> QED  BY <2>1, <2>2
<1>8. Climbs(m, g, path, k, k, h)
  BY <1>4, <1>5, <1>6, <1>7 DEF Climbs
<1> QED  BY <1>8

LEMMA InsertSameIsSettled ==
  ASSUME MInv, NInv, InsertSame
  PROVE  NInv'
<1> DEFINE k == op.key
           m == AtNode
           node == [m.cache[k] EXCEPT !.value = op.value]
<1>1. /\ pc = "down" /\ geo' = geo /\ store' = store /\ root' = root /\ at' = at
      /\ oram' = IF AtNode.lost THEN AtNode ELSE [AtNode EXCEPT !.cache[at.key].value = op.value]
      /\ path' = path /\ op' = op /\ at.key = op.key /\ pc' = IF oram'.lost THEN "lost" ELSE "up"
  BY DEF InsertSame, Goto
<1>2. PICK f : Nodal(f)
  BY DEF NInv
<1>3. k # 0 /\ op.value \in Value /\ k \in geo.keys
  BY <1>1, OpIsCall DEF MInv, NInv, IInv, Control
<1>4. /\ Holds(m, f) /\ ~m.lost /\ k \in DOMAIN f /\ DOMAIN f \subseteq geo.keys /\ k \in DOMAIN m.cache
      /\ m.cache[k] = f[k] /\ Told(m, f) /\ StoreOK
  BY <1>1, <1>2, <1>3, AtNodeHolds, SoundHolds DEF MInv, NInv, Nodal
<1>5. Settled(f) /\ Rooted(root, f) /\ Rooted(at, f)
  BY <1>1, <1>2 DEF Nodal
<1>6. f[k] \in Nodes /\ 0 \notin DOMAIN f
  BY <1>4, NodesAre
<1>7. /\ node \in Nodes /\ node.pos = f[k].pos /\ node.height = f[k].height
      /\ node.kid = f[k].kid /\ node.kidPos = f[k].kidPos
  <2>1. f[k] \in [value : Value, pos : Leaves, height : Nat, kid : [Side -> NodeKey], kidPos : [Side -> Leaves \cup {NoPos}]]
    BY <1>6, NodeFields
  <2>2. /\ node.pos = f[k].pos /\ node.height = f[k].height
        /\ node.kid = f[k].kid /\ node.kidPos = f[k].kidPos
        /\ node \in [value : Value, pos : Leaves, height : Nat, kid : [Side -> NodeKey], kidPos : [Side -> Leaves \cup {NoPos}]]
    BY <1>3, <1>4, <2>1
  <2> HIDE DEF node
  <2> QED  BY <1>6, <2>2 DEF Nodes
<1>8. oram' = [m EXCEPT !.cache[k] = node]
  BY <1>1, <1>4
<1> HIDE DEF m, node
<1>9. PICK g : g = [f EXCEPT ![k] = node]
  OBVIOUS
<1>10. Holds(oram', g) /\ Works(m, oram', {k}) /\ DOMAIN oram'.cache = DOMAIN m.cache
  <2>1. Changed(m, oram', k, node)
    BY <1>8 DEF Changed
  <2>2. Holds(m, f) /\ k \in DOMAIN m.cache /\ node \in Nodes
    BY <1>4, <1>7
  <2>3. Holds(oram', [f EXCEPT ![k] = node]) /\ Works(m, oram', {k}) /\ DOMAIN oram'.cache = DOMAIN m.cache
    BY <2>1, <2>2, ChangeHolds
  <2> QED  BY <1>9, <2>3
<1>11. DOMAIN g = DOMAIN f /\ Covers(f, g)
  BY <1>4, <1>7, <1>9 DEF Covers
<1>12. oram'.modified = m.modified
  <2>1. m \in Record(m.cache)
    BY <1>4, GoodFields DEF Holds
  <2> QED  BY <1>8, <2>1 DEF Record
<1>13. Told(oram', g)
  <2>1. ASSUME NEW i \in DOMAIN f, NEW s \in Side, g[i].kid[s] \in m.modified
        PROVE  i \in DOMAIN m.cache
    <3>1. g[i].kid = f[i].kid
      BY <1>11 DEF Covers
    <3> QED  BY <1>4, <2>1, <3>1 DEF Told
  <2> QED  BY <1>10, <1>11, <1>12, <2>1 DEF Told
<1>14. EvenAt(g, k) /\ \A s \in Side : Tells(g, k, s)
  BY <1>4, <1>5, <1>6, <1>11, CoversKeeps
<1>15. DOMAIN g = DOMAIN f \cup {op.key} /\ op.key \in DOMAIN oram'.cache
  BY <1>4, <1>10, <1>11
<1>16. PICK h : Climbs(oram', g, path, op.key, op.key, h)
  BY <1>1, <1>2, <1>11, <1>13, <1>14, <1>15, CoversClimbs
<1>17. Sound(g)' /\ ~oram'.lost
  BY <1>1, <1>4, <1>10, <1>11, SoundNext
<1>18. Rooted(at', g)
  BY <1>1, <1>4, <1>5, <1>11 DEF Rooted, Covers
<1>19. Climbs(oram, g, path, op.key, at.key, h)' /\ Rooted(at, g)'
  BY <1>1, <1>16, <1>18 DEF Rooted
<1>20. Nodal(g)'
  BY <1>1, <1>17, <1>19 DEF Nodal
<1> QED  BY <1>1, <1>3, <1>17, <1>20 DEF NInv

LEMMA InsertNewIsSettled ==
  ASSUME MInv, NInv, InsertNew
  PROVE  NInv'
<1> DEFINE k == op.key
<1>1. /\ pc = "down" /\ geo' = geo /\ store' = store /\ root' = root
      /\ path' = path /\ op' = op /\ at.key = 0 /\ pc' = "up"
  BY DEF InsertNew
<1>2. PICK leaf \in Leaves : /\ oram' = WriteNode(oram, op.key, NewNode(op.value, leaf))
                             /\ at' = [key |-> op.key, pos |-> leaf]
  BY DEF InsertNew
<1>3. PICK node : node = NewNode(op.value, leaf)
  OBVIOUS
<1>4. PICK f : Nodal(f)
  BY DEF NInv
<1>5. k # 0 /\ k \in Key /\ op.value \in Value /\ k \in geo.keys /\ Good(oram) /\ StoreOK /\ Apart(oram)
  BY <1>1, OpIsCall, GoodWhenNotWriting DEF MInv, NInv, IInv, Control
<1>6. /\ node \in Nodes /\ node.pos = leaf /\ node.height = 1 /\ \A s \in Side : node.kid[s] = 0
  BY <1>3, <1>5 DEF NewNode, Nodes, NodeKey, Placing
<1>7. /\ Holds(oram, f) /\ Settled(f) /\ Told(oram, f) /\ DOMAIN f \subseteq geo.keys
  BY <1>1, <1>4, SoundHolds DEF MInv, NInv, Nodal, Sound
<1>8. k \notin DOMAIN f /\ DOMAIN f = Have(oram) /\ 0 \notin DOMAIN f
  BY <1>1, <1>4, <1>5, <1>7, ClimbingStart, NodesAre DEF Holds
<1>9. /\ oram'.lost = oram.lost /\ oram'.cache[k] = node /\ oram'.modified = oram.modified \cup {k}
      /\ \E o : Keeps(oram, o, {}) /\ Reads(oram, o) /\ o.lost = oram.lost /\ Puts(o, oram', k)
  BY <1>2, <1>3, <1>5, <1>6, <1>8, WriteNodePuts
<1>10. PICK o : Keeps(oram, o, {}) /\ Reads(oram, o) /\ o.lost = oram.lost /\ Puts(o, oram', k)
  BY <1>9
<1>11. ~oram'.lost /\ ~o.lost
  BY <1>9, <1>10 DEF NInv
<1>12. Holds(o, f)
  BY <1>7, <1>10, <1>11, ReadsHolds
<1>13. PICK g : g = [i \in DOMAIN f \cup {k} |-> IF i = k THEN node ELSE f[i]]
  OBVIOUS
<1>14. Updates(f, g, k, oram'.cache[k])
  BY <1>9, <1>13 DEF Updates
<1>15. Holds(oram', g)
  BY <1>10, <1>11, <1>12, <1>14, PutHolds
<1>16. DOMAIN g = DOMAIN f \cup {op.key} /\ Covers(f, g) /\ g[k] = node
  BY <1>8, <1>13 DEF Covers
<1>17. DOMAIN oram.cache \subseteq DOMAIN oram'.cache /\ k \in DOMAIN oram'.cache
  BY <1>10 DEF Reads, Puts
<1>18. Told(oram', g)
  <2>1. 0 \notin oram'.modified
    <3>1. Good(oram')
      BY <1>10 DEF Puts
    <3>2. oram'.modified \subseteq Key
      BY <3>1, GoodFields DEF Record
    <3> QED  BY <3>2, Sides
  <2>2. ASSUME NEW i \in DOMAIN f, NEW s \in Side, g[i].kid[s] \in oram'.modified
        PROVE  i \in DOMAIN oram'.cache
    <3>1. g[i].kid = f[i].kid
      BY <1>16 DEF Covers
    <3>2. f[i].kid[s] \in DOMAIN f \cup {0}
      BY <1>7 DEF Settled, Tells
    <3>3. f[i].kid[s] \in oram.modified
      BY <1>8, <1>9, <2>1, <2>2, <3>1, <3>2
    <3> QED  BY <1>7, <1>17, <3>3 DEF Told
  <2>3. \A s \in Side : g[k].kid[s] = 0
    BY <1>6, <1>16
  <2> QED  BY <1>16, <1>17, <2>1, <2>2, <2>3 DEF Told
<1>19. \A s \in Side : Tells(g, k, s)
  BY <1>6, <1>16 DEF Tells
<1>20. H(g, k) = 1 /\ KidsOf(g, k) = {} /\ EvenAt(g, k)
  <2>1. H(g, k) = 1 /\ H(g, 0) = 0
    BY <1>5, <1>6, <1>16 DEF H
  <2>2. KidsOf(g, k) = {} /\ g[k].kid["l"] = 0 /\ g[k].kid["r"] = 0
    BY <1>6, <1>16 DEF KidsOf
  <2> QED  BY <2>1, <2>2 DEF EvenAt, Even, Big
<1>21. PICK h : Climbs(oram', g, path, op.key, op.key, h)
  BY <1>1, <1>4, <1>16, <1>17, <1>18, <1>19, <1>20, CoversClimbs
<1>22. Sound(g)'
  BY <1>1, <1>5, <1>7, <1>15, <1>16, SoundNext
<1>23. at'.key = op.key /\ Rooted(at', g)
  BY <1>2, <1>6, <1>16 DEF Rooted
<1>24. Climbs(oram, g, path, op.key, at.key, h)' /\ Rooted(at, g)'
  BY <1>1, <1>21, <1>23 DEF Rooted
<1>25. Nodal(g)'
  BY <1>1, <1>22, <1>24 DEF Nodal
<1> QED  BY <1>1, <1>5, <1>11, <1>25 DEF NInv

\* On the way up the link of n to its child c on the way is set, and the height of n.
Fitted(f, e, n, s, u, c, b) ==
  /\ s \in Side /\ u \in Side /\ Side = {s, u} /\ s # u /\ Other(s) = u /\ Other(u) = s
  /\ n \in DOMAIN f /\ c \in DOMAIN f /\ DOMAIN e = DOMAIN f /\ 0 \notin DOMAIN f
  /\ \A i \in DOMAIN f \ {n} : e[i] = f[i]
  /\ \A i \in DOMAIN f : e[i].pos = f[i].pos
  /\ e[n].kid[s] = c /\ e[n].kidPos[s] = f[c].pos
  /\ e[n].kid[u] = b /\ f[n].kid[u] = b /\ e[n].kidPos[u] = f[n].kidPos[u]
  /\ H(e, n) = 1 + Big(H(f, c), H(f, b))

\* c can be linked to n: it is at pos, and n knows where its other child is.
Linkable(m, f, n, s, c, pos) ==
  n \in DOMAIN m.cache /\ s \in Side /\ c \in DOMAIN f /\ pos = f[c].pos /\ Tells(f, n, Other(s))

LEMMA FittedIs ==
  ASSUME NEW m, NEW f, Holds(m, f), StoreOK, NEW n, NEW s, NEW c, NEW pos, Linkable(m, f, n, s, c, pos)
  PROVE  LET o == SetHeight(Link(m, n, s, c, pos), n)
             j == Joined(f, n, s, c, pos)
             e == Raised(j, n)
         IN  /\ \E u, b : Fitted(f, e, n, s, u, c, b)
             /\ Holds(o, e) /\ KidsOf(e, n) \subseteq DOMAIN o.cache
             /\ Works(m, o, KidsOf(e, n) \cup {n})
<1> DEFINE l == Link(m, n, s, c, pos)
           o == SetHeight(l, n)
           j == Joined(f, n, s, c, pos)
           e == Raised(j, n)
           u == Other(s)
           b == f[n].kid[u]
<1>0. n \in DOMAIN m.cache /\ s \in Side /\ c \in DOMAIN f /\ pos = f[c].pos /\ Tells(f, n, Other(s))
  BY DEF Linkable
<1>1. /\ 0 \notin DOMAIN f /\ DOMAIN f \subseteq Key /\ (\A i \in DOMAIN f : f[i] \in Nodes /\ H(f, i) \in Nat) /\ H(f, 0) = 0
      /\ n \in DOMAIN f /\ u \in Side /\ Side = {s, u} /\ s # u /\ Other(u) = s
  BY <1>0, NodesAre, HoldsCached, Sides
<1>2. f[c] \in Nodes /\ f[n] \in Nodes /\ c \in NodeKey
  BY <1>0, <1>1 DEF NodeKey
<1>3. pos \in Leaves \cup {NoPos} /\ Placing(c, pos)
  BY <1>0, <1>2, NodeFields DEF Placing
<1>4. Holds(l, j) /\ DOMAIN l.cache = DOMAIN m.cache /\ Works(m, l, {})
  BY <1>0, <1>2, <1>3, LinkHolds
<1>5. /\ DOMAIN j = DOMAIN f /\ \A i \in DOMAIN f \ {n} : j[i] = f[i]
      /\ j[n].pos = f[n].pos /\ j[n].height = f[n].height
      /\ j[n].kid[s] = c /\ j[n].kidPos[s] = pos
      /\ j[n].kid[u] = b /\ j[n].kidPos[u] = f[n].kidPos[u]
  BY <1>0, <1>1, JoinedIs
<1> HIDE DEF j, l, u
<1>6. \A i \in DOMAIN f : j[i].pos = f[i].pos /\ j[i].height = f[i].height
  BY <1>0, <1>5
<1>7. \A r \in Side : Tells(j, n, r)
  <2>1. Tells(j, n, s)
    BY <1>0, <1>1, <1>5, <1>6 DEF Tells
  <2>2. Tells(f, n, u)
    BY <1>0 DEF u
  <2>3. Tells(j, n, u)
    BY <1>0, <1>1, <1>5, <1>6, <2>2 DEF Tells
  <2> QED  BY <1>0, <1>1, <2>1, <2>3
<1>8. Holds(o, e) /\ KidsOf(j, n) \subseteq DOMAIN o.cache /\ Works(l, o, KidsOf(j, n) \cup {n})
  BY <1>0, <1>4, <1>7, SetHeightHolds
<1>9. /\ DOMAIN e = DOMAIN j /\ \A i \in DOMAIN j \ {n} : e[i] = j[i]
      /\ e[n].pos = j[n].pos
      /\ e[n].kid = j[n].kid /\ e[n].kidPos = j[n].kidPos
      /\ e[n].height = 1 + Big(H(j, j[n].kid["l"]), H(j, j[n].kid["r"]))
  <2>1. n \in DOMAIN j /\ j[n] \in Nodes
    BY <1>0, <1>1, <1>4, <1>5, NodesAre
  <2> QED  BY <1>0, <2>1, RaisedIs
<1> HIDE DEF e, o
<1>10. KidsOf(e, n) = KidsOf(j, n)
  BY <1>0, <1>9 DEF KidsOf
<1>11. Works(m, o, KidsOf(e, n) \cup {n})
  <2>1. Works(m, o, {} \cup (KidsOf(j, n) \cup {n}))
    BY <1>0, <1>4, <1>8, WorksTwice
  <2> QED  BY <1>0, <1>10, <2>1 DEF Works
<1>12. b \in DOMAIN f \cup {0} /\ H(j, c) = H(f, c) /\ H(j, b) = H(f, b) /\ H(f, c) \in Nat /\ H(f, b) \in Nat
  <2>1. b \in DOMAIN f \cup {0}
    BY <1>0 DEF Tells, u
  <2> QED  BY <1>0, <1>1, <1>6, <2>1 DEF H
<1>13. H(e, n) = 1 + Big(H(f, c), H(f, b))
  <2>1. H(e, n) = e[n].height /\ s \in {"l", "r"} /\ u \in {"l", "r"} /\ s # u
    BY <1>0, <1>1 DEF H
  <2>2. Big(H(f, c), H(f, b)) = Big(H(f, b), H(f, c))
    BY <1>0, <1>12, BigSym
  <2>3. CASE s = "l" /\ u = "r"
    BY <1>0, <1>5, <1>9, <1>12, <2>1, <2>3
  <2>4. CASE s = "r" /\ u = "l"
    BY <1>0, <1>5, <1>9, <1>12, <2>1, <2>2, <2>4
  <2> QED  BY <1>0, <2>1, <2>3, <2>4
<1> HIDE DEF b
<1>14. Fitted(f, e, n, s, u, c, b)
  <2>1. \A i \in DOMAIN f \ {n} : e[i] = f[i]
    BY <1>0, <1>5, <1>9
  <2>2. \A i \in DOMAIN f : e[i].pos = f[i].pos
    BY <1>0, <1>5, <1>6, <1>9
  <2>3. e[n].kid[s] = c /\ e[n].kidPos[s] = f[c].pos /\ e[n].kid[u] = b /\ e[n].kidPos[u] = f[n].kidPos[u]
    BY <1>0, <1>5, <1>9
  <2>4. Other(s) = u /\ f[n].kid[u] = b /\ DOMAIN e = DOMAIN f
    BY <1>0, <1>5, <1>9 DEF u, b
  <2> QED  BY <1>0, <1>1, <1>13, <2>1, <2>2, <2>3, <2>4 DEF Fitted
<1> QED  BY <1>0, <1>8, <1>10, <1>11, <1>14 DEF e, o, j, l

\* The tree of an insert on its way up.
LEMMA UpTree ==
  ASSUME MInv, NInv, pc = "up", path # <<>>, NEW f, Nodal(f), NEW n, n = Head(path)
  PROVE  \E T, span : /\ IsTree(Stored, T, span) /\ Chain(Stored, T, span, Tail(path), op.key, n)
                      /\ T[n][SideOf(op.key, n)] = at.key
                      /\ \A i \in Stored, r \in Side : (i = n /\ r = SideOf(op.key, n)) \/ f[i].kid[r] = T[i][r]
                      /\ op.key # n /\ n \in Stored /\ Tail(path) \in Seq(Key) /\ op.key \in Key
                      /\ n \in DOMAIN oram.cache /\ Up(path, 1) = n
<1>1. PICK L, span : /\ Shows(Buckets, store, oram, root.key, pc = "up", op.key, path, L)
                     /\ IsTree(Stored, L, span)
                     /\ Where(Stored, L, span, pc, op.key, path, at.key)
  BY DEF MInv, NInv, Searching
<1>2. /\ path \in Seq(Key) /\ op.key \in Key /\ Stored \in SUBSET Key /\ 0 \notin Stored
      /\ \A i \in 1..Len(path) : path[i] \in DOMAIN oram.cache
  BY OpIsCall, StoredIsKeys, Sides DEF MInv, IInv, Control
<1>3. Chain(Stored, L, span, path, op.key, at.key)
  BY <1>1 DEF Where
<1>4. /\ Up(path, 1) = n /\ n \in Key /\ n # 0 /\ Tail(path) \in Seq(Key) /\ 1 \in Steps(path)
  BY <1>2, UpFacts, Sides
<1>5. 1 \in 1..Len(path) /\ path[1] = n
  BY <1>4 DEF Up
<1>6. n \in DOMAIN oram.cache /\ n \in Stored
  BY <1>2, <1>5 DEF Stored
<1>7. Chain(Stored, L, span, Tail(path), op.key, n)
  BY <1>2, <1>3, ChainUp
<1>8. L[n][SideOf(op.key, n)] = at.key /\ op.key # n
  BY <1>3, <1>4 DEF Chain, Below
<1>9. ASSUME NEW i \in Stored, NEW r \in Side, ~(i = n /\ r = SideOf(op.key, n))
      PROVE  f[i].kid[r] = L[i][r]
  <2>1. L[i][r] = LinkIn(Buckets, store, oram, root.key, i, r)
    BY <1>1, <1>4, <1>9 DEF Shows, HaveIn, Stored
  <2>2. NewestIn(Buckets, store, oram, i) = f[i]
    BY DEF Nodal, Sound, Newest, NewestIn
  <2> QED  BY <1>2, <2>1, <2>2 DEF LinkIn
<1> QED  BY <1>1, <1>2, <1>4, <1>6, <1>7, <1>8, <1>9

\* The tree T as it will be when c hangs at n.
Awaits(K, T, span, f, q, k, n, s, c) ==
  /\ q \in Seq(Key) /\ k \in Key /\ n \in K /\ K \in SUBSET Key
  /\ IsTree(K, T, span) /\ Chain(K, T, span, q, k, n) /\ DOMAIN f = K /\ T[n][s] = c
  /\ \A i \in K, r \in Side : (i = n /\ r = s) \/ f[i].kid[r] = T[i][r]

LEMMA FittedPoised ==
  ASSUME NEW K, NEW T, NEW span, NEW f, NEW q, NEW k, NEW n, NEW s, NEW c, Awaits(K, T, span, f, q, k, n, s, c),
         NEW e, NEW u, NEW b, Fitted(f, e, n, s, u, c, b), \A i \in DOMAIN e : e[i] \in Nodes
  PROVE  Poised(K, T, span, e, q, k, n)
<1>1. /\ Side = {s, u} /\ s # u /\ DOMAIN e = K /\ (\A i \in K \ {n} : e[i] = f[i])
      /\ e[n].kid[s] = c /\ e[n].kid[u] = b /\ f[n].kid[u] = b
  BY DEF Fitted, Awaits
<1>2. \A i \in K, r \in Side : e[i].kid[r] = T[i][r]
  BY <1>1 DEF Awaits
<1> QED  BY <1>1, <1>2 DEF Poised, Awaits

\* The way up goes one node on.
UpWay(q, p, n) == p \in Seq(Key) /\ p # <<>> /\ q = Tail(p) /\ n = Head(p)

LEMMA UpWayIs ==
  ASSUME NEW q, NEW p, NEW n, UpWay(q, p, n)
  PROVE  /\ \A j \in 1..Len(q) : j + 1 \in 1..Len(p) /\ j + 1 # 1 /\ q[j] = p[j + 1]
         /\ 1 \in 1..Len(p) /\ p[1] = n /\ On(p) = On(q) \cup {n}
         /\ \A j \in 1..Len(q) : (j + 1) - 1 = j /\ (j # 1 => j - 1 \in 1..Len(q) /\ q[j - 1] = p[j])
<1>1. Len(q) = Len(p) - 1 /\ Len(p) \in Nat \ {0} /\ p[1] = n /\ \A j \in 1..Len(q) : q[j] = p[j + 1]
  BY DEF UpWay
<1>2. \A j \in 1..Len(q) : j + 1 \in 1..Len(p) /\ j + 1 # 1 /\ q[j] = p[j + 1]
  BY <1>1
<1>3. 1 \in 1..Len(p)
  BY <1>1
<1>4. On(p) = On(q) \cup {n}
  <2>1. ASSUME NEW i \in 1..Len(p), i # 1 PROVE i - 1 \in 1..Len(q) /\ p[i] = q[i - 1]
    <3>1. i - 1 \in 1..Len(q) /\ (i - 1) + 1 = i
      BY <1>1, <2>1
    <3> QED  BY <1>1, <3>1
  <2> QED  BY <1>1, <1>2, <1>3, <2>1 DEF On
<1>5. \A j \in 1..Len(q) : (j + 1) - 1 = j /\ (j # 1 => j - 1 \in 1..Len(q) /\ q[j - 1] = p[j])
  <2> TAKE j \in 1..Len(q)
  <2>1. j # 1 => j - 1 \in 1..Len(q) /\ (j - 1) + 1 = j
    BY <1>1
  <2> QED  BY <1>1, <2>1
<1> QED  BY <1>1, <1>2, <1>3, <1>4, <1>5

\* What the link changes for the way up.
LEMMA FittedClimbing ==
  ASSUME NEW K, NEW T, NEW span, NEW e, NEW q, NEW k, NEW n, Poised(K, T, span, e, q, k, n),
         NEW f, NEW s, NEW u, NEW c, NEW b, Fitted(f, e, n, s, u, c, b), s = SideOf(k, n),
         NEW p, UpWay(q, p, n), NEW h, Climbing(f, p, k, h), b # n
  PROVE  /\ Climbing(e, q, k, 1 + Big(h, H(e, b)))
         /\ Even(H(f, n), h, H(f, b)) /\ H(e, b) = H(f, b)
<1>1. /\ DOMAIN e = K /\ DOMAIN f = K /\ 0 \notin K /\ n \in K /\ (\A i \in K \ {n} : e[i] = f[i])
      /\ f[n].kid[u] = b /\ Other(s) = u /\ b \in K \cup {0} /\ n \in span[n]
      /\ e[n].kid[u] = b /\ u \in Side
  BY PoisedIn DEF Fitted, Poised
<1>2. \A i \in K \cup {0} : i # n => H(e, i) = H(f, i)
  BY <1>1 DEF H
<1>3. Even(H(f, n), h, H(f, b))
  BY <1>1, UpWayIs DEF Climbing
<1>4. H(e, b) = H(f, b)
  BY <1>1, <1>2
<1>5. H(f, n) = 1 + Big(h, H(e, b))
  BY <1>3, <1>4 DEF Even
<1> DEFINE x == 1 + Big(h, H(e, b))
<1>6. ASSUME NEW j \in 1..Len(q)
      PROVE  Even(H(e, q[j]), IF j = 1 THEN x ELSE H(e, q[j - 1]), H(e, e[q[j]].kid[Other(SideOf(k, q[j]))]))
  <2> DEFINE a == e[q[j]].kid[Other(SideOf(k, q[j]))]
  <2>1. Even(H(f, p[j + 1]), H(f, p[(j + 1) - 1]), H(f, f[p[j + 1]].kid[Other(SideOf(k, p[j + 1]))]))
    BY UpWayIs DEF Climbing
  <2>2. q[j] \in K /\ q[j] # n
    BY <1>1, PoisedWay
  <2>3. Other(SideOf(k, q[j])) \in Side /\ Other(SideOf(k, q[j])) # SideOf(k, q[j])
    BY Sides
  <2>4. a \in K \cup {0} /\ a # n
    <3>1. a # n
      BY <2>3, PoisedWay
    <3> QED  BY <2>2, <2>3, <3>1, PoisedIn
  <2>5. e[q[j]] = f[q[j]] /\ q[j] = p[j + 1] /\ (j + 1) - 1 = j
    BY <1>1, <2>2, UpWayIs
  <2>6. H(f, p[j]) = IF j = 1 THEN x ELSE H(e, q[j - 1])
    <3>1. CASE j = 1
      BY <1>5, <3>1, UpWayIs
    <3>2. CASE j # 1
      <4>1. j - 1 \in 1..Len(q) /\ q[j - 1] = p[j]
        BY <3>2, UpWayIs
      <4>2. q[j - 1] \in K /\ q[j - 1] # n
        BY <1>1, <4>1, PoisedWay
      <4> QED  BY <1>2, <3>2, <4>1, <4>2
    <3> QED  BY <3>1, <3>2
  <2>7. H(e, q[j]) = H(f, q[j]) /\ H(e, a) = H(f, a)
    BY <1>2, <2>2, <2>4
  <2> QED  BY <2>1, <2>5, <2>6, <2>7
<1>7. Climbing(e, q, k, x)
  BY <1>6 DEF Climbing
<1> QED  BY <1>3, <1>4, <1>7

LEMMA FittedLeaning ==
  ASSUME NEW K, NEW T, NEW span, NEW e, NEW q, NEW k, NEW n, Poised(K, T, span, e, q, k, n),
         NEW f, NEW s, NEW u, NEW c, NEW b, Fitted(f, e, n, s, u, c, b),
         NEW m, NEW o, DOMAIN m.cache \subseteq DOMAIN o.cache, Leaning(m, f, k, c)
  PROVE  Leaning(o, e, k, c) /\ H(e, c) = H(f, c) /\ c # n /\ b # n
<1>1. /\ DOMAIN e = K /\ DOMAIN f = K /\ 0 \notin K /\ n \in K /\ (\A i \in K \ {n} : e[i] = f[i])
      /\ e[n].kid[s] = c /\ e[n].kid[u] = b /\ s \in Side /\ u \in Side /\ c \in K
  BY PoisedIn DEF Fitted, Poised
<1>2. c # n /\ c # 0 /\ n \notin span[c] /\ c \in span[n]
  BY <1>1, PoisedKids
<1>3. b # n
  <2>1. b # 0 => b # n
    BY <1>1, PoisedKids
  <2> QED  BY <1>1, <2>1
<1>4. \A i \in K \cup {0} : i # n => H(e, i) = H(f, i)
  BY <1>1 DEF H
<1>5. ASSUME NEW r \in Side PROVE e[c].kid[r] \in K \cup {0} /\ e[c].kid[r] # n
  <2>1. e[c].kid[r] \in K \cup {0}
    BY <1>1, PoisedIn
  <2>2. e[c].kid[r] # 0 => span[e[c].kid[r]] \subseteq span[c] /\ e[c].kid[r] \in span[c]
    BY <1>1, PoisedKids
  <2> QED  BY <1>1, <1>2, <2>1, <2>2
<1>6. e[c] = f[c] /\ KidsOf(e, c) = KidsOf(f, c)
  BY <1>1, <1>2 DEF KidsOf
<1>7. SideOf(k, c) \in Side /\ Other(SideOf(k, c)) \in Side
  BY Sides
<1> DEFINE x == e[c].kid[SideOf(k, c)]
<1>8. x # 0 => e[x] = f[x] /\ KidsOf(e, x) = KidsOf(f, x)
  BY <1>1, <1>5, <1>7 DEF KidsOf
<1>9. H(e, c) = H(f, c) /\ H(e, x) = H(f, x) /\ H(e, e[c].kid[Other(SideOf(k, c))]) = H(f, e[c].kid[Other(SideOf(k, c))])
  BY <1>1, <1>2, <1>4, <1>5, <1>7
<1> HIDE DEF x
<1>10. c \in DOMAIN o.cache /\ KidsOf(e, c) \subseteq DOMAIN o.cache
  BY <1>6 DEF Leaning
<1>11. ASSUME c = k /\ H(f, c) = 1
       PROVE  Leaning(o, e, k, c)
  BY <1>9, <1>10, <1>11 DEF Leaning
<1>12. ASSUME LET r == SideOf(k, c)
              IN  /\ c # k /\ f[c].kid[r] # 0 /\ H(f, f[c].kid[r]) > H(f, f[c].kid[Other(r)])
                  /\ KidsOf(f, f[c].kid[r]) \subseteq DOMAIN m.cache
       PROVE  Leaning(o, e, k, c)
  <2>1. f[c].kid[SideOf(k, c)] = x
    BY <1>6 DEF x
  <2>2. KidsOf(e, x) \subseteq DOMAIN o.cache /\ H(e, x) > H(e, e[c].kid[Other(SideOf(k, c))]) /\ x # 0 /\ c # k
    BY <1>6, <1>8, <1>9, <1>12, <2>1
  <2>3. e[c].kid[SideOf(k, c)] = x
    BY <1>6, <2>1
  <2> QED  BY <1>10, <2>2, <2>3 DEF Leaning
<1>13. Leaning(o, e, k, c)
  BY <1>11, <1>12 DEF Leaning
<1> QED  BY <1>2, <1>3, <1>9, <1>13

\* The nodes off the way are even, and know where their children are.
LEMMA FittedEven ==
  ASSUME NEW K, NEW T, NEW span, NEW e, NEW q, NEW k, NEW n, Poised(K, T, span, e, q, k, n),
         NEW f, NEW s, NEW u, NEW c, NEW b, Fitted(f, e, n, s, u, c, b), s = SideOf(k, n),
         NEW p, UpWay(q, p, n), Up(p, 1) = n, EvenBut(f, p), TellsBut(f, p, k)
  PROVE  /\ \A i \in DOMAIN e : i \in On(q) \/ i = n \/ EvenAt(e, i)
         /\ \A i \in DOMAIN e, r \in Side : Tells(e, i, r)
<1>1. /\ DOMAIN e = K /\ DOMAIN f = K /\ 0 \notin K /\ n \in K /\ (\A i \in K \ {n} : e[i] = f[i])
      /\ (\A i \in K : e[i].pos = f[i].pos) /\ Side = {s, u} /\ s # u
      /\ e[n].kid[s] = c /\ e[n].kidPos[s] = f[c].pos
      /\ e[n].kid[u] = b /\ f[n].kid[u] = b /\ e[n].kidPos[u] = f[n].kidPos[u] /\ c \in K
  BY PoisedIn DEF Fitted, Poised
<1>2. ASSUME NEW i \in K, i \notin On(q), i # n PROVE EvenAt(e, i)
  <2>1. EvenAt(f, i)
    BY <1>1, <1>2, UpWayIs DEF EvenBut
  <2>2. ASSUME NEW r \in Side PROVE f[i].kid[r] = 0 \/ e[f[i].kid[r]].height = f[f[i].kid[r]].height
    <3>1. e[i].kid[r] # n
      <4>1. SUFFICES ASSUME e[i].kid[r] = n PROVE FALSE
        OBVIOUS
      <4>2. i = Up(q, 1)
        BY <4>1, PoisedWay
      <4> QED  BY <1>1, <1>2, <4>2 DEF Up, On
    <3>2. e[i].kid[r] \in K \cup {0}
      BY PoisedIn
    <3> QED  BY <1>1, <1>2, <3>1, <3>2
  <2>3. e[i] = f[i] /\ i # 0
    BY <1>1, <1>2
  <2> QED  BY <2>1, <2>2, <2>3, EvenKept
<1>3. ASSUME NEW i \in K, NEW r \in Side PROVE Tells(e, i, r)
  <2>1. CASE i = n /\ r = s
    BY <1>1, <2>1 DEF Tells
  <2>2. CASE i = n /\ r = u
    <3>1. Tells(f, n, u)
      BY <1>1 DEF TellsBut
    <3> QED  BY <1>1, <2>2, <3>1 DEF Tells
  <2>3. CASE i # n
    <3>1. Tells(f, i, r)
      BY <1>1, <2>3 DEF TellsBut
    <3> QED  BY <1>1, <2>3, <3>1 DEF Tells
  <2> QED  BY <1>1, <2>1, <2>2, <2>3
<1> QED  BY <1>1, <1>2, <1>3

LEMMA FittedTold ==
  ASSUME NEW K, NEW T, NEW span, NEW e, NEW q, NEW k, NEW n, Poised(K, T, span, e, q, k, n),
         NEW f, NEW s, NEW u, NEW c, NEW b, Fitted(f, e, n, s, u, c, b),
         NEW m, Told(m, f), NEW o, Works(m, o, KidsOf(e, n) \cup {n}),
         On(q) \subseteq DOMAIN m.cache, n \in DOMAIN m.cache
  PROVE  Told(o, e)
<1>1. /\ DOMAIN e = K /\ DOMAIN f = K /\ 0 \notin K /\ n \in K /\ (\A i \in K \ {n} : e[i] = f[i])
  BY PoisedIn DEF Fitted, Poised
<1>2. SUFFICES ASSUME NEW i \in K, NEW r \in Side, e[i].kid[r] \in o.modified, i # n
               PROVE  i \in DOMAIN o.cache
  BY <1>1 DEF Told, Works
<1>3. CASE e[i].kid[r] \in m.modified
  BY <1>1, <1>2, <1>3 DEF Told, Works
<1>4. CASE e[i].kid[r] \in KidsOf(e, n)
  <2>1. PICK t \in Side : e[i].kid[r] = e[n].kid[t] /\ e[i].kid[r] # 0
    BY <1>4 DEF KidsOf
  <2>2. i = n
    BY <1>1, <2>1, PoisedKids
  <2> QED  BY <1>2, <2>2
<1>5. CASE e[i].kid[r] = n
  <2>1. i = Up(q, 1)
    BY <1>5, PoisedWay
  <2>2. i \in On(q)
    BY <1>1, <2>1 DEF Up, On
  <2> QED  BY <2>2 DEF Works
<1> QED  BY <1>2, <1>3, <1>4, <1>5 DEF Works

LEMMA UpLifted ==
  ASSUME NEW K, NEW T, NEW span, NEW e, NEW q, NEW k, NEW n, Poised(K, T, span, e, q, k, n),
         NEW f, NEW s, NEW u, NEW c, NEW b, Fitted(f, e, n, s, u, c, b), s = SideOf(k, n), k # n,
         NEW p, UpWay(q, p, n), Up(p, 1) = n, NEW m, NEW h, Climbs(m, f, p, k, c, h),
         NEW o, Holds(o, e), Works(m, o, KidsOf(e, n) \cup {n}), KidsOf(e, n) \subseteq DOMAIN o.cache,
         On(p) \subseteq DOMAIN m.cache, \A i \in DOMAIN f : H(f, i) \in Nat
  PROVE  Lifted(o, e, q, k, n, h)
<1>1. /\ h \in Nat /\ TellsBut(f, p, k) /\ EvenBut(f, p) /\ Told(m, f) /\ Climbing(f, p, k, h)
      /\ H(f, c) \in {h, h + 1} /\ (H(f, c) = h + 1 => Leaning(m, f, k, c))
  BY DEF Climbs
<1>2. /\ DOMAIN e = K /\ 0 \notin K /\ n \in K /\ s \in Side /\ u \in Side /\ c \in K
      /\ e[n].kid[s] = c /\ e[n].kid[u] = b /\ Other(s) = u /\ H(e, n) = 1 + Big(H(f, c), H(f, b))
  BY PoisedIn DEF Fitted, Poised
<1>3. On(q) \subseteq DOMAIN m.cache /\ n \in DOMAIN m.cache /\ DOMAIN m.cache \subseteq DOMAIN o.cache
  BY UpWayIs DEF Works
<1>4. /\ \A i \in DOMAIN e : i \in On(q) \/ i = n \/ EvenAt(e, i)
      /\ \A i \in DOMAIN e, r \in Side : Tells(e, i, r)
  BY <1>1, FittedEven
<1>5. Told(o, e)
  BY <1>1, <1>3, FittedTold
<1>6. c # n /\ b # n /\ c # 0
  <2>1. c # 0 /\ c # n
    BY <1>2, PoisedKids
  <2>2. b # 0 => b # n
    BY <1>2, PoisedKids
  <2> QED  BY <1>2, <2>1, <2>2
<1>7. H(e, c) = H(f, c)
  BY <1>2, <1>6 DEF H, Fitted
<1>8. /\ Climbing(e, q, k, 1 + Big(h, H(e, b))) /\ Even(H(f, n), h, H(f, b)) /\ H(e, b) = H(f, b)
  BY <1>1, <1>6, FittedClimbing
<1>9. H(e, c) = h + 1 => Leaning(o, e, k, c)
  BY <1>1, <1>3, <1>7, FittedLeaning
<1>10. h - H(e, b) \in -1..1
  BY <1>8 DEF Even
<1>11. Family(e, n) \subseteq DOMAIN o.cache
  BY <1>3 DEF Family
<1> QED  BY Zenon, <1>1, <1>2, <1>3, <1>4, <1>5, <1>6, <1>7, <1>8, <1>9, <1>10, <1>11 DEF Lifted

\* The insert goes up one node: what it has to show there.
LEMMA UpStands ==
  ASSUME MInv, NInv, pc = "up", path # <<>>, NEW f, Nodal(f), NEW n, n = Head(path),
         NEW h, Climbs(oram, f, path, op.key, at.key, h),
         NEW m, m = SetHeight(Link(oram, n, SideOf(op.key, n), at.key, at.pos), n)
  PROVE  \E T, span, e : Poised(Stored, T, span, e, Tail(path), op.key, n) /\ Lifted(m, e, Tail(path), op.key, n, h)
<1> DEFINE q == Tail(path)
           k == op.key
           e == Raised(Joined(f, n, SideOf(k, n), at.key, at.pos), n)
<1>1. PICK s : s = SideOf(k, n)
  OBVIOUS
<1>2. PICK c : c = at.key
  OBVIOUS
<1>3. PICK T, span : /\ IsTree(Stored, T, span) /\ Chain(Stored, T, span, q, k, n)
                     /\ T[n][SideOf(k, n)] = at.key
                     /\ \A i \in Stored, r \in Side : (i = n /\ r = SideOf(k, n)) \/ f[i].kid[r] = T[i][r]
                     /\ k # n /\ n \in Stored /\ q \in Seq(Key) /\ k \in Key
                     /\ n \in DOMAIN oram.cache /\ Up(path, 1) = n
  BY UpTree
<1>4. /\ Holds(oram, f) /\ StoreOK /\ DOMAIN f = Stored /\ Stored \in SUBSET Key
  BY SoundHolds, StoredIsKeys DEF MInv, NInv, Nodal, Sound
<1>5. /\ 0 \notin DOMAIN f /\ (\A i \in DOMAIN f : H(f, i) \in Nat) /\ n \in DOMAIN f
      /\ DOMAIN oram.cache \subseteq DOMAIN f
  BY <1>3, <1>4, NodesAre, HoldsCached
<1>6. c \in DOMAIN f /\ c # 0 /\ at.pos = f[c].pos
  <2>1. c \in DOMAIN oram.cache
    BY <1>2 DEF Climbs
  <2> QED  BY <1>2, <1>5, <2>1 DEF Nodal, Rooted
<1>7. s \in Side /\ Other(s) \in Side /\ Other(s) # s
  BY <1>1, Sides
<1>8. Tells(f, n, Other(s))
  BY <1>1, <1>3, <1>5, <1>7 DEF Climbs, TellsBut
<1>9. /\ \E u, b : Fitted(f, e, n, s, u, c, b)
      /\ Holds(m, e) /\ KidsOf(e, n) \subseteq DOMAIN m.cache
      /\ Works(oram, m, KidsOf(e, n) \cup {n})
  <2>1. PICK pos : pos = at.pos
    OBVIOUS
  <2>2. n \in DOMAIN oram.cache /\ pos = f[c].pos
    BY <1>3, <1>6, <2>1
  <2>3. PICK o : o = SetHeight(Link(oram, n, s, c, pos), n)
    OBVIOUS
  <2>4. PICK d : d = Raised(Joined(f, n, s, c, pos), n)
    OBVIOUS
  <2>5. /\ \E u, b : Fitted(f, d, n, s, u, c, b)
        /\ Holds(o, d) /\ KidsOf(d, n) \subseteq DOMAIN o.cache
        /\ Works(oram, o, KidsOf(d, n) \cup {n})
    <3>1. Holds(oram, f) /\ StoreOK /\ Linkable(oram, f, n, s, c, pos)
      BY <1>4, <1>6, <1>7, <1>8, <2>2 DEF Linkable
    <3> QED  BY ONLY <3>1, <2>3, <2>4, FittedIs
  <2>6. m = o /\ e = d
    BY <1>1, <1>2, <2>1, <2>3, <2>4
  <2> QED  BY <2>5, <2>6
<1>10. PICK u, b : Fitted(f, e, n, s, u, c, b)
  BY <1>9
<1>11. \A i \in DOMAIN e : e[i] \in Nodes
  BY <1>4, <1>9, NodesAre
<1> HIDE DEF e, q
<1>12. Poised(Stored, T, span, e, q, k, n)
  <2>1. Awaits(Stored, T, span, f, q, k, n, s, c)
    BY <1>1, <1>2, <1>3, <1>4 DEF Awaits
  <2> HIDE DEF k
  <2> QED  BY ONLY <1>10, <1>11, <2>1, FittedPoised
<1>13. UpWay(q, path, n)
  BY DEF q, UpWay, MInv, IInv, Control
<1>14. On(path) \subseteq DOMAIN oram.cache
  BY DEF On, MInv, IInv, Control
<1>15. Climbs(oram, f, path, k, c, h)
  BY <1>2
<1>16. Lifted(m, e, q, k, n, h)
  BY <1>1, <1>3, <1>5, <1>9, <1>10, <1>12, <1>13, <1>14, <1>15, UpLifted
<1> QED  BY <1>12, <1>16 DEF q

LEMMA InsertUpIsSettled ==
  ASSUME MInv, NInv, InsertUp
  PROVE  NInv'
<1> DEFINE k == op.key
<1>1. PICK n : n = Head(path)
  OBVIOUS
<1>2. PICK m : m = SetHeight(Link(oram, n, SideOf(k, n), at.key, at.pos), n)
  OBVIOUS
<1>3. PICK up : up = IF m.lost THEN Result(m, n) ELSE Rebalance(m, n, k)
  OBVIOUS
<1>4. /\ pc = "up" /\ path # <<>> /\ oram' = up.m
      /\ at' = (IF up.m.lost THEN at ELSE [key |-> up.top, pos |-> up.m.cache[up.top].pos])
      /\ path' = Tail(path) /\ pc' = (IF oram'.lost THEN "broken" ELSE "up")
      /\ geo' = geo /\ store' = store /\ root' = root /\ op' = op
  BY <1>1, <1>2, <1>3 DEF InsertUp
<1>5. PICK f : Nodal(f)
  BY DEF NInv
<1>6. PICK h : Climbs(oram, f, path, k, at.key, h)
  BY <1>4, <1>5 DEF Nodal
<1>7. PICK T, span, e : Poised(Stored, T, span, e, Tail(path), k, n) /\ Lifted(m, e, Tail(path), k, n, h)
  BY <1>1, <1>2, <1>4, <1>5, <1>6, UpStands
<1>8. ~m.lost
  BY <1>7 DEF Lifted, Holds
<1>9. StoreOK /\ k \in geo.keys /\ Stored \subseteq geo.keys
  BY <1>4, <1>5, SoundHolds DEF MInv, NInv, Nodal, Sound
<1>10. ~up.m.lost /\ \E g, j : Climbed(up.m, g, Tail(path), k, up.top, j)
  BY <1>3, <1>7, <1>8, <1>9, RebalanceClimbs
<1>11. PICK g, j : Climbed(up.m, g, Tail(path), k, up.top, j)
  BY <1>10
<1>12. Holds(oram', g) /\ Climbs(oram', g, path', k, up.top, j)
  BY <1>4, <1>11 DEF Climbed
<1>13. Stored' = Stored
  <2>1. IInv /\ Apart(oram) /\ Listed(oram) /\ Searching
    BY DEF MInv
  <2>2. PICK o, C, D : Keeps(oram, o, C) /\ Keeps(o, oram', D)
    BY <2>1, UpKeeps
  <2> QED  BY <1>4, <2>1, <2>2, MovedTwice
<1>14. DOMAIN g = Stored
  <2>1. Stored' = HaveIn(Buckets, store', oram')
    BY <1>4, NewestNext
  <2>2. DOMAIN g = HaveIn(Buckets, store, oram')
    BY <1>12 DEF Holds, Have
  <2> QED  BY <1>4, <1>13, <2>1, <2>2
<1>15. Sound(g)' /\ ~oram'.lost
  BY <1>4, <1>9, <1>12, <1>14, SoundNext
<1>16. at'.key = up.top /\ Rooted(at', g)
  <2>1. at' = [key |-> up.top, pos |-> up.m.cache[up.top].pos]
    BY <1>4, <1>10
  <2>2. up.top \in DOMAIN oram'.cache
    BY <1>12 DEF Climbs
  <2>3. up.top \in DOMAIN g /\ up.m.cache[up.top] = g[up.top]
    BY <1>4, <1>12, <2>2, HoldsCached
  <2> QED  BY <2>1, <2>3 DEF Rooted
<1>17. Climbs(oram, g, path, op.key, at.key, j)' /\ Rooted(at, g)'
  BY <1>4, <1>12, <1>16 DEF Rooted
<1>18. Nodal(g)'
  BY <1>4, <1>15, <1>17 DEF Nodal
<1> QED  BY <1>4, <1>9, <1>15, <1>18 DEF NInv

LEMMA NewestIsNode ==
  ASSUME MInv, NEW k \in Stored
  PROVE  Newest(k) \in Nodes
<1>1. /\ StoreOK /\ Unshared(Buckets, store, oram) /\ Covered(Buckets, store, oram)
      /\ \A j \in DOMAIN oram.cache : oram.cache[j] \in Nodes
  <2>1. oram.writeview \subseteq Buckets
    BY DEF MInv, IInv, Memory, IsORAM
  <2> QED  BY <2>1 DEF MInv, Apart, IInv, Memory, Kept, Covered, IsORAM, Blocks
<1>2. Newest(k) = NewestIn(Buckets, store, oram, k) /\ k \in HaveIn(Buckets, store, oram)
  BY DEF Newest, NewestIn, Stored, HaveIn
<1>3. CASE k \in DOMAIN oram.cache
  BY <1>1, <1>2, <1>3, NewestIs
<1>4. CASE \E b \in Buckets : IsLive(oram, b) /\ k \in DOMAIN store[b]
  <2>1. PICK b \in Buckets : IsLive(oram, b) /\ k \in DOMAIN store[b]
    BY <1>4
  <2>2. Newest(k) = store[b][k]
    BY <1>1, <1>2, <2>1, NewestIs
  <2> QED  BY <1>1, <2>1, <2>2 DEF StoreOK, Blocks
<1> QED  BY <1>1, <1>2, <1>3, <1>4, NewestIs

\* The newest copies stay what they are, and are found.
LEMMA SoundStays ==
  ASSUME geo' = geo, HaveIn(Buckets, store', oram') = Stored,
         \A k \in Stored : NewestIn(Buckets, store', oram', k) = Newest(k),
         NEW f, Sound(f), \A k \in DOMAIN f : FoundIn(store', oram', k, f[k].pos)
  PROVE  Sound(f)'
<1>1. /\ Stored' = Stored /\ \A k \in Stored : Newest(k)' = Newest(k)
  BY NewestNext
<1>2. \A leaf : Path(leaf)' = Path(leaf)
  BY GeoKept
<1>3. \A k \in DOMAIN f : FoundIn(store, oram, k, f[k].pos)'
  BY <1>2 DEF FoundIn, IsLive
<1> QED  BY <1>1, <1>3 DEF Sound

LEMMA WriteIsSettled ==
  ASSUME MInv, NInv, Write
  PROVE  NInv'
<1>1. pc = "write" /\ pc' = pc /\ geo' = geo /\ root' = root
  BY DEF Write
<1>2. PICK f : Nodal(f)
  BY DEF NInv
<1>3. /\ HaveIn(Buckets, store', oram') = Stored
      /\ \A k \in Stored : NewestIn(Buckets, store', oram', k) = Newest(k)
      /\ oram'.lost = oram.lost
  BY WriteMoves
<1>4. PICK b \in Buckets : \E S \in Chosen(b) :
        /\ DOMAIN oram'.cache = DOMAIN oram.cache \ S
        /\ DOMAIN store'[b] = S /\ \A c \in Buckets \ {b} : store'[c] = store[c]
        /\ \A c \in Buckets : IsLive(oram', c) <=> IsLive(oram, c) \/ c = b
        /\ ~IsLive(oram, b)
  BY WriteMoves
<1>a. PICK S \in Chosen(b) :
        /\ DOMAIN oram'.cache = DOMAIN oram.cache \ S
        /\ DOMAIN store'[b] = S /\ \A c \in Buckets \ {b} : store'[c] = store[c]
        /\ \A c \in Buckets : IsLive(oram', c) <=> IsLive(oram, c) \/ c = b
        /\ ~IsLive(oram, b)
  BY <1>4
<1>5. /\ Sound(f) /\ Settled(f) /\ Rooted(root, f)
      /\ DOMAIN f = Stored /\ \A k \in DOMAIN f : Newest(k) = f[k] /\ FoundIn(store, oram, k, f[k].pos)
  BY <1>1, <1>2 DEF Nodal, Sound
<1>6. \A k \in DOMAIN f : FoundIn(store', oram', k, f[k].pos)
  <2> TAKE k \in DOMAIN f
  <2>1. CASE k \in DOMAIN oram.cache /\ k \notin S
    BY <1>a, <2>1 DEF FoundIn
  <2>2. CASE k \in S
    <3>1. k \in DOMAIN oram.cache /\ b \in Path(oram.cache[k].pos)
      BY <2>2 DEF Chosen, Intersecting
    <3>2. oram.cache[k] = f[k]
      BY <1>5, <3>1 DEF Newest
    <3> QED  BY <1>a, <2>2, <3>1, <3>2 DEF FoundIn
  <2>3. CASE k \notin DOMAIN oram.cache
    <3>1. PICK c \in Path(f[k].pos) : IsLive(oram, c) /\ k \in DOMAIN store[c]
      BY <1>5, <2>3 DEF FoundIn
    <3>2. c \in Buckets
      <4>1. f[k].pos \in Leaves
        <5>1. Newest(k) \in Nodes
          BY <1>5, NewestIsNode
        <5> QED  BY <1>5, <5>1, NodeFields
      <4> QED  BY <3>1, <4>1, PathIsBuckets
    <3>3. c # b
      BY <1>a, <3>1
    <3> QED  BY <1>a, <3>1, <3>2, <3>3 DEF FoundIn
  <2> QED  BY <2>1, <2>2, <2>3
<1>7. Sound(f)'
  BY <1>1, <1>3, <1>5, <1>6, SoundStays
<1>8. Settled(f)' /\ Rooted(root, f)'
  BY <1>1, <1>5 DEF Settled, Rooted
<1>9. Nodal(f)'
  BY <1>1, <1>7, <1>8 DEF Nodal
<1> QED  BY <1>1, <1>3, <1>9 DEF NInv

LEMMA ReturnIsSettled ==
  ASSUME MInv, NInv, Return
  PROVE  NInv'
<1>1. pc = "write" /\ pc' = "idle" /\ geo' = geo /\ root' = root /\ store' = store
  BY DEF Return
<1>2. PICK f : Nodal(f)
  BY DEF NInv
<1>3. /\ HaveIn(Buckets, store', oram') = Stored
      /\ \A k \in Stored : NewestIn(Buckets, store', oram', k) = Newest(k)
      /\ oram'.cache = oram.cache /\ ~oram'.lost /\ oram'.modified = {}
      /\ \A b \in Buckets : IsLive(oram, b) /\ IsLive(oram', b)
  BY ReturnMoves
<1>4. /\ Sound(f) /\ Settled(f) /\ Rooted(root, f)
      /\ \A k \in DOMAIN f : FoundIn(store, oram, k, f[k].pos)
  BY <1>1, <1>2 DEF Nodal, Sound
<1>5. oram'.readview = {}
  BY ReturnMoves
<1>6. \A k \in DOMAIN f : FoundIn(store', oram', k, f[k].pos)
  BY <1>1, <1>3, <1>4, <1>5 DEF FoundIn, IsLive
<1>7. Sound(f)'
  BY <1>1, <1>3, <1>4, <1>6, SoundStays
<1>8. Settled(f)' /\ Rooted(root, f)' /\ Told(oram, f)'
  BY <1>1, <1>3, <1>4 DEF Settled, Rooted, Told
<1>9. Nodal(f)'
  BY <1>1, <1>3, <1>5, <1>7, <1>8 DEF Nodal
<1> QED  BY <1>1, <1>3, <1>9 DEF NInv

LEMMA StutterIsSettled ==
  ASSUME NInv, UNCHANGED vars
  PROVE  NInv'
<1>1. /\ geo' = geo /\ store' = store /\ oram' = oram /\ root' = root /\ pc' = pc /\ op' = op
      /\ at' = at /\ path' = path
  BY DEF vars
<1>2. PICK f : Nodal(f)
  BY DEF NInv
<1>3. Sound(f)'
  BY <1>1, <1>2, SoundKept DEF Nodal
<1>4. /\ Settled(f)' <=> Settled(f)
      /\ Rooted(root, f)' <=> Rooted(root, f)
      /\ Rooted(at, f)' <=> Rooted(at, f)
      /\ Told(oram, f)' <=> Told(oram, f)
      /\ Followed(oram, f, root.key, at.key)' <=> Followed(oram, f, root.key, at.key)
  BY <1>1 DEF Settled, Rooted, Told, Followed
<1>5. \A h : Climbs(oram, f, path, op.key, at.key, h) => Climbs(oram, f, path, op.key, at.key, h)'
  BY <1>1
<1>6. Nodal(f)'
  BY <1>1, <1>2, <1>3, <1>4, <1>5 DEF Nodal
<1> QED  BY <1>1, <1>6 DEF NInv

LEMMA InitIsSettled ==
  ASSUME Init
  PROVE  NInv
<1>1. /\ store = [b \in Buckets |-> <<>>] /\ oram = NewORAM /\ root = NoNode
      /\ pc = "idle"
  BY DEF Init
<1>2. Stored = {}
  BY <1>1 DEF Stored, NewORAM
<1>3. PICK f : f = [k \in {} |-> 0]
  OBVIOUS
<1>4. Sound(f) /\ Settled(f) /\ Rooted(root, f) /\ Told(oram, f) /\ oram.modified = {} /\ oram.readview = {} /\ ~oram.lost
  BY <1>1, <1>2, <1>3 DEF Sound, Settled, Rooted, Told, NewORAM, NoNode
<1>5. Nodal(f)
  BY <1>1, <1>4 DEF Nodal
<1> QED  BY <1>1, <1>4, <1>5 DEF NInv

-----------------------------------------------------------------------------
(* The heights stay within the bound: the fewest nodes of an even tree.      *)

\* Induction on the natural numbers, for a set of them: of the intervals that end
\* at a number outside of it one is minimal.
LEMMA Counting ==
  ASSUME NEW S \in SUBSET Nat, 0 \in S, \A n \in S : n + 1 \in S
  PROVE  S = Nat
<1> DEFINE Uncounted == {1..n : n \in Nat \ S}
<1> SUFFICES ASSUME NEW x \in Nat \ S PROVE FALSE
  OBVIOUS
<1>1. Uncounted \subseteq FiniteSubsetsOf(Nat) /\ Uncounted # {}
  <2>1. \A n \in Nat : 1..n \in SUBSET Nat /\ IsFiniteSet(1..n)
    BY FS_Interval
  <2> QED  BY <2>1 DEF FiniteSubsetsOf
<1>2. PICK e \in Uncounted : \A y \in Uncounted : ~(<<y, e>> \in StrictSubsetOrdering(Nat))
  <2>1. IsWellFoundedOn(StrictSubsetOrdering(Nat), FiniteSubsetsOf(Nat))
    BY FS_StrictSubsetOrderingWellFounded
  <2> HIDE DEF Uncounted
  <2> QED  BY <1>1, <2>1, WFMin
<1>3. PICK m \in Nat \ S : e = 1..m
  BY <1>2
<1>4. m # 0 /\ m - 1 \in Nat \ S
  BY <1>3
<1>5. 1..(m - 1) \in Uncounted
  BY <1>4
<1>6. 1..(m - 1) \subseteq 1..m /\ m \in 1..m /\ m \notin 1..(m - 1) /\ 1..m \in SUBSET Nat /\ 1..(m - 1) \in SUBSET Nat
  BY <1>3, <1>4
<1>7. <<1..(m - 1), 1..m>> \in StrictSubsetOrdering(Nat)
  BY <1>6 DEF StrictSubsetOrdering
<1> QED  BY <1>2, <1>3, <1>5, <1>7

\* The functions that start like MinKeys.
Starts(m, g) == g \in [0..m -> Nat] /\ \A h \in 0..m : g[h] = IF h < 2 THEN h ELSE 1 + g[h - 1] + g[h - 2]

LEMMA StartsAgree ==
  ASSUME NEW m \in Nat, NEW n \in Nat, NEW g, NEW j, Starts(m, g), Starts(n, j)
  PROVE  \A h \in Nat : h <= m /\ h <= n => g[h] = j[h]
<1> DEFINE S == {x \in Nat : \A h \in 0..x : h <= m /\ h <= n => g[h] = j[h]}
<1>1. 0 \in S
  BY DEF Starts
<1>2. ASSUME NEW x \in S PROVE x + 1 \in S
  <2>1. ASSUME NEW h \in 0..(x + 1), h <= m, h <= n PROVE g[h] = j[h]
    <3>1. CASE h < 2
      BY <2>1, <3>1 DEF Starts
    <3>2. CASE ~(h < 2)
      <4>1. h - 1 \in 0..x /\ h - 2 \in 0..x /\ h - 1 <= m /\ h - 1 <= n /\ h - 2 <= m /\ h - 2 <= n /\ h \in 0..m /\ h \in 0..n
        BY <2>1, <3>2
      <4>2. g[h - 1] = j[h - 1] /\ g[h - 2] = j[h - 2]
        BY <4>1
      <4> QED  BY <3>2, <4>1, <4>2 DEF Starts
    <3> QED  BY <3>1, <3>2
  <2> QED  BY <2>1
<1> HIDE DEF S
<1>3. S = Nat
  BY <1>1, <1>2, Counting DEF S
<1> QED  BY <1>3 DEF S

LEMMA StartsExist == \A m \in Nat : \E g : Starts(m, g)
<1> DEFINE S == {m \in Nat : \E g : Starts(m, g)}
<1>1. 0 \in S
  <2>1. Starts(0, [h \in 0..0 |-> 0])
    BY DEF Starts
  <2> QED  BY <2>1
<1>2. ASSUME NEW m \in S PROVE m + 1 \in S
  <2>1. PICK g : Starts(m, g)
    OBVIOUS
  <2> DEFINE x == IF m + 1 < 2 THEN m + 1 ELSE 1 + g[m] + g[m - 1]
             j == [h \in 0..(m + 1) |-> IF h = m + 1 THEN x ELSE g[h]]
  <2>2. x \in Nat
    BY <2>1 DEF Starts
  <2> HIDE DEF x
  <2>3. j \in [0..(m + 1) -> Nat]
    BY <2>1, <2>2 DEF Starts
  <2>4. ASSUME NEW h \in 0..(m + 1) PROVE j[h] = IF h < 2 THEN h ELSE 1 + j[h - 1] + j[h - 2]
    <3>1. CASE h = m + 1
      <4>1. h >= 2 => j[h - 1] = g[m] /\ j[h - 2] = g[m - 1]
        BY <3>1
      <4> QED  BY <3>1, <4>1 DEF x
    <3>2. CASE h # m + 1
      BY <2>1, <3>2 DEF Starts
    <3> QED  BY <3>1, <3>2
  <2>5. Starts(m + 1, j)
    BY <2>3, <2>4 DEF Starts
  <2> QED  BY <2>5
<1> HIDE DEF S
<1>3. S = Nat
  BY <1>1, <1>2, Counting DEF S
<1> QED  BY <1>3 DEF S

\* The function MinKeys satisfies the equation that defines it.
LEMMA MinKeysDef == MinKeys = [h \in Nat |-> IF h < 2 THEN h ELSE 1 + MinKeys[h - 1] + MinKeys[h - 2]]
<1> DEFINE G(m) == CHOOSE g : Starts(m, g)
           f == [m \in Nat |-> G(m)[m]]
<1>1. \A m \in Nat : Starts(m, G(m))
  BY StartsExist
<1>2. ASSUME NEW n \in Nat PROVE f[n] = IF n < 2 THEN n ELSE 1 + f[n - 1] + f[n - 2]
  <2> HIDE DEF G
  <2>1. CASE n < 2
    <3>1. n \in 0..n
      OBVIOUS
    <3> QED  BY <1>1, <2>1, <3>1 DEF Starts
  <2>2. CASE ~(n < 2)
    <3>1. n - 1 \in Nat /\ n - 2 \in Nat /\ n \in 0..n
      BY <2>2
    <3>2. G(n)[n] = 1 + G(n)[n - 1] + G(n)[n - 2]
      BY <1>1, <2>2, <3>1 DEF Starts
    <3>3. G(n)[n - 1] = G(n - 1)[n - 1] /\ G(n)[n - 2] = G(n - 2)[n - 2]
      BY <1>1, <3>1, StartsAgree
    <3> QED  BY <2>2, <3>1, <3>2, <3>3
  <2> QED  BY <2>1, <2>2
<1> HIDE DEF f
<1>3. f = [n \in Nat |-> f[n]]
  BY DEF f
<1>4. f = [n \in Nat |-> IF n < 2 THEN n ELSE 1 + f[n - 1] + f[n - 2]]
  BY <1>2, <1>3
<1>5. \E g : g = [n \in Nat |-> IF n < 2 THEN n ELSE 1 + g[n - 1] + g[n - 2]]
  BY <1>4
<1> QED  BY <1>5 DEF MinKeys

LEMMA MinKeysStep ==
  /\ MinKeys[0] = 0 /\ MinKeys[1] = 1
  /\ \A h \in Nat : MinKeys[h + 2] = 1 + MinKeys[h + 1] + MinKeys[h]
BY MinKeysDef

\* They grow with the height, and are as many as it at least.
LEMMA MinKeysGrow == \A h \in Nat : MinKeys[h] \in Nat /\ h <= MinKeys[h] /\ MinKeys[h] <= MinKeys[h + 1]
<1> DEFINE S == {h \in Nat : /\ MinKeys[h] \in Nat /\ h <= MinKeys[h] /\ MinKeys[h] <= MinKeys[h + 1]
                             /\ MinKeys[h + 1] \in Nat /\ h + 1 <= MinKeys[h + 1]}
<1>1. 0 \in S
  BY MinKeysStep
<1>2. ASSUME NEW h \in S PROVE h + 1 \in S
  <2>1. (h + 1) + 1 = h + 2 /\ MinKeys[h + 2] = 1 + MinKeys[h + 1] + MinKeys[h]
    BY MinKeysStep
  <2> QED  BY <2>1
<1> HIDE DEF S
<1>3. S = Nat
  BY <1>1, <1>2, Counting DEF S
<1> QED  BY <1>3 DEF S

\* A node needs the nodes of both its subtrees.
LEMMA EvenNeeds ==
  ASSUME NEW h, NEW l \in Nat, NEW r \in Nat, Even(h, l, r)
  PROVE  h \in Nat /\ h >= 1 /\ MinKeys[h] <= 1 + MinKeys[l] + MinKeys[r]
<1>1. h \in Nat /\ h >= 1 /\ h = 1 + Big(l, r) /\ l - r \in -1..1
  BY DEF Even, Big
<1>2. /\ MinKeys[l] \in Nat /\ MinKeys[r] \in Nat /\ MinKeys[l] <= MinKeys[l + 1] /\ MinKeys[r] <= MinKeys[r + 1]
  BY MinKeysGrow
<1>3. CASE l = r
  <2>1. CASE l = 0
    BY <1>1, <1>2, <1>3, <2>1, MinKeysStep DEF Big
  <2>2. CASE l # 0
    <3>1. l - 1 \in Nat /\ h = (l - 1) + 2 /\ (l - 1) + 1 = l
      BY <1>1, <1>3, <2>2 DEF Big
    <3>2. MinKeys[h] = 1 + MinKeys[l] + MinKeys[l - 1] /\ MinKeys[l - 1] <= MinKeys[l] /\ MinKeys[l - 1] \in Nat
      <4>1. MinKeys[(l - 1) + 2] = 1 + MinKeys[(l - 1) + 1] + MinKeys[l - 1]
        BY <3>1, MinKeysStep
      <4>2. MinKeys[l - 1] <= MinKeys[(l - 1) + 1] /\ MinKeys[l - 1] \in Nat
        BY <3>1, MinKeysGrow
      <4> QED  BY <3>1, <4>1, <4>2
    <3> QED  BY <1>1, <1>2, <1>3, <3>2
  <2> QED  BY <2>1, <2>2
<1>4. CASE l = r + 1
  <2>1. h = r + 2
    BY <1>1, <1>4 DEF Big
  <2>2. MinKeys[r + 2] = 1 + MinKeys[r + 1] + MinKeys[r]
    BY MinKeysStep
  <2> QED  BY <1>1, <1>2, <1>4, <2>1, <2>2
<1>5. CASE r = l + 1
  <2>1. h = l + 2
    BY <1>1, <1>5 DEF Big
  <2>2. MinKeys[l + 2] = 1 + MinKeys[l + 1] + MinKeys[l]
    BY MinKeysStep
  <2> QED  BY <1>1, <1>2, <1>5, <2>1, <2>2
<1> QED  BY <1>1, <1>3, <1>4, <1>5

\* The nodes e are a tree of even nodes.
EvenTree(K, T, span, e) ==
  /\ K \in SUBSET Key /\ IsTree(K, T, span) /\ DOMAIN e = K
  /\ \A i \in K, s \in Side : T[i][s] = e[i].kid[s]
  /\ \A i \in K : H(e, i) \in Nat /\ EvenAt(e, i)

Under(K, span, i) == IF i = 0 THEN {} ELSE span[i] \cap K

\* Below a node are its two subtrees, which have no node in common.
LEMMA UnderKids ==
  ASSUME NEW K, NEW T, NEW span, NEW e, EvenTree(K, T, span, e), NEW n \in K
  PROVE  LET l == Under(K, span, e[n].kid["l"])
             r == Under(K, span, e[n].kid["r"])
         IN  /\ l \cup r \cup {n} \subseteq Under(K, span, n) /\ l \cap r = {} /\ n \notin l \cup r
             /\ \A s \in Side : e[n].kid[s] \in K \cup {0}
<1>1. /\ IsTree(K, T, span) /\ 0 \notin K /\ n # 0 /\ n \in span[n]
      /\ \A s \in Side : Linked(K, T, span, n, s) /\ T[n][s] = e[n].kid[s]
  BY Sides DEF EvenTree, IsTree
<1>2. ASSUME NEW s \in Side
      PROVE  e[n].kid[s] \in K \cup {0} /\ Under(K, span, e[n].kid[s]) \subseteq Below(span, n, s) \cap K
  BY <1>1 DEF Linked, Under
<1>3. Under(K, span, n) = span[n] \cap K
  BY <1>1 DEF Under
<1> QED  BY <1>1, <1>2, <1>3 DEF Below

LEMMA CountsAdd ==
  ASSUME NEW S, IsFiniteSet(S), NEW A, NEW B, NEW n, A \cup B \cup {n} \subseteq S, A \cap B = {}, n \notin A \cup B
  PROVE  /\ Cardinality(A) \in Nat /\ Cardinality(B) \in Nat /\ Cardinality(S) \in Nat
         /\ 1 + Cardinality(A) + Cardinality(B) <= Cardinality(S)
<1>1. IsFiniteSet(A) /\ IsFiniteSet(B)
  BY FS_Subset
<1>2. Cardinality(A) \in Nat /\ Cardinality(B) \in Nat /\ Cardinality(S) \in Nat
  BY <1>1, FS_CardinalityType
<1>3. IsFiniteSet(A \cup B) /\ Cardinality(A \cup B) = Cardinality(A) + Cardinality(B) - Cardinality(A \cap B)
  BY <1>1, FS_Union
<1>4. Cardinality(A \cap B) = 0
  BY FS_EmptySet
<1>5. Cardinality((A \cup B) \cup {n}) = Cardinality(A \cup B) + 1
  BY <1>3, FS_AddElement
<1>6. Cardinality((A \cup B) \cup {n}) <= Cardinality(S)
  BY FS_Subset
<1> QED  BY <1>2, <1>3, <1>4, <1>5, <1>6

\* A node of height h has MinKeys[h] nodes at or below it at least.
LEMMA HeightNeeds ==
  ASSUME NEW K, IsFiniteSet(K), NEW T, NEW span, NEW e, EvenTree(K, T, span, e)
  PROVE  \A n \in K : MinKeys[H(e, n)] <= Cardinality(K) /\ H(e, n) >= 1
<1> DEFINE C(i) == Cardinality(Under(K, span, i))
           S == {h \in Nat : \A n \in K : H(e, n) <= h => MinKeys[H(e, n)] <= C(n)}
<1>1. /\ 0 \notin K /\ \A n \in K : H(e, n) \in Nat /\ EvenAt(e, n)
  BY Sides DEF EvenTree
<1>2. ASSUME NEW n \in K
      PROVE  /\ IsFiniteSet(Under(K, span, n)) /\ C(n) \in Nat /\ C(n) <= Cardinality(K)
             /\ C(0) = 0
             /\ \A s \in Side : e[n].kid[s] \in K \cup {0}
             /\ 1 + C(e[n].kid["l"]) + C(e[n].kid["r"]) <= C(n)
  <2>1. Under(K, span, n) \in SUBSET K /\ Under(K, span, 0) = {}
    BY DEF Under
  <2>2. IsFiniteSet(Under(K, span, n)) /\ C(n) <= Cardinality(K) /\ C(n) \in Nat
    BY <2>1, FS_Subset, FS_CardinalityType
  <2>3. C(0) = 0
    BY <2>1, FS_EmptySet
  <2>4. (\A s \in Side : e[n].kid[s] \in K \cup {0}) /\ 1 + C(e[n].kid["l"]) + C(e[n].kid["r"]) <= C(n)
    BY <2>2, UnderKids, CountsAdd
  <2> QED  BY <2>2, <2>3, <2>4
<1>3. ASSUME NEW n \in K
      PROVE  LET l == e[n].kid["l"]
                 r == e[n].kid["r"]
             IN  /\ H(e, l) \in Nat /\ H(e, r) \in Nat /\ H(e, l) < H(e, n) /\ H(e, r) < H(e, n) /\ H(e, n) >= 1
                 /\ MinKeys[H(e, n)] <= 1 + MinKeys[H(e, l)] + MinKeys[H(e, r)]
  <2> DEFINE l == e[n].kid["l"]
             r == e[n].kid["r"]
  <2>1. H(e, l) \in Nat /\ H(e, r) \in Nat
    <3>1. H(e, 0) = 0
      BY DEF H
    <3> QED  BY <1>1, <1>2, <3>1
  <2>2. Even(H(e, n), H(e, l), H(e, r))
    BY <1>1 DEF EvenAt
  <2>3. H(e, l) < H(e, n) /\ H(e, r) < H(e, n)
    BY <2>1, <2>2 DEF Even, Big
  <2> QED  BY <2>1, <2>2, <2>3, EvenNeeds
<1>4. 0 \in S
  BY <1>1, <1>3
<1>5. ASSUME NEW h \in S PROVE h + 1 \in S
  <2>1. ASSUME NEW n \in K, H(e, n) <= h + 1 PROVE MinKeys[H(e, n)] <= C(n)
    <3> DEFINE l == e[n].kid["l"]
               r == e[n].kid["r"]
    <3>1. /\ H(e, l) \in Nat /\ H(e, r) \in Nat /\ H(e, l) <= h /\ H(e, r) <= h /\ l \in K \cup {0} /\ r \in K \cup {0}
      BY <1>1, <1>2, <1>3, <2>1
    <3>2. MinKeys[H(e, l)] <= C(l) /\ C(l) \in Nat
      <4>1. CASE l = 0
        BY <1>2, <4>1, MinKeysStep DEF H
      <4> QED  BY <1>2, <3>1, <4>1
    <3>3. MinKeys[H(e, r)] <= C(r) /\ C(r) \in Nat
      <4>1. CASE r = 0
        BY <1>2, <4>1, MinKeysStep DEF H
      <4> QED  BY <1>2, <3>1, <4>1
    <3>4. MinKeys[H(e, l)] \in Nat /\ MinKeys[H(e, r)] \in Nat /\ MinKeys[H(e, n)] \in Nat
      BY <1>1, <3>1, MinKeysGrow
    <3>5. MinKeys[H(e, n)] <= 1 + MinKeys[H(e, l)] + MinKeys[H(e, r)] /\ 1 + C(l) + C(r) <= C(n) /\ C(n) \in Nat
      BY <1>2, <1>3
    <3> HIDE DEF l, r, C
    <3> QED  BY <3>2, <3>3, <3>4, <3>5
  <2> QED  BY <2>1
<1> HIDE DEF S
<1>6. S = Nat
  BY <1>4, <1>5, Counting DEF S
<1> SUFFICES ASSUME NEW n \in K PROVE MinKeys[H(e, n)] <= Cardinality(K) /\ H(e, n) >= 1
  OBVIOUS
<1>7. MinKeys[H(e, n)] <= C(n)
  BY <1>1, <1>6 DEF S
<1>8. MinKeys[H(e, n)] \in Nat /\ C(n) \in Nat /\ C(n) <= Cardinality(K) /\ Cardinality(K) \in Nat /\ H(e, n) >= 1
  BY <1>1, <1>2, <1>3, MinKeysGrow, FS_CardinalityType
<1> HIDE DEF C
<1> QED  BY <1>7, <1>8

LEMMA HeightsFit ==
  ASSUME MInv, NInv, pc # "up", NEW f, Nodal(f), IsFiniteSet(geo.keys),
         \A h \in 0..Cardinality(geo.keys) : MinKeys[h] <= Cardinality(geo.keys) => h <= HeightBound(geo)
  PROVE  \A i \in DOMAIN f : f[i].height \in 1..maxHeightOfAVLTree
<1>1. PICK L, span : Grows(f, L, span)
  BY TreeOfNodes
<1>2. /\ Stored \in SUBSET Key /\ DOMAIN f = Stored /\ Settled(f) /\ Stored \subseteq geo.keys
  BY StoredIsKeys DEF MInv, Nodal, Sound
<1>4. \A i \in Stored : H(f, i) \in Nat /\ H(f, i) = f[i].height
  <2>1. \A i \in Stored : f[i] \in Nodes /\ i # 0
    BY <1>2, NewestIsNode, Sides DEF Nodal, Sound
  <2> QED  BY <2>1 DEF H, Nodes
<1>5. EvenTree(Stored, L, span, f)
  BY <1>1, <1>2, <1>4 DEF EvenTree, Grows, Settled
<1>6. IsFiniteSet(Stored) /\ Cardinality(Stored) <= Cardinality(geo.keys) /\ Cardinality(geo.keys) \in Nat /\ Cardinality(Stored) \in Nat
  BY <1>2, FS_Subset, FS_CardinalityType
<1> SUFFICES ASSUME NEW i \in Stored PROVE f[i].height \in 1..maxHeightOfAVLTree
  BY <1>2
<1>7. MinKeys[H(f, i)] <= Cardinality(Stored) /\ H(f, i) >= 1
  BY <1>5, <1>6, HeightNeeds
<1>8. MinKeys[H(f, i)] \in Nat /\ H(f, i) <= MinKeys[H(f, i)]
  BY <1>4, MinKeysGrow
<1>9. H(f, i) \in 0..Cardinality(geo.keys) /\ MinKeys[H(f, i)] <= Cardinality(geo.keys)
  BY <1>4, <1>6, <1>7, <1>8
<1>10. H(f, i) <= HeightBound(geo)
  BY <1>9
<1> QED  BY <1>4, <1>7, <1>10 DEF maxHeightOfAVLTree

\* The position of a block after Refresh, and what a parent that is in the cache takes
\* for it.
NewPos(m, leafOf, k) ==
  IF m.cache[k].height \in 1..maxHeightOfAVLTree /\ k \in m.modified THEN leafOf[k] ELSE m.cache[k].pos
Heard(m, leafOf, n, c, old) ==
  IF c \notin DOMAIN m.cache THEN old
  ELSE IF m.cache[c].height < n.height THEN NewPos(m, leafOf, c) ELSE m.cache[c].pos

LEMMA RefreshIs ==
  ASSUME NEW m, Blocks(m.cache), NEW leafOf, NEW k \in DOMAIN m.cache
  PROVE  LET n == m.cache[k]
             new == Refresh(m, leafOf)[k]
         IN  /\ new.value = n.value /\ new.kid = n.kid /\ new.height = n.height
             /\ n.height \in 1..maxHeightOfAVLTree =>
                  new.pos = NewPos(m, leafOf, k) /\ \A s \in Side : new.kidPos[s] = Heard(m, leafOf, n, n.kid[s], n.kidPos[s])
             /\ n.height \notin 1..maxHeightOfAVLTree => new = n
<1> DEFINE n == m.cache[k]
           reached == n.height \in 1..maxHeightOfAVLTree
           pos == NewPos(m, leafOf, k)
           kidPos == [s \in {"l", "r"} |-> Heard(m, leafOf, n, n.kid[s], n.kidPos[s])]
           new == [n EXCEPT !.pos = pos, !.kidPos = kidPos]
<1>1. Refresh(m, leafOf)[k] = IF ~reached THEN n ELSE new
  BY Zenon DEF Refresh, NewPos, Heard
<1>2. n \in Nodes
  BY DEF Blocks
<1> HIDE DEF n, pos
<1>3. kidPos = [s \in Side |-> kidPos[s]] /\ \A s \in Side : kidPos[s] = Heard(m, leafOf, n, n.kid[s], n.kidPos[s])
  OBVIOUS
<1> HIDE DEF kidPos
<1>4. /\ new.value = n.value /\ new.kid = n.kid /\ new.height = n.height
      /\ new.pos = pos /\ new.kidPos = kidPos
  BY <1>2 DEF Nodes
<1> HIDE DEF new
<1> QED  BY <1>1, <1>3, <1>4 DEF n, pos

\* The nodes after Refresh.
Refreshed(m, f, g, leafOf) ==
  /\ DOMAIN g = DOMAIN f
  /\ \A k \in DOMAIN f : g[k] = IF k \in DOMAIN m.cache THEN Refresh(m, leafOf)[k] ELSE f[k]

LEMMA RefreshHolds ==
  ASSUME NEW m, NEW f, Holds(m, f), NEW o, Good(o), NEW leafOf \in [m.modified -> Leaves],
         o.cache = Refresh(m, leafOf), o.lost = m.lost, o.readview = m.readview, o.writeview = m.writeview,
         NEW g, Refreshed(m, f, g, leafOf)
  PROVE  Holds(o, g)
<1>1. /\ Good(m) /\ Apart(m) /\ ~m.lost /\ DOMAIN f = Have(m)
      /\ \A k \in DOMAIN f : Seen(m, k) = f[k] /\ FoundIn(store, m, k, f[k].pos)
  BY DEF Holds
<1>2. DOMAIN o.cache = DOMAIN m.cache
  BY DEF Refresh
<1>3. DOMAIN m.cache \subseteq DOMAIN f
  BY HoldsCached
<1>4. Have(o) = Have(m)
  BY <1>2 DEF Have, HaveIn
<1>5. Apart(o)
  BY <1>1, <1>2 DEF Apart, Unshared, IsLive
<1>6. ASSUME NEW k \in DOMAIN f PROVE Seen(o, k) = g[k] /\ FoundIn(store, o, k, g[k].pos)
  <2>1. CASE k \in DOMAIN m.cache
    BY <1>2, <2>1 DEF Refreshed, Seen, NewestIn, FoundIn
  <2>2. CASE k \notin DOMAIN m.cache
    <3>1. g[k] = f[k] /\ Seen(o, k) = Seen(m, k)
      BY <1>2, <2>2 DEF Refreshed, Seen, NewestIn
    <3> QED  BY <1>1, <1>2, <3>1 DEF FoundIn, IsLive
  <2> QED  BY <2>1, <2>2
<1> QED  BY <1>1, <1>4, <1>5, <1>6 DEF Holds, Refreshed

\* No link and no height changes: what is even stays so.
LEMMA RefreshEven ==
  ASSUME NEW m, NEW f, Holds(m, f), StoreOK, NEW leafOf, NEW g, Refreshed(m, f, g, leafOf), Settled(f)
  PROVE  /\ \A i \in DOMAIN f : EvenAt(g, i)
         /\ \A i \in DOMAIN f : g[i].kid = f[i].kid /\ g[i].height = f[i].height
<1>1. /\ 0 \notin DOMAIN f /\ DOMAIN m.cache \subseteq DOMAIN f /\ Blocks(m.cache)
      /\ \A i \in DOMAIN m.cache : m.cache[i] = f[i]
  BY NodesAre, HoldsCached, GoodFields DEF Holds
<1>2. \A i \in DOMAIN f : g[i].kid = f[i].kid /\ g[i].height = f[i].height
  BY <1>1, RefreshIs DEF Refreshed
<1>3. ASSUME NEW i \in DOMAIN f PROVE EvenAt(g, i)
  <2>1. EvenAt(f, i) /\ \A s \in Side : f[i].kid[s] \in DOMAIN f \cup {0}
    BY DEF Settled, Tells
  <2>2. \A j \in DOMAIN f \cup {0} : H(g, j) = H(f, j)
    BY <1>2 DEF H
  <2> QED  BY <1>2, <2>1, <2>2 DEF EvenAt
<1> QED  BY <1>2, <1>3

\* The loop over the heights reaches every node: a child is moved before its parent
\* looks, and the parent of a moved child is in the cache.
LEMMA RefreshTells ==
  ASSUME NEW m, NEW f, Holds(m, f), StoreOK, NEW leafOf, NEW g, Refreshed(m, f, g, leafOf), Settled(f), Told(m, f),
         \A i \in DOMAIN f : f[i].height \in 1..maxHeightOfAVLTree
  PROVE  Settled(g)
<1>1. /\ 0 \notin DOMAIN f /\ DOMAIN m.cache \subseteq DOMAIN f /\ Blocks(m.cache)
      /\ \A i \in DOMAIN m.cache : m.cache[i] = f[i]
      /\ \A i \in DOMAIN f : H(f, i) = f[i].height /\ H(f, i) \in Nat
  BY NodesAre, HoldsCached, GoodFields DEF Holds
<1>2. /\ \A i \in DOMAIN f : EvenAt(g, i)
      /\ \A i \in DOMAIN f : g[i].kid = f[i].kid /\ g[i].height = f[i].height
  BY RefreshEven
<1>3. ASSUME NEW i \in DOMAIN m.cache
      PROVE  /\ g[i].pos = NewPos(m, leafOf, i)
             /\ \A s \in Side : g[i].kidPos[s] = Heard(m, leafOf, f[i], f[i].kid[s], f[i].kidPos[s])
  BY <1>1, RefreshIs DEF Refreshed
<1>4. \A i \in DOMAIN f : i \notin DOMAIN m.cache => g[i] = f[i]
  BY DEF Refreshed
<1>5. ASSUME NEW i \in DOMAIN f, NEW s \in Side PROVE Tells(g, i, s)
  <2>1. PICK c : c = f[i].kid[s]
    OBVIOUS
  <2>2. SUFFICES ASSUME c # 0 PROVE g[i].kidPos[s] = g[c].pos /\ c \in DOMAIN g
    BY <1>2, <2>1 DEF Tells
  <2>3. c \in DOMAIN f /\ f[i].kidPos[s] = f[c].pos
    BY <2>1, <2>2 DEF Settled, Tells
  <2>4. H(f, c) < H(f, i)
    <3>1. EvenAt(f, i) /\ \A r \in Side : f[i].kid[r] \in DOMAIN f \cup {0}
      BY DEF Settled, Tells
    <3>2. \A r \in Side : H(f, f[i].kid[r]) \in Nat
      <4>1. H(f, 0) = 0
        BY DEF H
      <4> QED  BY <1>1, <3>1, <4>1
    <3>3. H(f, f[i].kid["l"]) < H(f, i) /\ H(f, f[i].kid["r"]) < H(f, i)
      BY <3>1, <3>2 DEF EvenAt, Even, Big
    <3> QED  BY <2>1, <3>3
  <2>5. g[i].kidPos[s] = g[c].pos
    <3>1. CASE i \in DOMAIN m.cache /\ c \in DOMAIN m.cache
      <4>1. Heard(m, leafOf, f[i], c, f[i].kidPos[s]) = NewPos(m, leafOf, c)
        BY <1>1, <2>3, <2>4, <3>1 DEF Heard
      <4> QED  BY <1>3, <2>1, <3>1, <4>1
    <3>2. CASE i \in DOMAIN m.cache /\ c \notin DOMAIN m.cache
      BY <1>3, <1>4, <2>1, <2>3, <3>2 DEF Heard
    <3>3. CASE i \notin DOMAIN m.cache /\ c \in DOMAIN m.cache
      <4>1. c \notin m.modified
        BY <2>1, <3>3 DEF Told
      <4>2. g[c].pos = m.cache[c].pos
        BY <1>3, <3>3, <4>1 DEF NewPos
      <4> QED  BY <1>1, <1>4, <2>3, <3>3, <4>2
    <3>4. CASE i \notin DOMAIN m.cache /\ c \notin DOMAIN m.cache
      BY <1>4, <2>3, <3>4
    <3> QED  BY <3>1, <3>2, <3>3, <3>4
  <2>6. DOMAIN g = DOMAIN f
    BY DEF Refreshed
  <2> QED  BY <2>3, <2>5, <2>6
<1>6. DOMAIN g = DOMAIN f
  BY DEF Refreshed
<1> QED  BY <1>2, <1>5, <1>6 DEF Settled

\* With one leaf there is nowhere to move to.
LEMMA OneLeafTells ==
  ASSUME NEW m, NEW f, Holds(m, f), StoreOK, NEW leafOf, NEW g, Refreshed(m, f, g, leafOf), Settled(f),
         NEW o, Holds(o, g), 2^geo.depth = 1
  PROVE  Settled(g)
<1>1. /\ \A i \in DOMAIN f : EvenAt(g, i)
      /\ \A i \in DOMAIN f : g[i].kid = f[i].kid
      /\ DOMAIN g = DOMAIN f
  BY RefreshEven DEF Refreshed
<1>2. Leaves = {0}
  BY DEF Leaves
<1>3. \A i \in DOMAIN g : g[i].pos = 0 /\ \A s \in Side : g[i].kid[s] # 0 => g[i].kidPos[s] = 0
  BY <1>2, NodesAre, NodeFields DEF Placing
<1>4. ASSUME NEW i \in DOMAIN f, NEW s \in Side PROVE Tells(g, i, s)
  <2>1. Tells(f, i, s)
    BY DEF Settled
  <2> QED  BY <1>1, <1>3, <2>1 DEF Tells
<1> QED  BY <1>1, <1>4 DEF Settled

LEMMA FinishIsSettled ==
  ASSUME MInv, NInv, HeightFits(geo), Finish
  PROVE  NInv'
<1>1. /\ pc = "finish" /\ geo' = geo /\ store' = store /\ pc' = "write"
      /\ root' = [root EXCEPT !.pos = IF root.key \in DOMAIN oram'.cache THEN oram'.cache[root.key].pos ELSE @]
  BY DEF Finish
<1>2. PICK f : Nodal(f)
  BY DEF NInv
<1>3. /\ Holds(oram, f) /\ StoreOK /\ Settled(f) /\ Rooted(root, f) /\ Told(oram, f) /\ DOMAIN f \subseteq geo.keys
      /\ ~oram.lost /\ Place(root)
  BY <1>1, <1>2, SoundHolds DEF MInv, NInv, Nodal, Sound, IInv, Control
<1>4. PICK m : /\ Keeps(oram, m, {}) /\ Reads(oram, m)
               /\ m.lost = oram.lost /\ m.modified = oram.modified
               /\ oram'.lost = m.lost /\ oram'.readview = m.readview /\ oram'.writeview = m.writeview
               /\ \E leafOf \in [oram.modified -> Leaves] : oram'.cache = Refresh(m, leafOf)
  BY FinishKeeps DEF MInv
<1>5. PICK leafOf \in [m.modified -> Leaves] : oram'.cache = Refresh(m, leafOf)
  BY <1>4
<1>6. Holds(m, f)
  BY <1>3, <1>4, ReadsHolds
<1>7. Told(m, f)
  BY <1>3, <1>4 DEF Told, Reads
<1>8. PICK g : g = [k \in DOMAIN f |-> IF k \in DOMAIN m.cache THEN Refresh(m, leafOf)[k] ELSE f[k]]
  OBVIOUS
<1>9. Refreshed(m, f, g, leafOf)
  BY <1>8 DEF Refreshed
<1>10. Good(oram')
  BY FinishKeeps DEF MInv, Keeps, Grown
<1>11. Holds(oram', g)
  BY <1>4, <1>5, <1>6, <1>9, <1>10, RefreshHolds
<1>12. Settled(g)
  <2>1. CASE 2^geo.depth = 1
    BY <1>3, <1>6, <1>9, <1>11, <2>1, OneLeafTells
  <2>2. CASE /\ IsFiniteSet(geo.keys)
             /\ \A h \in 0..Cardinality(geo.keys) : MinKeys[h] <= Cardinality(geo.keys) => h <= HeightBound(geo)
    <3>1. \A i \in DOMAIN f : f[i].height \in 1..maxHeightOfAVLTree
      BY <1>1, <1>2, <2>2, HeightsFit
    <3> QED  BY <1>3, <1>6, <1>7, <1>9, <3>1, RefreshTells
  <2> QED  BY <2>1, <2>2 DEF HeightFits
<1>13. Sound(g)' /\ ~oram'.lost
  BY <1>1, <1>3, <1>9, <1>11, SoundNext DEF Refreshed
<1>14. Rooted(root', g)
  <2>1. /\ root'.key = root.key
        /\ root'.pos = IF root.key \in DOMAIN oram'.cache THEN oram'.cache[root.key].pos ELSE root.pos
    BY <1>1, <1>3 DEF Place
  <2>2. CASE root.key \in DOMAIN oram'.cache
    BY <1>11, <2>1, <2>2, HoldsCached DEF Rooted
  <2>3. CASE root.key \notin DOMAIN oram'.cache
    <3>1. root.key \notin DOMAIN m.cache
      BY <1>5, <2>3 DEF Refresh
    <3> QED  BY <1>3, <1>9, <2>1, <2>3, <3>1 DEF Rooted, Refreshed
  <2> QED  BY <2>2, <2>3
<1>15. Settled(g)' /\ Rooted(root, g)'
  BY <1>12, <1>14 DEF Settled, Rooted
<1>16. Nodal(g)'
  BY <1>1, <1>13, <1>15 DEF Nodal
<1> QED  BY <1>1, <1>13, <1>16 DEF NInv

-----------------------------------------------------------------------------
(* Every step keeps the invariant.                                           *)

\* The instance stays the one the constructor made.
LEMMA GeoStays ==
  ASSUME [Next]_vars
  PROVE  geo' = geo
BY DEF vars, Next, StartFind, StartInsert, FindMiss, FindHit, FindDown, InsertDown, InsertNew, InsertSame,
       InsertUp, InsertDone, Finish, Write, Return

\* One step of the operation.
LEMMA NextIsSettled ==
  ASSUME MInv, NInv, HeightFits(geo), Next
  PROVE  NInv'
BY StartIsSettled, FindMissIsSettled, FindHitIsSettled, FindDownIsSettled, InsertDownIsSettled,
   InsertNewIsSettled, InsertSameIsSettled, InsertUpIsSettled, InsertDoneIsSettled, FinishIsSettled,
   WriteIsSettled, ReturnIsSettled DEF Next

\* Of an instance whose trees fit.
Settles == MInv /\ (HeightFits(geo) => NInv)

LEMMA SettlesAlways ==
  /\ Init => Settles
  /\ Settles /\ [Next]_vars => Settles'
<1>1. Init => Settles
  BY InitIsMapInit, InitIsSettled DEF Settles
<1>2. ASSUME Settles, [Next]_vars PROVE Settles'
  <2>1. MInv'
    BY <1>2, NextIsMapNext, StutterIsStutter DEF Settles
  <2>2. HeightFits(geo)' => HeightFits(geo)
    BY <1>2, GeoStays
  <2>3. ASSUME HeightFits(geo) PROVE NInv'
    BY <1>2, <2>3, NextIsSettled, StutterIsSettled DEF Settles
  <2> QED  BY <2>1, <2>2, <2>3 DEF Settles
<1> QED  BY <1>1, <1>2

LEMMA SettlesIsInvariant == Spec => []Settles
<1>1. Init => Settles
  BY SettlesAlways
<1>2. Settles /\ [Next]_vars => Settles'
  BY SettlesAlways
<1> QED  BY <1>1, <1>2, PTL DEF Spec

-----------------------------------------------------------------------------
(* What holds between operations.                                            *)

\* A node that is not the root has a parent: go down towards it.
LEMMA HasParent ==
  ASSUME NEW K, NEW T, NEW span, NEW e, EvenTree(K, T, span, e), T[0]["l"] = 0,
         NEW k \in K, k # T[0]["r"]
  PROVE  \E p \in K, s \in Side : e[p].kid[s] = k
<1> DEFINE Above(p) == p \in K /\ k \in span[p] /\ p # k
           Goal == \E p \in K, s \in Side : e[p].kid[s] = k
           S == {h \in Nat : \A p \in K : Above(p) /\ H(e, p) <= h => Goal}
<1>1. /\ K \in SUBSET Key /\ 0 \notin K /\ k \in Key /\ span[0] = Key /\ k # 0
      /\ \A i \in K, s \in Side : T[i][s] = e[i].kid[s]
      /\ \A n \in K \cup {0}, s \in Side : Linked(K, T, span, n, s)
      /\ \A i \in K : H(e, i) \in Nat /\ EvenAt(e, i)
      /\ H(e, 0) = 0
  BY Sides DEF EvenTree, IsTree, H
<1>2. ASSUME NEW p \in K, Above(p) PROVE Goal \/ \E c \in K : Above(c) /\ H(e, c) < H(e, p)
  <2> DEFINE s == SideOf(k, p)
             c == e[p].kid[s]
  <2>1. s \in Side /\ k \in Below(span, p, s)
    BY <1>2, Sides DEF Below
  <2>2. T[p][s] = c /\ Linked(K, T, span, p, s)
    BY <1>1, <2>1
  <2>3. c \in K /\ k \in span[c]
    BY <2>1, <2>2 DEF Linked
  <2>4. Even(H(e, p), H(e, e[p].kid["l"]), H(e, e[p].kid["r"]))
    BY <1>1 DEF EvenAt
  <2>5. \A r \in Side : e[p].kid[r] \in K \cup {0}
    BY <1>1 DEF Linked
  <2>6. H(e, e[p].kid["l"]) \in Nat /\ H(e, e[p].kid["r"]) \in Nat
    BY <1>1, <2>5
  <2>7. H(e, c) < H(e, p)
    BY <2>1, <2>4, <2>6 DEF Even, Big
  <2> QED  BY <2>1, <2>3, <2>7
<1>3. 0 \in S
  BY <1>1, <1>2
<1>4. ASSUME NEW h \in S PROVE h + 1 \in S
  <2> SUFFICES ASSUME NEW p \in K, Above(p), H(e, p) <= h + 1 PROVE Goal
    OBVIOUS
  <2>1. CASE Goal
    BY <2>1
  <2>2. CASE \E c \in K : Above(c) /\ H(e, c) < H(e, p)
    <3>1. PICK c \in K : Above(c) /\ H(e, c) < H(e, p)
      BY <2>2
    <3>2. H(e, c) <= h
      BY <1>1, <3>1
    <3> QED  BY <3>1, <3>2
  <2> QED  BY <1>2, <2>1, <2>2
<1>5. S = Nat
  <2> HIDE DEF S
  <2> QED  BY <1>3, <1>4, Counting DEF S
<1>6. \A p \in K : Above(p) => Goal
  BY <1>1, <1>5
<1> DEFINE r == T[0]["r"]
<1>7. r \in K /\ k \in span[r]
  <2>1. SideOf(k, 0) = "r" /\ k \in Below(span, 0, "r")
    BY <1>1, KeyAssumption DEF SideOf, Below
  <2>2. Linked(K, T, span, 0, "r")
    BY <1>1
  <2> QED  BY <2>1, <2>2 DEF Linked
<1> QED  BY <1>6, <1>7

\* The invariants, from one that holds of the nodes f.
LEMMA IdleNodes ==
  ASSUME MInv, NInv, pc = "idle"
  PROVE  \E f : /\ Nodal(f) /\ DOMAIN f = Stored /\ 0 \notin Stored
                /\ Settled(f) /\ Rooted(root, f)
                /\ \A k \in Stored : Newest(k) = f[k] /\ FoundIn(store, oram, k, f[k].pos)
                /\ \A b \in Buckets : IsLive(oram, b)
<1>1. PICK f : Nodal(f)
  BY DEF NInv
<1>2. 0 \notin Stored
  BY StoredIsKeys, Sides DEF MInv
<1>3. \A b \in Buckets : IsLive(oram, b)
  BY <1>1 DEF Nodal, IsLive
<1> QED  BY <1>1, <1>2, <1>3 DEF Nodal, Sound

\* Between operations every node is even.
LEMMA SettledIsBalanced ==
  ASSUME MInv, NInv
  PROVE  Balanced
<1> SUFFICES ASSUME pc = "idle" PROVE Balanced
  BY DEF Balanced
<1>1. PICK f : /\ DOMAIN f = Stored /\ 0 \notin Stored /\ Settled(f)
               /\ \A k \in Stored : Newest(k) = f[k]
  BY IdleNodes
<1> DEFINE HeightOf(k) == IF k = 0 THEN 0 ELSE Newest(k).height
           L(k) == HeightOf(Newest(k).kid["l"])
           R(k) == HeightOf(Newest(k).kid["r"])
<1>2. \A k \in Stored \cup {0} : HeightOf(k) = H(f, k)
  BY <1>1 DEF H
<1>3. ASSUME NEW k \in Stored
      PROVE  HeightOf(k) = 1 + (IF L(k) > R(k) THEN L(k) ELSE R(k)) /\ L(k) - R(k) \in -1..1
  <2>1. f[k].kid["l"] \in Stored \cup {0} /\ f[k].kid["r"] \in Stored \cup {0}
    BY <1>1 DEF Settled, Tells
  <2>2. HeightOf(k) = H(f, k) /\ L(k) = H(f, f[k].kid["l"]) /\ R(k) = H(f, f[k].kid["r"])
    BY <1>1, <1>2, <2>1
  <2>3. Even(H(f, k), H(f, f[k].kid["l"]), H(f, f[k].kid["r"]))
    BY <1>1 DEF Settled, EvenAt
  <2> HIDE DEF HeightOf, L, R
  <2> QED  BY <2>2, <2>3 DEF Even, Big
<1> QED  BY <1>3 DEF Balanced

\* The one copy of a block is on the path to its leaf, or in the cache.
LEMMA OneCopy ==
  ASSUME MInv, \A b \in Buckets : IsLive(oram, b), NEW k, NEW pos \in Leaves,
         FoundIn(store, oram, k, pos)
  PROVE  LET Holding == {b \in Buckets : k \in DOMAIN store[b]}
         IN  /\ Holding \subseteq Path(pos)
             /\ IF k \in DOMAIN oram.cache THEN Holding = {} ELSE Cardinality(Holding) = 1
<1> DEFINE Holding == {b \in Buckets : k \in DOMAIN store[b]}
<1>1. Unshared(Buckets, store, oram)
  BY DEF MInv, Apart
<1>2. CASE k \in DOMAIN oram.cache
  BY <1>1, <1>2 DEF Unshared
<1>3. CASE k \notin DOMAIN oram.cache
  <2>1. PICK b \in Path(pos) : k \in DOMAIN store[b]
    BY <1>3 DEF FoundIn
  <2>2. b \in Buckets
    BY <2>1, PathIsBuckets
  <2>3. Holding = {b}
    BY <1>1, <2>1, <2>2 DEF Unshared
  <2> QED  BY <1>3, <2>1, <2>3, FS_Singleton
<1> QED  BY <1>2, <1>3

\* Between operations every bucket is live, and the links are those of a tree.
LEMMA SettledIsPlaced ==
  ASSUME MInv, NInv
  PROVE  Placed
<1> SUFFICES ASSUME pc = "idle" PROVE Placed
  BY DEF Placed
<1>1. PICK f : /\ Nodal(f) /\ DOMAIN f = Stored /\ 0 \notin Stored /\ Settled(f) /\ Rooted(root, f)
               /\ \A k \in Stored : Newest(k) = f[k] /\ FoundIn(store, oram, k, f[k].pos)
               /\ \A b \in Buckets : IsLive(oram, b)
  BY IdleNodes
<1>2. PICK L, span : Grows(f, L, span)
  BY <1>1, TreeOfNodes
<1>3. /\ Stored \in SUBSET Key /\ IsTree(Stored, L, span) /\ L[0]["r"] = root.key /\ L[0]["l"] = 0
      /\ \A i \in Stored, s \in Side : L[i][s] = f[i].kid[s]
  BY <1>2, StoredIsKeys DEF MInv, Grows
<1>4. EvenTree(Stored, L, span, f)
  <2>1. \A i \in Stored : f[i] \in Nodes /\ i # 0
    BY <1>1, NewestIsNode
  <2>2. \A i \in Stored : H(f, i) \in Nat
    BY <2>1 DEF H, Nodes
  <2> QED  BY <1>1, <1>3, <2>2 DEF EvenTree, Settled
<1> DEFINE Parents(k) == {q \in Stored \X Side : Newest(q[1]).kid[q[2]] = k}
<1>5. ASSUME NEW k \in Stored, k = root.key PROVE Parents(k) = {} /\ root.pos = Newest(k).pos
  <2>1. root.pos = Newest(k).pos
    BY <1>1, <1>5 DEF Rooted
  <2>2. ASSUME NEW p \in Stored, NEW s \in Side, Newest(p).kid[s] = k PROVE FALSE
    <3>1. L[p][s] = L[0]["r"] /\ L[p][s] # 0 /\ p # 0
      BY <1>1, <1>3, <1>5, <2>2
    <3> QED  BY <1>3, <3>1, OneParent
  <2> QED  BY <2>1, <2>2
<1>6. ASSUME NEW k \in Stored, k # root.key
      PROVE  /\ Cardinality(Parents(k)) = 1
             /\ \A q \in Parents(k) : Newest(q[1]).kidPos[q[2]] = Newest(k).pos
  <2>1. PICK p \in Stored, s \in Side : f[p].kid[s] = k
    BY <1>3, <1>4, <1>6, HasParent
  <2>2. ASSUME NEW i \in Stored, NEW r \in Side, Newest(i).kid[r] = k PROVE i = p /\ r = s
    <3>1. L[i][r] = L[p][s] /\ L[i][r] # 0
      BY <1>1, <1>3, <2>1, <2>2
    <3> QED  BY <1>3, <3>1, OneParent
  <2>3. Parents(k) = {<<p, s>>}
    BY <1>1, <2>1, <2>2
  <2>4. Cardinality({<<p, s>>}) = 1
    BY FS_Singleton
  <2>5. Newest(p).kidPos[s] = Newest(k).pos
    BY <1>1, <1>6, <2>1 DEF Settled, Tells
  <2>6. Cardinality(Parents(k)) = 1
    BY <2>3, <2>4
  <2>7. ASSUME NEW q \in Parents(k) PROVE Newest(q[1]).kidPos[q[2]] = Newest(k).pos
    <3>1. q = <<p, s>>
      BY <2>3, <2>7
    <3>2. q[1] = p /\ q[2] = s
      BY <3>1
    <3> QED  BY <2>5, <3>2
  <2> HIDE DEF Parents
  <2> QED  BY <2>6, <2>7
<1>7. ASSUME NEW k \in Stored
      PROVE  LET Holding == {b \in Buckets : k \in DOMAIN store[b]}
             IN  /\ Holding \subseteq Path(Newest(k).pos)
                 /\ IF k \in DOMAIN oram.cache THEN Holding = {} ELSE Cardinality(Holding) = 1
  <2>1. Newest(k).pos \in Leaves
    BY <1>7, NewestIsNode, NodeFields
  <2> QED  BY <1>1, <2>1, OneCopy
<1> HIDE DEF Parents
<1> QED  BY <1>5, <1>6, <1>7 DEF Placed, Parents

\* No find and no insert of the server's handlers meets a node that it cannot read,
\* so nothing in AVLTree.cpp dereferences NULL and ReadNodeFromCache does not throw:
\* however an insert rotated the tree, whichever leaves finilize drew, and however many
\* blocks found no place in the buckets, the path a parent recorded leads to its
\* child.  This is so where maxHeightOfAVLTree is no less than the height of any
\* balanced tree of the keys; where it is less, the loop of finilize leaves the top of
\* the tree out.
THEOREM OMAPNeverLost == Spec => [](HeightFits(geo) => NeverLost)
<1>1. Settles => (HeightFits(geo) => NeverLost)
  BY DEF Settles, NInv, NeverLost
<1> QED  BY <1>1, SettlesIsInvariant, PTL

\* Between operations each node has one copy, in the cache or in a bucket on the path
\* to its leaf, and the leaf is the one that its only parent, or rootPos, has for it.
THEOREM OMAPPlaced == Spec => [](HeightFits(geo) => Placed)
<1>1. Settles => (HeightFits(geo) => Placed)
  BY SettledIsPlaced DEF Settles
<1> QED  BY <1>1, SettlesIsInvariant, PTL

\* Between operations every height that a node records is right, and the tree is
\* balanced: one return of the recursion of AVLTree::insert, with its four cases,
\* repairs what the insert below it did.
THEOREM OMAPBalanced == Spec => [](HeightFits(geo) => Balanced)
<1>1. Settles => (HeightFits(geo) => Balanced)
  BY SettledIsBalanced DEF Settles
<1> QED  BY <1>1, SettlesIsInvariant, PTL

=============================================================================
