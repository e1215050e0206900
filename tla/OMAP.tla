-------------------------------- MODULE OMAP --------------------------------
(***************************************************************************)
(* The oblivious map of ROSE-2 (src/ROSE-2/OMAP: OMAP.cpp, AVLTree.cpp): a *)
(* search tree whose nodes are blocks of PathORAM, each node keeping the   *)
(* position of its children.  The server's handlers call find and insert   *)
(* one at a time.  The recursion of AVLTree::insert is a walk down that    *)
(* remembers its path and a walk back up that rebalances.                  *)
(***************************************************************************)
EXTENDS PathORAM, Sequences

CONSTANT None
Calls == [do : {"find"}, key : Key, value : {None}] \cup [do : {"insert"}, key : Key, value : Value]
Answers == [value : Value \cup {None}]
ASSUME NoneAssumption == None \notin Value \cup Calls \cup Answers

VARIABLES root,   \* rootKey and rootPos
          pc, op, \* the step of the operation under way, and its arguments
          at,     \* the node a call is at or returns: its key and position
          path,   \* insert: the nodes above, the nearest first
          res     \* find: what is returned
vars == <<geo, store, oram, root, pc, op, at, path, res>>

Side == {"l", "r"}
Other(s) == IF s = "l" THEN "r" ELSE "l"
SideOf(k, n) == IF k < n THEN "l" ELSE "r"

\* newNode
NoPos == -1
NewNode(v, pos) == [value |-> v, pos |-> pos, height |-> 1,
                    kid |-> [s \in Side |-> 0], kidPos |-> [s \in Side |-> NoPos]]

Height(m, k) == IF k \in DOMAIN m.cache THEN m.cache[k].height ELSE 0
ReadKid(m, n, s) == ReadNode(m, m.cache[n].kid[s], m.cache[n].kidPos[s])

\* n->height = max(height(left), height(right)) + 1
SetHeight(m, n) ==
  LET m1 == ReadKid(ReadKid(m, n, "l"), n, "r")
      l == Height(m1, m.cache[n].kid["l"])
      r == Height(m1, m.cache[n].kid["r"])
  IN  [m1 EXCEPT !.cache[n].height = 1 + (IF l > r THEN l ELSE r),
                 !.modified = @ \cup {n}]

Link(m, n, s, c, pos) == [m EXCEPT !.cache[n].kid[s] = c, !.cache[n].kidPos[s] = pos]

\* rightRotate (s = "l") and leftRotate (s = "r"): y's child x on side s takes
\* its place, and the subtree t of x changes over to y.
Rotate(m, y, s) ==
  LET x == m.cache[y].kid[s]
      t == m.cache[x].kid[Other(s)]
      tPos == IF t = 0 THEN NoPos ELSE m.cache[t].pos
      m1 == Link(Link(m, x, Other(s), y, m.cache[y].pos), y, s, t, tPos)
  IN  IF x \notin DOMAIN m.cache \/ t \notin DOMAIN m.cache \cup {0} THEN [m EXCEPT !.lost = TRUE]
      ELSE SetHeight(SetHeight(m1, y), x)

Result(m, top) == [m |-> m, top |-> top]

\* Mutation: an inner grandchild is treated as an outer one.
RebalanceOnce(m, n, k) ==
  LET kid == m.cache[n].kid
      balance == Height(m, kid["l"]) - Height(m, kid["r"])
      s == IF balance > 1 THEN "l" ELSE "r"
  IN  IF balance \in -1..1 \/ k = kid[s] THEN Result(m, n)
      ELSE Result(Rotate(m, n, s), kid[s])

\* The four cases of insert, at node n on the way back up.
Rebalance(m, n, k) ==
  LET kid == m.cache[n].kid
      balance == Height(m, kid["l"]) - Height(m, kid["r"])
      s == IF balance > 1 THEN "l" ELSE "r"
      c == kid[s]
      g == m.cache[c].kid[Other(s)]
      m1 == Rotate(m, c, Other(s))
  IN  IF balance \in -1..1 \/ k = c THEN Result(m, n)
      ELSE IF SideOf(k, c) = s THEN Result(Rotate(m, n, s), c)
      ELSE IF m1.lost THEN Result(m1, n)
      ELSE Result(Rotate(Link(m1, n, s, g, m1.cache[g].pos), n, s), g)

-----------------------------------------------------------------------------
NoNode == [key |-> 0, pos |-> NoPos]

Init ==
  /\ geo \in Geometry
  /\ store = [b \in Buckets |-> <<>>]
  /\ oram = NewORAM
  /\ root = NoNode /\ at = NoNode
  /\ pc = "idle" /\ op = None /\ path = <<>> /\ res = None

Stored == DOMAIN oram.cache \cup UNION {DOMAIN store[b] : b \in Buckets}

StartFind(k) ==
  /\ pc = "idle"
  /\ pc' = "find" /\ op' = [do |-> "find", key |-> k, value |-> None] /\ at' = root
  /\ UNCHANGED <<geo, store, oram, root, path, res>>

StartInsert(k, v) ==
  /\ pc = "idle"
  /\ pc' = "down" /\ op' = [do |-> "insert", key |-> k, value |-> v] /\ at' = root
  /\ UNCHANGED <<geo, store, oram, root, path, res>>

\* Go on at step p unless the tree lost a node: then the code dereferences
\* NULL or throws (a search calls a missing child a missing key).  An insert whose
\* new value is in the tree already ends as "broken".
Goto(p) == pc' = IF oram'.lost THEN "lost" ELSE p

AtNode == ReadNode(oram, at.key, at.pos)
Kid(m, n, k) == [key |-> m.cache[n].kid[SideOf(k, n)], pos |-> m.cache[n].kidPos[SideOf(k, n)]]
Next1(m) == IF m.lost THEN at ELSE Kid(m, at.key, op.key)

\* AVLTree::search.  OMAP::find of an empty map does not touch the ORAM.
FindMiss ==
  /\ pc = "find" /\ at.key = 0
  /\ pc' = IF root.key = 0 THEN "write" ELSE "finish"
  /\ UNCHANGED <<geo, store, oram, root, op, at, path, res>>

FindHit ==
  /\ pc = "find" /\ at.key = op.key
  /\ oram' = AtNode /\ Goto("finish")
  /\ res' = IF oram'.lost THEN None ELSE oram'.cache[at.key].value
  /\ UNCHANGED <<geo, store, root, op, at, path>>

FindDown ==
  /\ pc = "find" /\ at.key \notin {0, op.key}
  /\ oram' = AtNode /\ Goto("find")
  /\ at' = Next1(oram')
  /\ UNCHANGED <<geo, store, root, op, path, res>>

\* AVLTree::insert, on its way down.
InsertDown ==
  /\ pc = "down" /\ at.key \notin {0, op.key}
  /\ oram' = AtNode /\ Goto("down")
  /\ path' = <<at.key>> \o path
  /\ at' = Next1(oram')
  /\ UNCHANGED <<geo, store, root, op, res>>

InsertNew ==
  /\ pc = "down" /\ at.key = 0
  /\ \E leaf \in Leaves :
       /\ oram' = WriteNode(oram, op.key, NewNode(op.value, leaf))
       /\ at' = [key |-> op.key, pos |-> leaf]
  /\ pc' = "up"
  /\ UNCHANGED <<geo, store, root, op, path, res>>

InsertSame ==
  /\ pc = "down" /\ at.key = op.key
  /\ oram' = IF AtNode.lost THEN AtNode ELSE [AtNode EXCEPT !.cache[at.key].value = op.value]
  /\ Goto("up")
  /\ UNCHANGED <<geo, store, root, op, at, path, res>>

\* One return of the recursion: the node above takes the link, its height, and
\* a rotation if it is out of balance.
InsertUp ==
  /\ pc = "up" /\ path # <<>>
  /\ LET n == Head(path)
         m == SetHeight(Link(oram, n, SideOf(op.key, n), at.key, at.pos), n)
         up == IF m.lost THEN Result(m, n) ELSE Rebalance(m, n, op.key)
     IN  /\ oram' = up.m
         /\ at' = IF up.m.lost THEN at ELSE [key |-> up.top, pos |-> up.m.cache[up.top].pos]
  /\ path' = Tail(path) /\ pc' = IF oram'.lost THEN "broken" ELSE "up"
  /\ UNCHANGED <<geo, store, root, op, res>>

InsertDone ==
  /\ pc = "up" /\ path = <<>>
  /\ root' = at /\ pc' = "finish"
  /\ UNCHANGED <<geo, store, oram, op, at, path, res>>

\* finilize, up to the first WritePath.
Finish ==
  /\ pc = "finish"
  /\ \E pad \in Pads(oram, op.do = "find"), leafOf \in [oram.modified -> Leaves] :
       LET m == FetchPaths([oram EXCEPT !.leafList = @ \cup pad], pad)
       IN  oram' = [m EXCEPT !.cache = Refresh(m, leafOf)]
  /\ root' = [root EXCEPT !.pos = IF root.key \in DOMAIN oram'.cache
                                    THEN oram'.cache[root.key].pos ELSE @]
  /\ pc' = "write"
  /\ UNCHANGED <<geo, store, op, at, path, res>>

Write ==
  /\ pc = "write"
  /\ \E b \in Buckets : IsDeepest(b) /\ WriteBucket(b)
  /\ UNCHANGED <<geo, root, pc, op, at, path, res>>

Return ==
  /\ pc = "write" /\ Unwritten = {}
  /\ pc' = "idle" /\ op' = None /\ at' = NoNode /\ res' = None
  /\ oram' = Cleared(oram)
  /\ UNCHANGED <<geo, store, root, path>>

Next ==
  \/ \E k \in geo.keys : StartFind(k) \/ \E v \in geo.values : StartInsert(k, v)
  \/ FindMiss \/ FindHit \/ FindDown
  \/ InsertDown \/ InsertNew \/ InsertSame \/ InsertUp \/ InsertDone
  \/ Finish \/ Write \/ Return

Spec == Init /\ [][Next]_vars
-----------------------------------------------------------------------------
NodeKey == Key \cup {0}
Placing(key, pos) == key = 0 \/ pos \in Leaves   \* a node is somewhere
Nodes == {n \in [value : Value, pos : Leaves, height : Nat,
                 kid : [Side -> NodeKey], kidPos : [Side -> Leaves \cup {NoPos}]] :
            \A s \in Side : Placing(n.kid[s], n.kidPos[s])}
Blocks(f) == DOMAIN f \subseteq Key /\ f \in [DOMAIN f -> Nodes]
Place(p) == p \in [key : NodeKey, pos : Leaves \cup {NoPos}] /\ Placing(p.key, p.pos)
IsORAM(m) ==
  /\ m \in [cache : {m.cache}, leafList : SUBSET Leaves, readview : SUBSET Buckets,
            writeview : SUBSET Buckets, modified : SUBSET Key, readCnt : Nat, lost : BOOLEAN]
  /\ Blocks(m.cache)

\* The shape of every piece of state; a bucket holds at most Z blocks.
TypeOK ==
  /\ geo \in Geometry
  /\ DOMAIN store = Buckets
  /\ \A b \in Buckets : Blocks(store[b]) /\ Cardinality(DOMAIN store[b]) <= geo.Z
  /\ IsORAM(oram)
  /\ Place(root) /\ Place(at)
  /\ pc \in {"idle", "find", "down", "up", "finish", "write", "lost", "broken"}
  /\ pc = "idle" \/ op \in Calls
  /\ path \in Seq(Key)
  /\ res \in Value \cup {None}

\* No ReadNode of the tree comes back with NULL and no ReadNodeFromCache throws:
\* whatever moved where in the operations before, a parent always knows the path
\* its child is on.
NeverLost == pc \notin {"lost", "broken"}

\* The newest copy of a node: the cached one, then one written in this operation.
Newest(k) ==
  IF k \in DOMAIN oram.cache THEN oram.cache[k]
  ELSE LET Holding(bs) == {b \in bs : k \in DOMAIN store[b]}
           written == Holding(oram.writeview)
       IN  store[CHOOSE b \in IF written # {} THEN written ELSE Holding(Buckets) : TRUE][k]

\* Between operations there is one copy of every node, in the cache or on the
\* path to the leaf its only parent, or rootPos, records.
Placed ==
  pc = "idle" =>
    \A k \in Stored :
      LET pos == Newest(k).pos
          Holding == {b \in Buckets : k \in DOMAIN store[b]}
          Parents == {q \in Stored \X Side : Newest(q[1]).kid[q[2]] = k}
      IN  /\ Holding \subseteq Path(pos)
          /\ IF k \in DOMAIN oram.cache THEN Holding = {} ELSE Cardinality(Holding) = 1
          /\ IF k = root.key THEN Parents = {} /\ root.pos = pos
             ELSE /\ Cardinality(Parents) = 1
                  /\ \A q \in Parents : Newest(q[1]).kidPos[q[2]] = pos

\* Between operations every node's height is right and its subtrees differ in
\* height by one at most.
Balanced ==
  pc = "idle" =>
    LET HeightOf(k) == IF k = 0 THEN 0 ELSE Newest(k).height
    IN  \A k \in Stored :
          LET l == HeightOf(Newest(k).kid["l"])
              r == HeightOf(Newest(k).kid["r"])
          IN  /\ HeightOf(k) = 1 + (IF l > r THEN l ELSE r)
              /\ l - r \in -1..1

\* The fewest keys of a balanced tree of height h, and the geometries whose
\* maxHeightOfAVLTree no balanced tree of their keys is higher than (or where all
\* blocks have the one leaf for a position).
MinKeys[h \in Nat] == IF h < 2 THEN h ELSE 1 + MinKeys[h - 1] + MinKeys[h - 2]
HeightFits(g) ==
  \/ 2^g.depth = 1
  \/ /\ IsFiniteSet(g.keys)
     /\ \A h \in 0..Cardinality(g.keys) : MinKeys[h] <= Cardinality(g.keys) => h <= HeightBound(g)

\* No step drops a block: what a bucket held when it is overwritten is in the
\* cache or was written elsewhere.
NothingDropped == [][Stored \subseteq Stored']_vars

-----------------------------------------------------------------------------
\* The map the blocks stand for.
Contents == [k \in Stored |-> Newest(k).value]

Map == INSTANCE PlainMap WITH
         dict <- Contents,
         call <- op,
         answer <- IF pc \in {"up", "broken", "finish", "write"} THEN [value |-> res] ELSE None

\* The oblivious map implements a plain map: a find answers with the value of the
\* last insert of its key, however the tree was rotated and its blocks moved.
MapSpec == Map!Spec
=============================================================================
