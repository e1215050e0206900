------------------------------ MODULE PathORAM ------------------------------
(***************************************************************************)
(* The block store under the oblivious map (src/ROSE-2/OMAP/ORAM.cpp): a   *)
(* binary tree of buckets.  A block lies in a bucket on the path from the  *)
(* root to the leaf `pos' or waits in the cache; an operation fetches whole*)
(* paths into the cache, works there, gives the blocks it touched new      *)
(* random leaves and writes every path it fetched back.                    *)
(*                                                                         *)
(* The methods are operators from the state `m' of the ORAM object to its  *)
(* next state, for an operation of the tree above is a sequence of them.   *)
(***************************************************************************)
EXTENDS Integers, FiniteSets

CONSTANTS Key, Value, \* block identifiers (the code's 0 is no block), and contents
          Geometry    \* the instances: a depth, a bucket size, and what is inserted
ASSUME KeyAssumption == Key \subseteq Nat \ {0}
ASSUME GeometryAssumption ==
  Geometry \subseteq [depth : Nat, Z : Nat \ {0}, keys : SUBSET Key, values : SUBSET Value]

VARIABLES geo,    \* what the constructor computed from maxSize
          store,  \* RAMStore: bucket |-> its blocks
          oram    \* the object's fields that operations change

BlockCount(g) == (2^(g.depth + 1) - 1) * g.Z
Leaves == 0..(2^geo.depth - 1)            \* what RandomPath yields
GetNodeOnPath(leaf, d) == 2^d - 1 + leaf \div 2^(geo.depth - d)
Path(leaf) == {GetNodeOnPath(leaf, d) : d \in 0..geo.depth}
Paths(leaves) == UNION {Path(leaf) : leaf \in leaves}
Buckets == Paths(Leaves)

\* Mutation: the height of a full tree, without the level for the rest.
FullTreeHeight == CHOOSE h \in 0..BlockCount(geo) :
                    2^h <= BlockCount(geo) /\ BlockCount(geo) < 2^(h + 1)

HeightBound(g) == 1 + CHOOSE h \in 0..BlockCount(g) :
                        2^h <= BlockCount(g) /\ BlockCount(g) < 2^(h + 1)
maxHeightOfAVLTree == HeightBound(geo)

\* `lost': a ReadNode came back with NULL, or a ReadNodeFromCache threw.
NewORAM == [cache |-> <<>>, leafList |-> {}, readview |-> {}, writeview |-> {},
            modified |-> {}, readCnt |-> 0, lost |-> FALSE]

\* The blocks of buckets not read yet in this operation (there is one copy of
\* each); a block in the cache is newer than the one in its bucket.
FetchPaths(m, leaves) ==
  LET new == Paths(leaves) \ m.readview
      found == UNION {DOMAIN store[b] : b \in new}
      Home(k) == CHOOSE b \in new : k \in DOMAIN store[b]
  IN  [m EXCEPT !.readview = @ \cup new,
                !.cache = [k \in DOMAIN m.cache \cup found |->
                             IF k \in DOMAIN m.cache THEN m.cache[k] ELSE store[Home(k)][k]]]

FetchPath(m, leaf) == [FetchPaths(m, {leaf}) EXCEPT !.readCnt = @ + 1]

\* Mutation: the path of a block that is read is not marked to be written back.
ReadNodeUnlisted(m, k, leaf) ==
  LET m1 == IF k \in DOMAIN m.cache /\ leaf \in m.leafList THEN m ELSE FetchPath(m, leaf)
  IN  IF k = 0 THEN m
      ELSE IF k \notin DOMAIN m1.cache THEN [m1 EXCEPT !.lost = TRUE]
      ELSE [m1 EXCEPT !.cache[k].pos = leaf, !.modified = @ \cup {k}]

\* ReadNode with the Access it calls.
ReadNode(m, k, leaf) ==
  LET m1 == IF k \in DOMAIN m.cache /\ leaf \in m.leafList THEN m ELSE FetchPath(m, leaf)
  IN  IF k = 0 THEN m
      ELSE IF k \notin DOMAIN m1.cache THEN [m1 EXCEPT !.lost = TRUE]
      ELSE [m1 EXCEPT !.cache[k].pos = leaf,
                      !.leafList = @ \cup {leaf}, !.modified = @ \cup {k}]

\* WriteNode with the Access it calls: a node of the cache was changed in place.
WriteNode(m, k, node) ==
  LET m1 == FetchPath(m, node.pos)
  IN  IF k \in DOMAIN m.cache THEN [m EXCEPT !.modified = @ \cup {k}]
      ELSE [m1 EXCEPT !.cache = [j \in DOMAIN m1.cache \cup {k} |->
                                   IF j = k THEN node ELSE m1.cache[j]],
                      !.leafList = @ \cup {node.pos}, !.modified = @ \cup {k}]

-----------------------------------------------------------------------------
(* finilize *)

\* The random reads that hide how many the operation needed: i runs from
\* readCnt while i < depth * 1.45 in a find, i < 4.35 * depth in an insert.
Padding(m, find) == ((IF find THEN 145 ELSE 435) * geo.depth + 99) \div 100 - m.readCnt

Pads(m, find) == {pad \in SUBSET Leaves :
                    IF Padding(m, find) <= 0 THEN pad = {}
                    ELSE pad # {} /\ Cardinality(pad) <= Padding(m, find)}

\* Mutation: a moved block's parent is not told.
RefreshAlone(m, leafOf) ==
  [k \in DOMAIN m.cache |-> IF k \in m.modified THEN [m.cache[k] EXCEPT !.pos = leafOf[k]]
                            ELSE m.cache[k]]

\* The loop over heights: modified blocks move to new leaves, and every parent
\* in the cache, coming later, copies the positions of its children.
Refresh(m, leafOf) ==
  LET Reached(k) == m.cache[k].height \in 1..maxHeightOfAVLTree
      Pos(k) == IF Reached(k) /\ k \in m.modified THEN leafOf[k] ELSE m.cache[k].pos
      Told(n, c, old) == IF c \notin DOMAIN m.cache THEN old
                         ELSE IF m.cache[c].height < n.height THEN Pos(c) ELSE m.cache[c].pos
  IN  [k \in DOMAIN m.cache |->
         LET n == m.cache[k]
         IN  IF ~Reached(k) THEN n
             ELSE [n EXCEPT !.pos = Pos(k),
                            !.kidPos = [s \in {"l", "r"} |-> Told(n, n.kid[s], n.kidPos[s])]]]

\* WritePath: the deepest buckets first, each one once.
Unwritten == Paths(oram.leafList) \ oram.writeview
IsDeepest(b) == b \in Unwritten /\ \A c \in Unwritten : c <= b

\* GetIntersectingBlocks: Z of those whose path goes through the bucket, in the
\* order of a hash table.
Intersecting(b) == {k \in DOMAIN oram.cache : b \in Path(oram.cache[k].pos)}
\* Mutation: all of them.
ChosenAll(b) == {Intersecting(b)}

Chosen(b) == {S \in SUBSET Intersecting(b) :
                /\ Cardinality(S) <= geo.Z
                /\ Cardinality(S) = geo.Z \/ S = Intersecting(b)}

Sub(f, S) == [k \in S |-> f[k]]

\* Mutation: blocks that found no place leave the cache too.
WriteBucketErasing(b) ==
  \E S \in Chosen(b) :
    /\ store' = [store EXCEPT ![b] = Sub(oram.cache, S)]
    /\ oram' = [oram EXCEPT !.writeview = @ \cup {b},
                            !.cache = Sub(@, DOMAIN @ \ Intersecting(b))]

WriteBucket(b) ==
  \E S \in Chosen(b) :
    /\ store' = [store EXCEPT ![b] = Sub(oram.cache, S)]
    /\ oram' = [oram EXCEPT !.writeview = @ \cup {b},
                            !.cache = Sub(@, DOMAIN @ \ S)]

\* The end of finilize, and the start of the next operation.
Cleared(m) == [m EXCEPT !.leafList = {}, !.modified = {},
                        !.readview = {}, !.writeview = {}, !.readCnt = 0]
=============================================================================
