----------------------------- MODULE MCOMAPTall -----------------------------
(***************************************************************************)
(* OMAP filled up to its capacity with the keys of the highest AVL tree    *)
(* there is of that many, and with the buckets of the code (Z = 4).  Of    *)
(* the choices left to chance one is taken while the tree is filled: the   *)
(* leaf is 0, and a hash table yields its lowest keys first.               *)
(***************************************************************************)
EXTENDS OMAP

MCGeometry == {[depth |-> 1, Z |-> 4, keys |-> Key, values |-> Value]}

\* Level by level: no rotation takes place.
Order == <<8, 5, 11, 3, 7, 10, 12, 2, 4, 6, 9, 1>>

Filling == Cardinality(Stored) < Len(Order)

FillNext ==
  /\ Next
  /\ Filling => /\ pc = "idle" => op'.do = "insert" /\ op'.key = Order[Cardinality(Stored) + 1]
                /\ \A k \in DOMAIN oram'.cache : oram'.cache[k].pos = 0
                /\ oram'.leafList \subseteq {0}
  /\ \A b \in Buckets : store'[b] # store[b] =>
       \A k \in DOMAIN store'[b], j \in DOMAIN oram'.cache : b \in Path(oram'.cache[j].pos) => k < j

FillSpec == Init /\ [][FillNext]_vars

\* ORAM.cpp:308: "we assume that the use does not insert more than OMAP capacity",
\* and with that no node is higher than maxHeightOfAVLTree and none is lost.
CapacitySuffices == Cardinality(Stored) <= BlockCount(geo) => pc \notin {"lost", "broken"}
=============================================================================
