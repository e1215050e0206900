------------------------------- MODULE MCOMAP -------------------------------
(***************************************************************************)
(* OMAP on four instances: seven keys in a single bucket (every shape of   *)
(* tree, every rotation), two values and overfull buckets of one block,    *)
(* four keys in buckets of two, and a tree of buckets with an inner level. *)
(***************************************************************************)
EXTENDS OMAP

CONSTANTS a, b

Instance(depth, Z, keys, values) == [depth |-> depth, Z |-> Z, keys |-> keys, values |-> values]

MCGeometry == {Instance(0, 7, 1..7, {a}), Instance(1, 1, 1..3, {a, b}),
               Instance(1, 2, 1..4, {a}), Instance(2, 1, 1..2, {a})}

\* No tree of theirs is higher than maxHeightOfAVLTree: what OMAPPlacedProofs
\* proves is about these, and the instance of MCOMAPTall is not one of them.
ASSUME InstancesFit == \A g \in MCGeometry : HeightFits(g)
=============================================================================
