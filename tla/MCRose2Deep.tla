---------------------------- MODULE MCRose2Deep ----------------------------
(* Rose2 on a tree with three levels of nodes, and the numbering of that tree. *)
EXTENDS Rose2Numbers
=============================================================================
