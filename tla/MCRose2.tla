------------------------------ MODULE MCRose2 ------------------------------
(* Rose2 with the bounds of its configurations. *)
EXTENDS Rose2
=============================================================================
