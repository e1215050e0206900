------------------------------- MODULE MCRose -------------------------------
(* Rose with the bounds of its configurations. *)
EXTENDS Rose
=============================================================================
