------------------------------- MODULE MCFVSE -------------------------------
(***************************************************************************)
(* FVSE with one and with two threads, several batches of two keywords, a  *)
(* killed client or a failing stream, and what is left on the way.         *)
(***************************************************************************)
EXTENDS FVSE, TLC

CONSTANTS k1, k2

Keywords == Permutations(Keyword)
=============================================================================
