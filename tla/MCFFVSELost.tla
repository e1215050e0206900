---------------------------- MODULE MCFFVSELost ----------------------------
(***************************************************************************)
(* FFVSELost on a small instance.  The labels are made so that they meet   *)
(* early: entry 2 of epoch 1 has the label of entry 3 of epoch 0.          *)
(***************************************************************************)
EXTENDS FFVSELost

Digits(c) == 3 + c
Concat(c1, c2) == c1 * Digits(c2) + c2
=============================================================================
