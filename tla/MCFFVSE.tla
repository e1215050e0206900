------------------------------ MODULE MCFFVSE ------------------------------
(***************************************************************************)
(* FFVSE on small instances.  The labels are the numbers the concatenated  *)
(* counters denote, in radix 2 instead of 10: "11" . "0" and "1" . "10"    *)
(* are then the same label, so that entry 3 of epoch 0 and entry 1 of      *)
(* epoch 2 collide within the bounds, as entry 11 of epoch 1 and entry 1   *)
(* of epoch 11 do in the code.                                             *)
(***************************************************************************)
EXTENDS FFVSE

DigitsShift[n \in Nat] == IF n < 2 THEN 2 ELSE 2 * DigitsShift[n \div 2]
Concat(c1, c2) == c1 * DigitsShift[c2] + c2
=============================================================================
