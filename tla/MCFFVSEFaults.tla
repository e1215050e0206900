--------------------------- MODULE MCFFVSEFaults ---------------------------
(***************************************************************************)
(* FFVSEFaults on small instances, with the labels of MCFFVSE.             *)
(***************************************************************************)
EXTENDS FFVSEFaults, TLC

DigitsShift[n \in Nat] == IF n < 2 THEN 2 ELSE 2 * DigitsShift[n \div 2]
Concat(c1, c2) == c1 * DigitsShift[c2] + c2

\* Documents only differ by name.
Documents == Permutations(Id)
=============================================================================
