------------------------------ MODULE MCBtHci -------------------------------
(* Instances of BtHci for TLC: the addresses are model values, those of one *)
(* kind are interchangeable.                                                *)
EXTENDS BtHci, TLC

CONSTANTS b1, b2, b3, l1, l2

Symmetry == Permutations(BrAddr) \cup Permutations(LeAddr)
=============================================================================
