----------------------------- MODULE MCLinkKeys -----------------------------
(* Instances of LinkKeys for TLC. *)
EXTENDS LinkKeys, TLC

CONSTANTS a1, a2, a3, a4, k1, k2

Symmetry == Permutations(Dev) \cup Permutations(Key)
=============================================================================
