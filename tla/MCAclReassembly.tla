-------------------------- MODULE MCAclReassembly ---------------------------
(* Instances of AclReassembly for TLC; connections are interchangeable. *)
EXTENDS AclReassembly, TLC

CONSTANTS c1, c2, c3

Symmetry == Permutations(Conn)
=============================================================================
