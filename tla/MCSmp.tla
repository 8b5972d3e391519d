------------------------------- MODULE MCSmp --------------------------------
(* Instances of Smp for TLC: two slots, connected one after the other or at *)
(* the same time.                                                           *)
EXTENDS Smp
=============================================================================
