----------------------------- MODULE MCHidSetup -----------------------------
(* Instances of HidSetup: one slot, connection after connection. *)
EXTENDS HidSetup
=============================================================================
