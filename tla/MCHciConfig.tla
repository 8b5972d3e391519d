---------------------------- MODULE MCHciConfig -----------------------------
(* HciConfig for TLC: a table with one step of each kind in the order of    *)
(* bt_hci_config[], and three records of LE keys, one of them unused.       *)
EXTENDS HciConfig, TLC

CONSTANTS a1, a2, a3

Table == <<"reset", "bdaddr", "clear_wl", "accept", "plain", "page_scan",
           "plain", "plain", "inquiry">>
Keys == <<a1, NoAddr, a2>>
=============================================================================
