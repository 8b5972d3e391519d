------------------------------ MODULE KeyRing -------------------------------
(***************************************************************************)
(* The ring of 16 records in which bluetooth/host.c keeps the keys of the   *)
(* controllers it was paired with.  The BR/EDR keys (bt_host_link_keys) and *)
(* the LE keys (bt_host_le_link_keys) are two rings of the same shape: the  *)
(* records, the first field of each an address, and the index of the record *)
(* the next new controller takes.                                           *)
(***************************************************************************)
EXTENDS Integers

CONSTANTS
    N,      \* the number of records, 16 in the code
    Dev,    \* addresses of controllers
    NoDev   \* the all-zero address of an unused record

ASSUME RingAssumption ==
    /\ N \in Nat \ {0}
    /\ NoDev \notin Dev

Idx == 0 .. N - 1

(* The record a store for address a writes: the last one the search loop    *)
(* finds with this address, or the one at the index.                        *)
SlotFor(r, a) ==
    LET M == {i \in Idx : r.ent[i].addr = a}
    IN  IF M = {} THEN r.idx ELSE CHOOSE i \in M : \A j \in M : j <= i

(* Mutant: the index follows every store. *)
NextIdxAlways(r, i) == (r.idx + 1) % N

(* The index moves on when the record it names was written; "& 0xF". *)
NextIdx(r, i) == IF i = r.idx THEN (r.idx + 1) % N ELSE r.idx
=============================================================================
