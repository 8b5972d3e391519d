------------------------------ MODULE BondList ------------------------------
(***************************************************************************)
(* What the store of BR/EDR link keys promises the rest of the firmware: a  *)
(* list of bonds, oldest first, at most N long.  A new controller is added  *)
(* at the end and pushes out the oldest bond of a full list.  Pairing again *)
(* replaces the key in place; only the oldest bond of a full list becomes   *)
(* the newest by it.  A power cycle changes nothing.                        *)
(***************************************************************************)
EXTENDS Integers, Sequences

CONSTANTS N, Dev, Key, NegReply

VARIABLES
    bonds,   \* the bonds, oldest first
    reply    \* the last answer to a link key request

vars == <<bonds, reply>>

Bond == [addr : Dev, key : Key]

Init == bonds = <<>> /\ reply = NegReply

Pair(a, k) ==
    LET b == [addr |-> a, key |-> k]
        old == {i \in DOMAIN bonds : bonds[i].addr = a}
    IN  /\ bonds' = IF old = {} \/ (1 \in old /\ Len(bonds) = N)
                    THEN Append(IF Len(bonds) = N THEN Tail(bonds) ELSE bonds, b)
                    ELSE [i \in DOMAIN bonds |-> IF i \in old THEN b ELSE bonds[i]]
        /\ UNCHANGED reply

(* A controller that connected to us is authenticated with its bond; one    *)
(* that we connected to is paired anew.                                     *)
Request(a, paged) ==
    /\ reply' = LET B == {i \in DOMAIN bonds : bonds[i].addr = a}
                IN  IF paged /\ B # {} THEN bonds[CHOOSE i \in B : TRUE].key
                                       ELSE NegReply
    /\ UNCHANGED bonds

Next == \E a \in Dev : \/ \E k \in Key : Pair(a, k)
                       \/ \E p \in BOOLEAN : Request(a, p)

Spec == Init /\ [][Next]_vars
=============================================================================
