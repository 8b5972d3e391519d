------------------------------ MODULE MCLeKeys ------------------------------
(* LeKeys for TLC.                                                          *)
(*                                                                         *)
(* Only whether a key comes from the last pairing of its controller or from *)
(* the one before matters, not which of the two has number 0: exchanging    *)
(* the numbers of a controller everywhere changes no step and no property,  *)
(* and View tells apart no two states that differ in nothing else.          *)
EXTENDS LeKeys, TLC

CONSTANTS d1, d2, d3

Symmetry == Permutations(Dev \ LtkOnly)

KeyView(k) == IF k.dev \in Dev THEN [k EXCEPT !.round = (@ + round[k.dev]) % 2] ELSE k

RingView(r) ==
    [idx |-> r.idx,
     ent |-> [i \in Idx |-> [addr  |-> r.ent[i].addr,
                             ltk   |-> KeyView(r.ent[i].ltk),
                             ident |-> KeyView(r.ent[i].ident)]]]

View == <<RingView(ring), RingView(leFile), phase, cut, fileCut, fails, leFaults>>
=============================================================================
