------------------------------ MODULE TxQueue -------------------------------
(***************************************************************************)
(* The way of a packet to the Bluetooth controller: bt_hci_cmd builds it in *)
(* bt_hci_pkt_tmp (bluetooth/hci.c), bt_host_txq_add copies it to the ring  *)
(* buffer and blocks while that is full, and bt_tx_task hands it to the     *)
(* controller (bluetooth/host.c).                                           *)
(*                                                                         *)
(* bt_hci_pkt_tmp is one buffer.  The callback that receives packets fills  *)
(* it, and so do bt_host_task and the timers of the HID drivers, which run  *)
(* in tasks of their own: between the two steps of one of them the other    *)
(* may put its own packet there.                                            *)
(***************************************************************************)
EXTENDS Integers, Sequences

CONSTANTS
    TxqCap      \* packets that fit in the ring buffer

ASSUME TxqAssumption == TxqCap \in Nat \ {0}

(* The callback of the controller, and the other tasks that send. *)
Ctx == {"rx", "task"}

VARIABLES
    todo,     \* packets each context has still to send: its handler goes on
    tmp,      \* bt_hci_pkt_tmp
    built,    \* contexts that filled bt_hci_pkt_tmp and have not sent it
    txq,      \* the ring buffer
    q         \* packets at the controller that it has not answered

txVars == <<todo, tmp, built, txq, q>>

(* Packets that are not commands, as all the fields of a command are used   *)
(* to tell them apart: the wait packet of bt_host_q_wait_pkt, data, and what*)
(* is left of two packets in one buffer.                                    *)
Blank(kind, p) == [p EXCEPT !.kind = kind]

TxInit(first) ==
    /\ todo = [c \in Ctx |-> IF c = "rx" THEN <<first>> ELSE <<>>]
    /\ tmp = Blank("none", first)
    /\ built = {}
    /\ txq = <<>>
    /\ q = <<>>

(* A handler is done when everything it sends is in the ring buffer. *)
Idle(c) == todo[c] = <<>>

(* bt_hci_cmd and the functions that fill bt_hci_pkt_tmp for it; a wait     *)
(* packet has a buffer of its own.                                          *)
Build(c) ==
    /\ ~Idle(c) /\ c \notin built
    /\ built' = built \cup {c}
    /\ tmp' = IF Head(todo[c]).kind = "wait" THEN tmp ELSE Head(todo[c])
    /\ UNCHANGED <<todo, txq, q>>

(* What bt_host_txq_add copies: what the context built, or, when another one*)
(* has been at the buffer, the packet of that one or a mixture.             *)
Copied(c) ==
    LET own == Head(todo[c])
    IN  IF own.kind = "wait" \/ tmp = own THEN {own} ELSE {tmp, Blank("garbled", own)}

(* Mutant: a packet is dropped when the ring buffer is full. *)
PutOrDrop(c, p) ==
    /\ txq' = IF Len(txq) < TxqCap THEN Append(txq, p) ELSE txq
    /\ todo' = [todo EXCEPT ![c] = Tail(@)]

(* xRingbufferSend with portMAX_DELAY. *)
Put(c, p) ==
    /\ Len(txq) < TxqCap
    /\ txq' = Append(txq, p)
    /\ todo' = [todo EXCEPT ![c] = Tail(@)]

bt_host_txq_add(c, p) ==
    /\ c \in built /\ p \in Copied(c)
    /\ Put(c, p)
    /\ built' = built \ {c}
    /\ UNCHANGED <<tmp, q>>

(* Mutant: a wait packet is not given back to the ring buffer. *)
KeepWait ==
    /\ txq # <<>> /\ Head(txq).kind # "wait"
    /\ txq' = Tail(txq)
    /\ q' = IF Head(txq).kind = "cmd" THEN Append(q, Head(txq)) ELSE q
    /\ UNCHANGED <<todo, tmp, built>>

(* bt_tx_task: a wait packet only delays it; BT_CTRL_READY is never cleared.*)
(* The controller does not answer data, and drops what is not a packet.     *)
bt_tx_task ==
    /\ txq # <<>>
    /\ txq' = Tail(txq)
    /\ q' = IF Head(txq).kind = "cmd" THEN Append(q, Head(txq)) ELSE q
    /\ UNCHANGED <<todo, tmp, built>>
=============================================================================
