----------------------------- MODULE BtDevTable -----------------------------
(***************************************************************************)
(* The table of Bluetooth devices, bt_dev[BT_MAX_DEV] of bluetooth/host.c,  *)
(* and the functions that search and reset it.  A table is a function from  *)
(* slots to records; a search returns the first slot that matches, in the   *)
(* order of the loops in the code, or NoSlot (the code's -1).               *)
(*                                                                         *)
(* Of struct bt_dev only what decides which device an event reaches is kept:*)
(* the flags BT_DEV_DEVICE_FOUND and BT_DEV_PAGE, the address, the ACL      *)
(* handle and the retry counter.                                            *)
(***************************************************************************)
EXTENDS Integers

CONSTANTS
    MaxDev,     \* BT_MAX_DEV: number of slots
    MaxRetry,   \* BT_MAX_RETRY
    Addr,       \* addresses of the controllers within reach
    NoAddr,     \* the all-zero address of a slot that was reset
    Handle      \* connection handles the Bluetooth controller hands out

(***************************************************************************)
(* A slot that was reset holds acl_handle 0, and the code has no other way  *)
(* to tell that a device has no connection yet.  0 is a handle like any     *)
(* other to the controller: a search for it may stop at such a slot.        *)
(***************************************************************************)
ASSUME DevTableAssumption ==
    /\ MaxDev \in Nat \ {0}
    /\ MaxRetry \in Nat \ {0}
    /\ NoAddr \notin Addr
    /\ Handle \subseteq Nat

Slots == 0 .. MaxDev - 1
NoSlot == -1

DevRec == [found  : BOOLEAN,
           page   : BOOLEAN,
           addr   : Addr \cup {NoAddr},
           handle : Handle \cup {0},
           retry  : 0 .. MaxRetry - 1]

(* bt_host_reset_dev: the memset of the slot, and its initial contents. *)
ResetDev == [found |-> FALSE, page |-> FALSE, addr |-> NoAddr,
             handle |-> 0, retry |-> 0]

(* The slot the code's "for (i = 0; i < BT_MAX_DEV; i++)" loops stop at. *)
First(S) == IF S = {} THEN NoSlot
            ELSE CHOOSE i \in S : \A j \in S : i <= j

(* Mutant: takes a slot that has no connection for a free one. *)
GetNewDevNoLink(t) == First({i \in Slots : t[i].handle = 0})

(* bt_host_get_new_dev *)
GetNewDev(t) == First({i \in Slots : ~t[i].found})

(* bt_host_get_active_dev *)
GetActiveDev(t) == First({i \in Slots : t[i].found})

(* Mutant: the loop starts at 1. *)
GetDevFromBdaddrSkip(t, a) ==
    First({i \in Slots \ {0} : t[i].found /\ t[i].addr = a})

(* bt_host_get_dev_from_bdaddr *)
GetDevFromBdaddr(t, a) == First({i \in Slots : t[i].found /\ t[i].addr = a})

(* bt_host_get_dev_from_handle *)
GetDevFromHandle(t, h) == First({i \in Slots : t[i].found /\ t[i].handle = h})

(* What every discovery handler does with the slot it picked: reset it,     *)
(* store the address and mark it found.                                     *)
NewDev(a, paged) == [found |-> TRUE, page |-> paged, addr |-> a,
                     handle |-> 0, retry |-> 0]
=============================================================================
