------------------------------ MODULE LinkKeys ------------------------------
(***************************************************************************)
(* The BR/EDR link keys: bt_host_link_keys and its file on flash            *)
(* (bluetooth/host.c), driven by the link key events of bluetooth/hci.c.    *)
(*                                                                         *)
(* The file is represented by what reading it leaves in memory: a file that *)
(* was cut short by a loss of power loads its prefix into zeroed memory.    *)
(* Every return value of the file functions is ignored by their callers.    *)
(***************************************************************************)
EXTENDS KeyRing, Sequences

CONSTANTS
    Key,        \* link keys
    NoKey,      \* the zero key of an unused record
    Torn,       \* address or key only partly on flash
    NegReply    \* BT_HCI_OP_LINK_KEY_NEG_REPLY

ASSUME LinkKeysAssumption ==
    /\ Torn \notin Dev \cup Key \cup {NoDev, NoKey, NegReply}
    /\ NegReply \notin Key

VARIABLES
    ring,    \* bt_host_link_keys
    file,    \* LINK_KEYS_FILE
    reply,   \* what the last link key request was answered
    given,   \* history: the keys the controller notified, with their address
    faults   \* history: "open", a file did not open; "cut", power lost in a write

vars == <<ring, file, reply, given, faults>>

Entry == [addr : Dev \cup {NoDev, Torn}, key : Key \cup {NoKey, Torn}]
Ring == [idx : Idx, ent : [Idx -> Entry]]

TypeOK ==
    /\ ring \in Ring
    /\ file \in Ring
    /\ reply \in Key \cup {NoKey, Torn, NegReply}
    /\ given \in SUBSET (Dev \X Key)
    /\ faults \subseteq {"open", "cut"}

ZeroEntry == [addr |-> NoDev, key |-> NoKey]
ZeroRing == [idx |-> 0, ent |-> [i \in Idx |-> ZeroEntry]]

(* The first boot creates the file from zeroed memory. *)
Init ==
    /\ ring = ZeroRing
    /\ file = ZeroRing
    /\ reply = NegReply
    /\ given = {}
    /\ faults = {}

(* bt_host_load_link_key: the last record with this address. *)
LoadLinkKey(a) ==
    LET i == SlotFor(ring, a)
    IN  IF ring.ent[i].addr = a THEN ring.ent[i].key ELSE NegReply

(* Mutant: only the address is copied. *)
PutAddrOnly(r, a, k) ==
    LET i == SlotFor(r, a)
    IN  [idx |-> NextIdx(r, i), ent |-> [r.ent EXCEPT ![i].addr = a]]

(* The ring with key k stored for a. *)
Put(r, a, k) ==
    LET i == SlotFor(r, a)
    IN  [idx |-> NextIdx(r, i),
         ent |-> [r.ent EXCEPT ![i] = [addr |-> a, key |-> k]]]

(* bt_host_store_keys_on_file; fopen may fail. *)
StoreKeysOnFile(r) ==
    \/ file' = r /\ UNCHANGED faults
    \/ UNCHANGED file /\ faults' = faults \cup {"open"}

(* BT_HCI_EVT_LINK_KEY_NOTIFY: bt_host_store_link_key. *)
StoreLinkKey(a, k) ==
    /\ ring' = Put(ring, a, k)
    /\ StoreKeysOnFile(ring')
    /\ given' = given \cup {<<a, k>>}
    /\ UNCHANGED reply

(* BT_HCI_EVT_LINK_KEY_REQ; the flag BT_DEV_PAGE tells that the controller  *)
(* connected to us.                                                         *)
LinkKeyReq(a, paged) ==
    /\ reply' = IF paged THEN LoadLinkKey(a) ELSE NegReply
    /\ UNCHANGED <<ring, file, given, faults>>

(* bt_host_load_keys_from_file at boot.  When the file cannot be opened the *)
(* ring stays zero, and the file as it was.                                 *)
Reboot ==
    /\ \/ ring' = file /\ UNCHANGED faults
       \/ ring' = ZeroRing /\ faults' = faults \cup {"open"}
    /\ UNCHANGED <<file, reply, given>>

(* What can be on flash of record e when the write stopped in it. *)
Cut(e) == {ZeroEntry,
           [addr |-> Torn, key |-> NoKey],
           [addr |-> e.addr, key |-> Torn]}

(* The file with the records of r before record n, and e of record n. *)
Prefix(r, n, e) ==
    [idx |-> r.idx,
     ent |-> [i \in Idx |-> IF i < n THEN r.ent[i]
                            ELSE IF i = n THEN e ELSE ZeroEntry]]

(* Power is lost while bt_host_store_link_key writes the file: nothing is   *)
(* left after "wb" cut the old one, or the index and some of the records.   *)
(* The next boot loads what is there.                                       *)
CrashInStore(a, k) ==
    /\ LET r == Put(ring, a, k)
       IN  \/ file' = ZeroRing
           \/ \E n \in Idx : \E e \in Cut(r.ent[n]) : file' = Prefix(r, n, e)
    /\ ring' = file'
    /\ given' = given \cup {<<a, k>>}
    /\ faults' = faults \cup {"cut"}
    /\ UNCHANGED reply

Next ==
    \/ \E a \in Dev, k \in Key : StoreLinkKey(a, k) \/ CrashInStore(a, k)
    \/ \E a \in Dev, p \in BOOLEAN : LinkKeyReq(a, p)
    \/ Reboot

Spec == Init /\ [][Next]_vars

-----------------------------------------------------------------------------
(* Safety. *)

(* A controller has at most one record, so that the first and the last match*)
(* of the search loops are the same one and no old key survives a new       *)
(* pairing, whatever was lost on flash.                                     *)
UniqueIn(r) ==
    \A i, j \in Idx : r.ent[i].addr \in Dev /\ r.ent[i].addr = r.ent[j].addr
                          => i = j
KeyUnique == UniqueIn(ring)

(* A key in the ring, unless its end is missing on flash, was given for the *)
(* address of its record: no order of evictions, lost writes and torn files *)
(* puts one controller's key in the record of another.                      *)
GenuineIn(r) ==
    \A i \in Idx : r.ent[i].addr \in Dev =>
        r.ent[i].key = Torn \/ <<r.ent[i].addr, r.ent[i].key>> \in given
KeysGenuine == GenuineIn(ring)

(* Every record of a full ring is in use; before that, the ones below the   *)
(* index are.                                                               *)
Full(r) == r.ent[N - 1].addr # NoDev

(* The bonds of ring r in the order they will be overwritten. *)
BondsOf(r) ==
    IF Full(r) THEN [j \in 1 .. N |-> r.ent[(r.idx + j - 1) % N]]
               ELSE [j \in 1 .. r.idx |-> r.ent[j - 1]]

Abstract == INSTANCE BondList WITH bonds <- BondsOf(ring)

(* Up to the first fault the ring and its file behave as the list of bonds: *)
(* bonds leave in the order they came, requests get the newest key, power   *)
(* cycles lose nothing.                                                     *)
ImplementsBondList ==
    Abstract!Init /\ [][faults' # {} \/ [Abstract!Next]_(Abstract!vars)]_vars

(* The inductive invariant: the file is no worse than the ring. *)
IInv == /\ TypeOK
        /\ UniqueIn(ring) /\ UniqueIn(file)
        /\ GenuineIn(ring) /\ GenuineIn(file)
=============================================================================
