------------------------------- MODULE LeKeys -------------------------------
(***************************************************************************)
(* The LE keys: bt_host_le_link_keys of bluetooth/host.c, as the connection *)
(* and encryption events of bluetooth/hci.c, the key distribution of        *)
(* bluetooth/smp.c and the Switch 2 driver of bluetooth/hidp/sw2.c use it.  *)
(*                                                                         *)
(* A record is written in two stores, the long term key first and the       *)
(* identification (EDIV and Rand) second, by two packets of the controller; *)
(* other controllers pair, the link drops or the power fails in between.    *)
(* The first store of a new controller takes over a record and leaves the   *)
(* identification of its former owner in it.                                *)
(*                                                                         *)
(* Every store and every clear writes the whole ring to LE_LINK_KEYS_FILE.  *)
(* The file may not open, which nobody is told of, and the power may fail   *)
(* while it is written.  It is represented, as in LinkKeys, by what reading *)
(* it leaves in memory.                                                     *)
(***************************************************************************)
EXTENDS KeyRing

CONSTANTS
    LtkOnly,    \* the controllers of Dev that sw2.c pairs with
    Torn,       \* address or key only partly on flash
    MaxFaults   \* bound on the faults of the file

ASSUME LeKeysAssumption ==
    /\ LtkOnly \subseteq Dev
    /\ Torn \notin Dev \cup {NoDev}
    /\ MaxFaults \in Nat

VARIABLES
    ring,       \* bt_host_le_link_keys
    leFile,     \* LE_LINK_KEYS_FILE
    phase,      \* of each controller: how far its connection got
    round,      \* number of its last pairing, modulo 2
    cut,        \* history: controllers lost between their two keys
    fileCut,    \* history: those with one of two keys in the file
    fails,      \* history: failed encryptions since the last pairing
    leFaults    \* history: files that did not open, writes interrupted

leVars == <<ring, leFile, phase, round, cut, fileCut, fails, leFaults>>

(* A key is told by its controller and the pairing it comes from. *)
KeyId == [dev : Dev \cup {NoDev, Torn}, round : {0, 1}]
NoKey == [dev |-> NoDev, round |-> 0]
TornKey == [dev |-> Torn, round |-> 0]
Entry == [addr : Dev \cup {NoDev, Torn}, ltk : KeyId, ident : KeyId]
ZeroEntry == [addr |-> NoDev, ltk |-> NoKey, ident |-> NoKey]
Ring == [idx : Idx, ent : [Idx -> Entry]]
ZeroRing == [idx |-> 0, ent |-> [i \in Idx |-> ZeroEntry]]

Phase == {"off",      \* not connected
          "pair",     \* pairing, up to the encryption with its short term key
          "ltk",      \* encrypted, waiting for BT_SMP_CMD_ENCRYPT_INFO
          "ident",    \* waiting for BT_SMP_CMD_MASTER_IDENT
          "resume",   \* encryption with the stored keys was started
          "up"}

LeTypeOK ==
    /\ ring \in Ring /\ leFile \in Ring
    /\ phase \in [Dev -> Phase]
    /\ round \in [Dev -> {0, 1}]
    /\ cut \subseteq Dev /\ fileCut \subseteq Dev
    /\ fails \in [Dev -> Nat]
    /\ leFaults \in [open : 0 .. MaxFaults, torn : 0 .. MaxFaults]

(* The first boot creates the file from zeroed memory. *)
LeInit ==
    /\ ring = ZeroRing /\ leFile = ZeroRing
    /\ phase = [a \in Dev |-> "off"]
    /\ round = [a \in Dev |-> 0]
    /\ cut = {} /\ fileCut = {}
    /\ fails = [a \in Dev |-> 0]
    /\ leFaults = [open |-> 0, torn |-> 0]

(* bt_host_load_le_ltk finds a record. *)
KnownIn(r, a) == \E i \in Idx : r.ent[i].addr = a
Known(a) == KnownIn(ring, a)

NewKey(a) == [dev |-> a, round |-> round[a]]

(* One more fault is within the bound. *)
Fault(f) ==
    /\ leFaults.open + leFaults.torn < MaxFaults
    /\ leFaults' = [leFaults EXCEPT ![f] = @ + 1]

(* The ring after bt_host_store_le_ltk. *)
StoreLeLtk(a, k) ==
    LET i == SlotFor(ring, a)
    IN  [idx |-> NextIdx(ring, i),
         ent |-> [ring.ent EXCEPT ![i].ltk = k, ![i].addr = a]]

(* Mutant: the identification goes to the record at the index. *)
StoreLeIdentAtIndex(a, k) ==
    [idx |-> (ring.idx + 1) % N,
     ent |-> [ring.ent EXCEPT ![ring.idx].ident = k, ![ring.idx].addr = a]]

(* The ring after bt_host_store_le_ident. *)
StoreLeIdent(a, k) ==
    LET i == SlotFor(ring, a)
    IN  [idx |-> NextIdx(ring, i),
         ent |-> [ring.ent EXCEPT ![i].ident = k, ![i].addr = a]]

(* Mutant: the keys are cleared, their address is not. *)
ClearLeLtkKeysOnly(a) ==
    [ring EXCEPT !.ent = [i \in Idx |->
        IF @[i].addr = a THEN [ZeroEntry EXCEPT !.addr = a] ELSE @[i]]]

(* The ring after bt_host_clear_le_ltk: the index stays. *)
ClearLeLtk(a) ==
    [ring EXCEPT !.ent = [i \in Idx |->
        IF @[i].addr = a THEN ZeroEntry ELSE @[i]]]

(* What can be on flash of record e when the write stopped in it. *)
Cut(e) == {ZeroEntry,
           [addr |-> Torn,   ltk |-> NoKey,   ident |-> NoKey],
           [addr |-> e.addr, ltk |-> TornKey, ident |-> NoKey],
           [addr |-> e.addr, ltk |-> e.ltk,   ident |-> TornKey]}

(* The file with the records of r before record n, and e of record n. *)
Prefix(r, n, e) ==
    [idx |-> r.idx,
     ent |-> [i \in Idx |-> IF i < n THEN r.ent[i]
                            ELSE IF i = n THEN e ELSE ZeroEntry]]

(* The controllers that wait for their second key. *)
Waiting(ph) == {b \in Dev : ph[b] = "ident"}

(* bt_host_load_le_keys_from_file at boot; nobody is connected.             *)
LoadLeKeysFromFile ==
    /\ ring' = leFile'
    /\ cut' = fileCut'
    /\ phase' = [a \in Dev |-> "off"]

(* The end of every handler that stores or clears, with the ring r it made, *)
(* the phases ph it leaves and the controllers c cut short: the file takes  *)
(* the ring.                                                                *)
WriteFile(r, ph, c) ==
    /\ ring' = r /\ phase' = ph /\ cut' = c
    /\ leFile' = r /\ fileCut' = c \cup Waiting(ph)
    /\ UNCHANGED leFaults

(* The same when fopen fails: the file is as it was. *)
NoWrite(r, ph, c) ==
    /\ Fault("open")
    /\ ring' = r /\ phase' = ph /\ cut' = c
    /\ UNCHANGED <<leFile, fileCut>>

(* The same when power is lost in the write: nothing is left after "wb" cut *)
(* the old file, or the index and some of the records.  The next boot loads *)
(* what is there.                                                           *)
TornWrite(r, ph, c) ==
    /\ Fault("torn")
    /\ \/ leFile' = ZeroRing
       \/ \E n \in Idx : \E e \in Cut(r.ent[n]) : leFile' = Prefix(r, n, e)
    /\ fileCut' = c \cup Waiting(ph)
    /\ LoadLeKeysFromFile

(* bt_host_store_le_keys_on_file *)
StoreLeKeysOnFile(r, ph, c) ==
    WriteFile(r, ph, c) \/ NoWrite(r, ph, c) \/ TornWrite(r, ph, c)

(* No record is taken over between its two keys: the index would have to    *)
(* come round its 16 records between two packets of one controller, with at *)
(* most 7 connected.                                                        *)
NotOvertaking(a) ==
    LET b == ring.ent[SlotFor(ring, a)].addr
    IN  b \in Dev \ {a} => phase[b] # "ident"

-----------------------------------------------------------------------------
(* BT_HCI_EVT_LE_CONN_COMPLETE: encryption with the keys of the record, if  *)
(* there is one, and bt_smp_pairing_start otherwise.                        *)
ConnComplete(a) ==
    /\ phase[a] = "off"
    /\ phase' = [phase EXCEPT ![a] = IF Known(a) THEN "resume" ELSE "pair"]
    /\ UNCHANGED <<ring, leFile, round, cut, fileCut, fails, leFaults>>

(* BT_HCI_EVT_ENCRYPT_CHANGE, status 0.  After a pairing the controller     *)
(* sends its keys, unless its pairing response left the bit out.            *)
EncryptOk(a) ==
    /\ \/ phase[a] = "resume" /\ phase' = [phase EXCEPT ![a] = "up"]
       \/ phase[a] = "pair" /\ \E p \in {"ltk", "up"} : phase' = [phase EXCEPT ![a] = p]
    /\ UNCHANGED <<ring, leFile, round, cut, fileCut, fails, leFaults>>

(* BT_HCI_EVT_ENCRYPT_CHANGE with an error: the record is cleared and the   *)
(* link is dropped.                                                         *)
EncryptErr(a) ==
    /\ phase[a] \in {"resume", "pair"}
    /\ StoreLeKeysOnFile(ClearLeLtk(a), [phase EXCEPT ![a] = "off"], cut \ {a})
    /\ fails' = IF phase[a] = "resume" THEN [fails EXCEPT ![a] = @ + 1] ELSE fails
    /\ UNCHANGED round

(* BT_SMP_CMD_ENCRYPT_INFO *)
EncryptInfo(a) ==
    /\ phase[a] = "ltk"
    /\ NotOvertaking(a)
    /\ round' = [round EXCEPT ![a] = 1 - @]
    /\ StoreLeKeysOnFile(StoreLeLtk(a, [NewKey(a) EXCEPT !.round = 1 - @]),
                         [phase EXCEPT ![a] = "ident"], cut)
    /\ fails' = [fails EXCEPT ![a] = 0]

(* BT_SMP_CMD_MASTER_IDENT *)
MasterIdent(a) ==
    /\ phase[a] = "ident"
    /\ NotOvertaking(a)
    /\ StoreLeKeysOnFile(StoreLeIdent(a, NewKey(a)),
                         [phase EXCEPT ![a] = "up"], cut \ {a})
    /\ UNCHANGED <<round, fails>>

(* SW2_INIT_STATE_READ_NEW_LTK: a long term key, and no identification. *)
Sw2NewLtk(a) ==
    /\ a \in LtkOnly /\ phase[a] = "up"
    /\ NotOvertaking(a)
    /\ round' = [round EXCEPT ![a] = 1 - @]
    /\ StoreLeKeysOnFile(StoreLeLtk(a, [NewKey(a) EXCEPT !.round = 1 - @]), phase, cut)
    /\ fails' = [fails EXCEPT ![a] = 0]

(* The link of a goes down, at any moment. *)
Disconnect(a) ==
    /\ phase[a] # "off"
    /\ phase' = [phase EXCEPT ![a] = "off"]
    /\ cut' = cut \cup (Waiting(phase) \cap {a})
    /\ UNCHANGED <<ring, leFile, round, fileCut, fails, leFaults>>

(* A power cycle.  When the file cannot be opened the ring stays zero, and  *)
(* the file as it was.                                                      *)
Reboot ==
    /\ UNCHANGED <<leFile, fileCut, round, fails>>
    /\ \/ LoadLeKeysFromFile /\ UNCHANGED leFaults
       \/ /\ Fault("open")
          /\ ring' = ZeroRing /\ cut' = {}
          /\ phase' = [a \in Dev |-> "off"]

LeNext ==
    \/ \E a \in Dev :
        \/ ConnComplete(a) \/ EncryptOk(a) \/ EncryptErr(a)
        \/ EncryptInfo(a) \/ MasterIdent(a) \/ Sw2NewLtk(a)
        \/ Disconnect(a)
    \/ Reboot

LeSpec == LeInit /\ [][LeNext]_leVars

-----------------------------------------------------------------------------
(* Safety. *)

(* A controller has at most one record, through clears that leave holes in  *)
(* the ring, stores of half a record and torn files: bt_host_load_le_ltk    *)
(* never mixes the keys of two records.                                     *)
UniqueIn(r) ==
    \A i, j \in Idx : r.ent[i].addr \in Dev /\ r.ent[i].addr = r.ent[j].addr => i = j
LeUnique == UniqueIn(ring)

(* The long term key of a record is one of the controller of its address,   *)
(* unless its end is missing on flash.                                      *)
OwnIn(r) ==
    \A i \in Idx : r.ent[i].addr \in Dev =>
                      r.ent[i].ltk = TornKey \/ r.ent[i].ltk.dev = r.ent[i].addr
LtkOwn == OwnIn(ring)

(* Both keys of a record come from one pairing of its controller, except    *)
(* while the second key is on its way, when the link or the power was lost  *)
(* before it came (in a stale file that was loaded, before it came to the   *)
(* file), for the controllers that have no second key and for a record torn *)
(* on flash.                                                                *)
MatchIn(r, half) ==
    \A i \in Idx :
        LET e == r.ent[i]
        IN  e.addr \in Dev \ (LtkOnly \cup half) /\ TornKey \notin {e.ltk, e.ident}
                => e.ident = e.ltk
IdentMatches == MatchIn(ring, cut \cup Waiting(phase))

(* A record that is no good does not lock its controller out: encryption    *)
(* fails once with it, and the next connection pairs anew.  Only a file that*)
(* did not open when the record was cleared brings it back, once.           *)
NoLockOut == \A a \in Dev : fails[a] <= 1 + leFaults.open

-----------------------------------------------------------------------------
(* What makes them inductive. *)

(* A controller waiting for its second key has the first one stored. *)
HalfStored ==
    \A a \in Dev : phase[a] = "ident" =>
        \E i \in Idx : ring.ent[i].addr = a /\ ring.ent[i].ltk = NewKey(a)

(* Only controllers without a record are paired with. *)
PairsNew == \A a \in Dev : phase[a] \in {"pair", "ltk"} => ~Known(a)

(* Encryption fails with a record once, and the record is gone from the ring*)
(* and, unless it did not open, from the file.                              *)
FailedCleared ==
    \A a \in Dev :
        /\ fails[a] <= 1 + leFaults.open
        /\ phase[a] = "resume" \/ Known(a) \/ KnownIn(leFile, a)
                => fails[a] <= leFaults.open

LeIInv == /\ LeTypeOK
          /\ LeUnique /\ LtkOwn /\ IdentMatches
          /\ UniqueIn(leFile) /\ OwnIn(leFile) /\ MatchIn(leFile, fileCut)
          /\ HalfStored /\ PairsNew /\ FailedCleared
=============================================================================
