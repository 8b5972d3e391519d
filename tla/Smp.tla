-------------------------------- MODULE Smp ---------------------------------
(***************************************************************************)
(* LE pairing: bluetooth/smp.c, and the two queues of bluetooth/hci.c that  *)
(* match the answers of the Bluetooth controller to LE_RAND and LE_ENCRYPT  *)
(* with the device and the callback they are for.                           *)
(*                                                                         *)
(* The pairing of a device is a chain of callbacks: two random numbers, two *)
(* encryptions for the confirm value, and one for the short term key.  All  *)
(* devices share the queues, and an entry is matched by its place alone: an *)
(* answer is for the entry at the head.  Entries point to a slot of         *)
(* bt_dev[], whoever uses it when the answer comes.                         *)
(*                                                                         *)
(* Values are terms: a random number is named by the connection that asked  *)
(* for it, a value that was encrypted by what went in.  The peer is a       *)
(* regular SMP responder that checks the confirm value; it takes a message  *)
(* when it is sent, and its answer may be on its way for any time.          *)
(***************************************************************************)
EXTENDS Integers, Sequences

CONSTANTS
    Slot,       \* slots of bt_dev[]
    QCap,       \* entries that fit in randq, and in encryptq
    Dists,      \* key distributions a peer may choose, sets of Key
    MaxConn,    \* bound on the number of connections
    MaxFail     \* bound on the commands of each kind that fail

Key == {"enc", "id", "sign"}    \* BT_SMP_DIST_ENC_KEY, ID_KEY, SIGN

ASSUME SmpAssumption ==
    /\ QCap \in Nat \ {0}
    /\ Dists \subseteq SUBSET Key
    /\ MaxConn \in Nat /\ MaxFail \in Nat

Conn == 1 .. MaxConn
NoConn == 0

VARIABLES
    dev,      \* bt_dev[]: the fields of a pairing
    conns,    \* number of connections so far
    zero,     \* connection whose handle is 0
    randq, encryptq,      \* entries: slot and callback
    randCmd, encryptCmd,  \* commands under way: slot that asked, and value
    peer,     \* state of each peer
    rx,       \* messages and events of each connection, on their way to us
    lost,     \* history: LE_RAND and LE_ENCRYPT commands that failed
    odd,      \* history: connections in a slot with old entries, or that got
              \* a message of such a slot
    full,     \* history: connections whose request found its queue full
    dist      \* history: key distributions, per connection

queues == <<randq, encryptq, randCmd, encryptCmd>>
hist == <<lost, odd, full, dist>>
vars == <<dev, conns, zero, queues, peer, rx, hist>>

RandCb == {"mrand_half", "mrand_complete"}
EncryptCb == {"confirm_half", "confirm_complete", "stk_complete"}

(* Random numbers: half h of the connection n. *)
Random(n, h) == 2 * n + h - 2
Half == 0 .. 2 * MaxConn

(* Values of 16 bytes: what they are, of which random number, and of which  *)
(* connection the rest of the input is.                                     *)
Value == [f : {"none", "p1", "half", "p2", "confirm", "r", "stk", "junk"},
          r : Half \X Half, of : 0 .. MaxConn]
NoValue == [f |-> "none", r |-> <<0, 0>>, of |-> NoConn]

(* The function e of the controller. *)
Encrypted(v) ==
    [v EXCEPT !.f = CASE @ = "p1" -> "half" [] @ = "p2" -> "confirm" [] @ = "r" -> "stk"
                      [] OTHER -> "junk"]

Device == [st : {"free", "found", "up"}, conn : 0 .. MaxConn, rand : Half \X Half,
           rrand : 0 .. MaxConn, pres : 0 .. MaxConn, ltk : Value, rdist : SUBSET Key,
           flags : SUBSET {"intr_pending"}]    \* BT_DEV_HID_INTR_PENDING
Reset == [st |-> "free", conn |-> NoConn, rand |-> <<0, 0>>, rrand |-> NoConn, pres |-> NoConn,
          ltk |-> NoValue, rdist |-> {}, flags |-> {}]

PeerSt == {"off", "confirm", "random", "encrypt", "up", "failed"}
Peer == [st : PeerSt, dist : SUBSET Key, confirm : Value, stk : Value]
PeerOff == [st |-> "off", dist |-> {}, confirm |-> NoValue, stk |-> NoValue]

Message == {"pairing_rsp", "pairing_confirm", "pairing_random", "pairing_fail",
            "encrypt_info", "master_ident", "ident_addr_info", "signing_info",
            "encrypt_change", "encrypt_error"}

QueuesTyped ==
    /\ randq \in Seq([slot : Slot, cb : RandCb]) /\ Len(randq) <= QCap
    /\ encryptq \in Seq([slot : Slot, cb : EncryptCb]) /\ Len(encryptq) <= QCap
    /\ randCmd \in Seq([slot : Slot, val : Half])
    /\ encryptCmd \in Seq([slot : Slot, val : Value])
    /\ lost \in [{"rand", "encrypt"} -> 0 .. MaxFail]

TypeOK ==
    /\ QueuesTyped
    /\ dev \in [Slot -> Device]
    /\ conns \in 0 .. MaxConn
    /\ zero \in 0 .. MaxConn
    /\ peer \in [Conn -> Peer]
    /\ rx \in [Conn -> Seq(Message)]
    /\ odd \subseteq Conn /\ full \subseteq Conn
    /\ dist \in [Conn -> Nat]

Init ==
    /\ dev = [d \in Slot |-> Reset]
    /\ conns = 0 /\ zero = NoConn
    /\ randq = <<>> /\ encryptq = <<>> /\ randCmd = <<>> /\ encryptCmd = <<>>
    /\ peer = [n \in Conn |-> PeerOff]
    /\ rx = [n \in Conn |-> <<>>]
    /\ lost = [k \in {"rand", "encrypt"} |-> 0]
    /\ odd = {} /\ full = {}
    /\ dist = [n \in Conn |-> 0]

-----------------------------------------------------------------------------
(* The peer (external). *)

(* Whoever a message of slot d reaches: the handle of a slot that was reset *)
(* is 0.                                                                    *)
Target(d) == IF dev[d].st = "up" THEN dev[d].conn ELSE zero

(* in: what is on its way from it already. *)
Fails(n, in) == /\ peer' = [peer EXCEPT ![n].st = "failed"]
                /\ rx' = [rx EXCEPT ![n] = Append(in, "pairing_fail")]

(* It gets a confirm value. *)
PeerConfirm(n, v) ==
    IF peer[n].st = "confirm"
    THEN /\ peer' = [peer EXCEPT ![n].st = "random", ![n].confirm = v]
         /\ rx' = [rx EXCEPT ![n] = Append(@, "pairing_confirm")]
    ELSE Fails(n, rx[n])

(* It gets the random number, and checks it. *)
PeerRandom(n, r, in) ==
    IF peer[n].st = "random" /\ peer[n].confirm = [f |-> "confirm", r |-> r, of |-> n]
    THEN /\ peer' = [peer EXCEPT ![n].st = "encrypt",
                                 ![n].stk = [f |-> "stk", r |-> r, of |-> n]]
         /\ rx' = [rx EXCEPT ![n] = Append(in, "pairing_random")]
    ELSE Fails(n, in)

(* Its keys, in the order they are sent. *)
KeysOf(s) == (IF "enc" \in s THEN <<"encrypt_info", "master_ident">> ELSE <<>>)
             \o (IF "id" \in s THEN <<"ident_addr_info">> ELSE <<>>)
             \o (IF "sign" \in s THEN <<"signing_info">> ELSE <<>>)

(* LE_START_ENCRYPTION: both ends must have the same key. *)
PeerEncrypt(n, v) ==
    IF peer[n].st = "encrypt" /\ peer[n].stk = v
    THEN /\ peer' = [peer EXCEPT ![n].st = "up"]
         /\ rx' = [rx EXCEPT ![n] = @ \o <<"encrypt_change">> \o KeysOf(peer[n].dist)]
    ELSE /\ peer' = [peer EXCEPT ![n].st = "failed"]
         /\ rx' = [rx EXCEPT ![n] = Append(@, "encrypt_error")]

-----------------------------------------------------------------------------
(* The queues of hci.c. *)

(* Mutant: the command is sent although the queue is full. *)
AcceptedAlways(q) == TRUE

(* xRingbufferSend finds room; otherwise nothing is sent and -1 is ignored. *)
Accepted(q) == Len(q) < QCap

(* The queue after xRingbufferSend. *)
Queued(q, e) == IF Len(q) < QCap THEN Append(q, e) ELSE q

(* bt_hci_get_random, twice: the second one may be the one that finds the   *)
(* queue full.                                                              *)
GetRandoms(d, n) ==
    LET q1 == Queued(randq, [slot |-> d, cb |-> "mrand_half"])
        c1 == IF Accepted(randq) THEN Append(randCmd, [slot |-> d, val |-> Random(n, 1)])
                                 ELSE randCmd
    IN  /\ randq' = Queued(q1, [slot |-> d, cb |-> "mrand_complete"])
        /\ randCmd' = IF Accepted(q1) THEN Append(c1, [slot |-> d, val |-> Random(n, 2)]) ELSE c1
        /\ full' = IF Accepted(q1) THEN full ELSE full \cup {n}

(* bt_hci_get_encrypt, with q the queue without the entry that is handled. *)
GetEncrypt(q, cmds, d, cb, v) ==
    /\ encryptq' = Queued(q, [slot |-> d, cb |-> cb])
    /\ encryptCmd' = IF Accepted(q) THEN Append(cmds, [slot |-> d, val |-> v]) ELSE cmds
    /\ full' = IF Accepted(q) THEN full ELSE full \cup ({dev[d].conn} \ {NoConn})

Stray(d) == IF dev[d].st = "up" THEN odd ELSE odd \cup ({zero} \ {NoConn})

-----------------------------------------------------------------------------
(* Connections. *)

(* An advertising report: bt_host_get_new_dev and bt_host_reset_dev. *)
Found(d) ==
    /\ dev[d].st = "free"
    /\ dev' = [dev EXCEPT ![d] = [Reset EXCEPT !.st = "found"]]
    /\ UNCHANGED <<conns, zero, queues, peer, rx, hist>>

(* BT_HCI_EVT_LE_CONN_COMPLETE for a device without keys:                   *)
(* bt_smp_pairing_start, and the peer answers.  z: it gets the handle 0.    *)
ConnComplete(d, z, ks) ==
    LET n == conns + 1
    IN  /\ dev[d].st = "found"
        /\ n <= MaxConn
        /\ z => zero = NoConn
        /\ conns' = n
        /\ zero' = IF z THEN n ELSE zero
        /\ dev' = [dev EXCEPT ![d].st = "up", ![d].conn = n]
        /\ peer' = [peer EXCEPT ![n] = [@ EXCEPT !.st = "confirm", !.dist = ks]]
        /\ rx' = [rx EXCEPT ![n] = <<"pairing_rsp">>]
        /\ odd' = IF \/ \E i \in 1 .. Len(randq) : randq[i].slot = d
                     \/ \E i \in 1 .. Len(encryptq) : encryptq[i].slot = d
                  THEN odd \cup {n} ELSE odd
        /\ UNCHANGED <<queues, lost, full, dist>>

(* The connection is given up: bt_host_reset_dev. *)
ConnFailed(d) ==
    /\ dev[d].st = "found"
    /\ dev' = [dev EXCEPT ![d] = Reset]
    /\ UNCHANGED <<conns, zero, queues, peer, rx, hist>>

(* BT_HCI_EVT_DISCONN_COMPLETE: bt_host_reset_dev; the entries stay. *)
DisconnComplete(d) ==
    /\ dev[d].st = "up"
    /\ LET n == dev[d].conn
       IN  /\ dev' = [dev EXCEPT ![d] = Reset]
           /\ zero' = IF zero = n THEN NoConn ELSE zero
           /\ peer' = [peer EXCEPT ![n] = PeerOff]
           /\ rx' = [rx EXCEPT ![n] = <<>>]
    /\ UNCHANGED <<conns, queues, hist>>

-----------------------------------------------------------------------------
(* bt_smp_hdlr: the message at the head of rx of the connection in slot d. *)

Got(d, m) == dev[d].st = "up" /\ rx[dev[d].conn] # <<>> /\ Head(rx[dev[d].conn]) = m
Rest(d) == Tail(rx[dev[d].conn])
Taken(d) == rx' = [rx EXCEPT ![dev[d].conn] = Tail(@)]

(* BT_SMP_CMD_PAIRING_RSP *)
PairingRsp(d) ==
    /\ Got(d, "pairing_rsp")
    /\ LET n == dev[d].conn
       IN  /\ dev' = [dev EXCEPT ![d].rdist = peer[n].dist, ![d].pres = n]
           /\ GetRandoms(d, n)
    /\ Taken(d)
    /\ UNCHANGED <<conns, zero, encryptq, encryptCmd, peer, lost, odd, dist>>

(* BT_SMP_CMD_PAIRING_CONFIRM: its value is not looked at. *)
PairingConfirm(d) ==
    /\ Got(d, "pairing_confirm")
    /\ PeerRandom(dev[d].conn, dev[d].rand, Rest(d))
    /\ UNCHANGED <<dev, conns, zero, queues, hist>>

(* bt_smp_key_distribution, when no key is left to come; it ends in         *)
(* bt_att_hid_init, which sets BT_DEV_HID_INTR_PENDING.                     *)
AttHidInit(fl, keys) == IF keys = {} THEN {"intr_pending"} ELSE fl

Distribute(d, keys) ==
    /\ dev' = [dev EXCEPT ![d].rdist = keys, ![d].flags = AttHidInit(@, keys)]
    /\ dist' = IF keys = {} THEN [dist EXCEPT ![dev[d].conn] = @ + 1] ELSE dist

(* Mutant: the short term key is made of our own random number only. *)
StkInputOwn(d) == [f |-> "r", r |-> dev[d].rand, of |-> NoConn]

(* smp_s1: the halves of both random numbers. *)
StkInput(d) == [f |-> "r", r |-> dev[d].rand, of |-> dev[d].conn]

(* BT_SMP_CMD_PAIRING_RANDOM *)
PairingRandom(d) ==
    /\ Got(d, "pairing_random")
    /\ GetEncrypt(encryptq, encryptCmd, d, "stk_complete", StkInput(d))
    /\ LET up == [dev[d] EXCEPT !.rrand = dev[d].conn, !.ltk = StkInput(d),
                                !.flags = AttHidInit(@, dev[d].rdist)]
       IN  dev' = [dev EXCEPT ![d] = up]
    /\ dist' = IF dev[d].rdist = {} THEN [dist EXCEPT ![dev[d].conn] = @ + 1] ELSE dist
    /\ Taken(d)
    /\ UNCHANGED <<conns, zero, randq, randCmd, peer, lost, odd>>

(* Mutant: nobody looks whether other keys are to come. *)
RemainingNone(d, m) == {}

(* Mutant: the bit of the key is not cleared. *)
RemainingSame(d, m) == dev[d].rdist

(* The keys that are still to come after the message m. *)
Remaining(d, m) ==
    dev[d].rdist \ (CASE m = "master_ident" -> {"enc"}
                      [] m = "ident_addr_info" -> {"id"}
                      [] m = "signing_info" -> {"sign"})

(* BT_SMP_CMD_MASTER_IDENT, IDENT_ADDR_INFO and SIGNING_INFO; the key store *)
(* of the first is part of LeKeys.                                          *)
KeyReceived(d) ==
    \E m \in {"master_ident", "ident_addr_info", "signing_info"} :
        /\ Got(d, m)
        /\ Distribute(d, Remaining(d, m))
        /\ Taken(d)
        /\ UNCHANGED <<conns, zero, queues, peer, lost, odd, full>>

(* BT_SMP_CMD_PAIRING_FAIL is printed, BT_SMP_CMD_ENCRYPT_INFO is stored    *)
(* (LeKeys), and a failed encryption asks for a disconnection.              *)
OtherMsg(d) ==
    /\ \E m \in {"pairing_fail", "encrypt_info", "encrypt_error"} : Got(d, m)
    /\ Taken(d)
    /\ UNCHANGED <<dev, conns, zero, queues, peer, hist>>

(* BT_HCI_EVT_ENCRYPT_CHANGE: bt_att_hid_init. *)
EncryptChange(d) ==
    /\ Got(d, "encrypt_change")
    /\ dev' = [dev EXCEPT ![d].flags = {"intr_pending"}]
    /\ Taken(d)
    /\ UNCHANGED <<conns, zero, queues, peer, hist>>

HostMsg(d) == \/ PairingRsp(d) \/ PairingConfirm(d) \/ PairingRandom(d)
              \/ KeyReceived(d) \/ OtherMsg(d) \/ EncryptChange(d)

-----------------------------------------------------------------------------
(* BT_HCI_EVT_CMD_COMPLETE of LE_RAND and LE_ENCRYPT. *)

(* bt_smp_mrand_half *)
MrandHalf(d, v) ==
    /\ dev' = [dev EXCEPT ![d].rand = <<v, dev[d].rand[2]>>]
    /\ UNCHANGED <<encryptq, encryptCmd, full>>

(* Mutant: the first half of the random number is not waited for. *)
C1InputHalf(d, r) == [f |-> "p1", r |-> <<0, r[2]>>, of |-> dev[d].pres]

(* smp_c1_part1: r XOR p1, with the pairing request and response. *)
C1Input(d, r) == [f |-> "p1", r |-> r, of |-> dev[d].pres]

(* bt_smp_mrand_complete *)
MrandComplete(d, v) ==
    LET r == <<dev[d].rand[1], v>>
    IN  /\ dev' = [dev EXCEPT ![d].rand = r, ![d].ltk = C1Input(d, r)]
        /\ GetEncrypt(encryptq, encryptCmd, d, "confirm_half", C1Input(d, r))

(* The answer goes to the entry at the head of randq. *)
RandAnswer ==
    /\ randCmd # <<>>
    /\ randCmd' = Tail(randCmd)
    /\ LET v == Head(randCmd).val
           e == Head(randq)
       IN  IF randq = <<>>
           THEN UNCHANGED <<dev, randq, encryptq, encryptCmd, full>>
           ELSE /\ randq' = Tail(randq)
                /\ \/ e.cb = "mrand_half" /\ MrandHalf(e.slot, v)
                   \/ e.cb = "mrand_complete" /\ MrandComplete(e.slot, v)
    /\ UNCHANGED <<conns, zero, peer, rx, lost, odd, dist>>

(* smp_c1_part2: XOR p2, with the addresses. *)
C2Input(d, v) == [v EXCEPT !.f = IF @ = "half" /\ v.of = dev[d].conn THEN "p2" ELSE "junk"]

(* bt_smp_confirm_half *)
ConfirmHalf(d, v, q, cmds) ==
    /\ dev' = [dev EXCEPT ![d].ltk = C2Input(d, v)]
    /\ GetEncrypt(q, cmds, d, "confirm_complete", C2Input(d, v))
    /\ UNCHANGED <<peer, rx, odd>>

(* bt_smp_confirm_complete: bt_smp_pairing_confirm *)
ConfirmComplete(d, v, q, cmds) ==
    /\ dev' = [dev EXCEPT ![d].ltk = v]
    /\ IF Target(d) = NoConn THEN UNCHANGED <<peer, rx>> ELSE PeerConfirm(Target(d), v)
    /\ odd' = Stray(d)
    /\ encryptq' = q /\ encryptCmd' = cmds /\ UNCHANGED full

(* bt_smp_stk_complete: bt_hci_start_encryption *)
StkComplete(d, v, q, cmds) ==
    /\ dev' = [dev EXCEPT ![d].ltk = v]
    /\ IF Target(d) = NoConn THEN UNCHANGED <<peer, rx>> ELSE PeerEncrypt(Target(d), v)
    /\ odd' = Stray(d)
    /\ encryptq' = q /\ encryptCmd' = cmds /\ UNCHANGED full

(* The answer goes to the entry at the head of encryptq. *)
EncryptAnswer ==
    /\ encryptCmd # <<>>
    /\ LET v == Encrypted(Head(encryptCmd).val)
           cmds == Tail(encryptCmd)
           e == Head(encryptq)
           q == Tail(encryptq)
       IN  IF encryptq = <<>>
           THEN encryptCmd' = cmds /\ UNCHANGED <<dev, encryptq, full, peer, rx, odd>>
           ELSE \/ e.cb = "confirm_half" /\ ConfirmHalf(e.slot, v, q, cmds)
                \/ e.cb = "confirm_complete" /\ ConfirmComplete(e.slot, v, q, cmds)
                \/ e.cb = "stk_complete" /\ StkComplete(e.slot, v, q, cmds)
    /\ UNCHANGED <<conns, zero, randq, randCmd, lost, dist>>

(* A command that failed is not one of those of the error branch: its entry *)
(* stays in the queue.                                                      *)
RandError ==
    /\ randCmd # <<>> /\ lost["rand"] < MaxFail
    /\ randCmd' = Tail(randCmd)
    /\ lost' = [lost EXCEPT !["rand"] = @ + 1]
    /\ UNCHANGED <<dev, conns, zero, randq, encryptq, encryptCmd, peer, rx, odd, full, dist>>

EncryptError ==
    /\ encryptCmd # <<>> /\ lost["encrypt"] < MaxFail
    /\ encryptCmd' = Tail(encryptCmd)
    /\ lost' = [lost EXCEPT !["encrypt"] = @ + 1]
    /\ UNCHANGED <<dev, conns, zero, randq, encryptq, randCmd, peer, rx, odd, full, dist>>

Answer == RandAnswer \/ EncryptAnswer \/ RandError \/ EncryptError

-----------------------------------------------------------------------------
Next ==
    \/ \E d \in Slot :
        \/ Found(d) \/ ConnFailed(d) \/ DisconnComplete(d) \/ HostMsg(d)
        \/ \E z \in BOOLEAN, ks \in Dists : ConnComplete(d, z, ks)
    \/ Answer

Spec == Init /\ [][Next]_vars

(* The Bluetooth controller answers its commands, and messages arrive. *)
FairSpec == Spec /\ WF_vars(Answer) /\ \A d \in Slot : WF_vars(HostMsg(d))

-----------------------------------------------------------------------------
(* Safety. *)

(* The commands under way are those of the last entries of the queue, one   *)
(* for one and in order.  So an answer goes to the slot that asked for it   *)
(* until a command fails, and each failure takes an entry out of use for    *)
(* ever.                                                                    *)
Matched(q, cmds, k) ==
    /\ Len(q) = Len(cmds) + k
    /\ \A i \in 1 .. Len(cmds) : q[i + k].slot = cmds[i].slot

QueuesMatched ==
    /\ Matched(randq, randCmd, lost["rand"])
    /\ Matched(encryptq, encryptCmd, lost["encrypt"])

(* A slot that is up belongs to a connection. *)
SlotConn == \A d \in Slot : dev[d].st = "up" => dev[d].conn \in Conn

SmpInv == TypeOK /\ SlotConn /\ QueuesMatched

(* A command failed, or a slot was taken over with answers to come. *)
Disturbed(n) == lost["rand"] + lost["encrypt"] > 0 \/ n \in odd

(* Whatever other pairings are under way: the confirm value a peer gets is  *)
(* that of the random number it gets later, and the keys of both ends are   *)
(* the same.  The peer refuses nothing.                                     *)
PairingSound == \A n \in Conn : peer[n].st = "failed" => Disturbed(n)

(* Our keys are sent once, when the peer has sent all of its own.           *)
DistributedLast ==
    \A n \in Conn : ~Disturbed(n) /\ dist[n] > 0 /\ peer[n].st # "off" =>
        /\ dist[n] = 1
        /\ peer[n].dist # {} => peer[n].st = "up" /\ rx[n] = <<>>

(* Liveness. *)

(* A pairing that nothing disturbs and that found room in the queues is     *)
(* completed, or its link is lost.                                          *)
Paired ==
    \A n \in Conn :
        peer[n].st = "confirm" ~>
            (peer[n].st = "off" \/ Disturbed(n) \/ n \in full
                \/ (peer[n].st = "up" /\ dist[n] = 1 /\ rx[n] = <<>>))
=============================================================================
