----------------------------- MODULE SmpProofs ------------------------------
(***************************************************************************)
(* Proofs about Smp, for every number of slots, connections and failures    *)
(* and every capacity of the queues.                                        *)
(*                                                                         *)
(* The queues: SmpInv is inductive by itself.  A request adds an entry and  *)
(* a command or neither, an answer takes one of each, a failure takes a     *)
(* command only.                                                            *)
(*                                                                         *)
(* The pairings: PairInv adds which slot serves which connection (Links)    *)
(* and, for every pairing that nothing disturbed, the phase it is in        *)
(* (InPhase): the message on its way, the entry of the slot in a queue with *)
(* the value being encrypted for it, and what the peer waits for.  It is    *)
(* inductive because each step either takes the pairing of one slot to the  *)
(* next phase, or leaves the entries of all other slots as they are.        *)
(***************************************************************************)
EXTENDS Smp, SequenceTheorems, TLAPS

RandEntry == [slot : Slot, cb : RandCb]
EncryptEntry == [slot : Slot, cb : EncryptCb]
RandRec == [slot : Slot, val : Half]
EncryptRec == [slot : Slot, val : Value]

(* An entry and a command of one slot are added. *)
LEMMA PushMatched ==
    ASSUME NEW S, NEW T, NEW q \in Seq(S), NEW c \in Seq(T), NEW k \in Nat,
           NEW e \in S, NEW x \in T, e.slot = x.slot, Matched(q, c, k)
    PROVE  Matched(Append(q, e), Append(c, x), k)
<1>1. Len(Append(q, e)) = Len(q) + 1 /\ Len(Append(c, x)) = Len(c) + 1
  OBVIOUS
<1>2. Len(q) = Len(c) + k /\ Len(c) \in Nat /\ Len(q) \in Nat
  BY DEF Matched
<1>3. ASSUME NEW i \in 1 .. Len(c) + 1
      PROVE  Append(q, e)[i + k].slot = Append(c, x)[i].slot
  <2>1. CASE i = Len(c) + 1
    <3>1. i + k = Len(q) + 1
      BY <1>2, <2>1
    <3>2. Append(q, e)[Len(q) + 1] = e /\ Append(c, x)[Len(c) + 1] = x
      OBVIOUS
    <3>. QED  BY <2>1, <3>1, <3>2
  <2>2. CASE i # Len(c) + 1
    <3>1. i \in 1 .. Len(c) /\ i + k \in 1 .. Len(q)
      BY <1>2, <2>2
    <3>2. Append(q, e)[i + k] = q[i + k] /\ Append(c, x)[i] = c[i]
      BY <3>1
    <3>. QED  BY <3>1, <3>2 DEF Matched
  <2>. QED  BY <2>1, <2>2
<1>. QED  BY <1>1, <1>2, <1>3 DEF Matched

(* The oldest entry and the oldest command are taken. *)
LEMMA PopMatched ==
    ASSUME NEW S, NEW T, NEW q \in Seq(S), NEW c \in Seq(T), NEW k \in Nat,
           c # <<>>, Matched(q, c, k)
    PROVE  /\ q # <<>>
           /\ Matched(Tail(q), Tail(c), k)
<1>1. Len(q) = Len(c) + k /\ Len(c) \in Nat /\ Len(c) # 0 /\ Len(q) \in Nat
  BY EmptySeq DEF Matched
<1>2. q # <<>>
  BY <1>1
<1>3. Len(Tail(q)) = Len(q) - 1 /\ Len(Tail(c)) = Len(c) - 1
  BY <1>2
<1>4. ASSUME NEW i \in 1 .. Len(c) - 1
      PROVE  Tail(q)[i + k].slot = Tail(c)[i].slot
  <2>1. Tail(q)[i + k] = q[i + k + 1] /\ Tail(c)[i] = c[i + 1]
    BY <1>1, <1>2, <1>3
  <2>2. q[(i + 1) + k].slot = c[i + 1].slot
    BY <1>1 DEF Matched
  <2>. QED  BY <1>1, <2>1, <2>2
<1>. QED  BY <1>1, <1>2, <1>3, <1>4 DEF Matched

(* The oldest command fails: its entry stays. *)
LEMMA LoseMatched ==
    ASSUME NEW S, NEW T, NEW q \in Seq(S), NEW c \in Seq(T), NEW k \in Nat,
           c # <<>>, Matched(q, c, k)
    PROVE  Matched(q, Tail(c), k + 1)
<1>1. Len(q) = Len(c) + k /\ Len(c) \in Nat /\ Len(c) # 0
  BY EmptySeq DEF Matched
<1>2. Len(Tail(c)) = Len(c) - 1
  OBVIOUS
<1>3. ASSUME NEW i \in 1 .. Len(c) - 1
      PROVE  q[i + (k + 1)].slot = Tail(c)[i].slot
  <2>1. Tail(c)[i] = c[i + 1]
    BY <1>1, <1>2
  <2>2. q[(i + 1) + k].slot = c[i + 1].slot
    BY <1>1 DEF Matched
  <2>3. i + (k + 1) = (i + 1) + k
    OBVIOUS
  <2>. QED  BY <2>1, <2>2, <2>3
<1>. QED  BY <1>1, <1>2, <1>3 DEF Matched
-----------------------------------------------------------------------------
(* What is known of the queue of encryptions, given one that is matched. *)
EncryptOk(q, c, k) ==
    /\ q \in Seq(EncryptEntry) /\ Len(q) <= QCap
    /\ c \in Seq(EncryptRec)
    /\ Matched(q, c, k)

(* bt_hci_get_encrypt adds both or nothing. *)
LEMMA GetEncryptMatched ==
    ASSUME NEW q, NEW c, NEW k \in Nat, EncryptOk(q, c, k),
           NEW d \in Slot, NEW cb \in EncryptCb, NEW v \in Value,
           GetEncrypt(q, c, d, cb, v)
    PROVE  EncryptOk(encryptq', encryptCmd', k)
<1>. DEFINE e == [slot |-> d, cb |-> cb]
            x == [slot |-> d, val |-> v]
<1>1. q \in Seq(EncryptEntry) /\ c \in Seq(EncryptRec) /\ Matched(q, c, k) /\ Len(q) <= QCap
  BY DEF EncryptOk
<1>2. e \in EncryptEntry /\ x \in EncryptRec /\ e.slot = x.slot
  BY DEF EncryptEntry, EncryptRec
<1>3. CASE Len(q) < QCap
  <2>1. encryptq' = Append(q, e) /\ encryptCmd' = Append(c, x)
    BY <1>3 DEF GetEncrypt, Queued, Accepted
  <2>2. Matched(Append(q, e), Append(c, x), k)
    BY <1>1, <1>2, PushMatched
  <2>3. Append(q, e) \in Seq(EncryptEntry) /\ Append(c, x) \in Seq(EncryptRec)
        /\ Len(Append(q, e)) <= QCap
    BY <1>1, <1>2, <1>3, SmpAssumption
  <2>. QED  BY <2>1, <2>2, <2>3 DEF EncryptOk
<1>4. CASE ~(Len(q) < QCap)
  BY <1>1, <1>4 DEF GetEncrypt, Queued, Accepted, EncryptOk
<1>. QED  BY <1>3, <1>4

(* The same for the queue of random numbers. *)
RandOk(q, c, k) ==
    /\ q \in Seq(RandEntry) /\ Len(q) <= QCap
    /\ c \in Seq(RandRec)
    /\ Matched(q, c, k)

(* One bt_hci_get_random adds both or nothing. *)
LEMMA RandMatched ==
    ASSUME NEW q, NEW c, NEW k \in Nat, RandOk(q, c, k),
           NEW d \in Slot, NEW cb \in RandCb, NEW v \in Half
    PROVE  RandOk(Queued(q, [slot |-> d, cb |-> cb]),
                  IF Accepted(q) THEN Append(c, [slot |-> d, val |-> v]) ELSE c, k)
<1>. DEFINE e == [slot |-> d, cb |-> cb]
            x == [slot |-> d, val |-> v]
<1>1. q \in Seq(RandEntry) /\ c \in Seq(RandRec) /\ Matched(q, c, k) /\ Len(q) <= QCap
  BY DEF RandOk
<1>2. e \in RandEntry /\ x \in RandRec /\ e.slot = x.slot
  BY DEF RandEntry, RandRec
<1>3. CASE Len(q) < QCap
  <2>1. Matched(Append(q, e), Append(c, x), k)
    BY <1>1, <1>2, PushMatched
  <2>2. Append(q, e) \in Seq(RandEntry) /\ Append(c, x) \in Seq(RandRec)
        /\ Len(Append(q, e)) <= QCap
    BY <1>1, <1>2, <1>3, SmpAssumption
  <2>. QED  BY <1>3, <2>1, <2>2 DEF RandOk, Queued, Accepted
<1>4. CASE ~(Len(q) < QCap)
  BY <1>1, <1>4 DEF Queued, Accepted, RandOk
<1>. QED  BY <1>3, <1>4

(* bt_smp_hdlr asks for two. *)
LEMMA GetRandomsMatched ==
    ASSUME NEW k \in Nat, RandOk(randq, randCmd, k),
           NEW d \in Slot, NEW n \in Conn, GetRandoms(d, n)
    PROVE  RandOk(randq', randCmd', k)
<1>. DEFINE q1 == Queued(randq, [slot |-> d, cb |-> "mrand_half"])
            c1 == IF Accepted(randq) THEN Append(randCmd, [slot |-> d, val |-> Random(n, 1)])
                                     ELSE randCmd
<1>1. Random(n, 1) \in Half /\ Random(n, 2) \in Half
  BY SmpAssumption DEF Random, Half, Conn
<1>2. RandOk(q1, c1, k)
  BY <1>1, RandMatched DEF RandCb
<1>3. RandOk(Queued(q1, [slot |-> d, cb |-> "mrand_complete"]),
             IF Accepted(q1) THEN Append(c1, [slot |-> d, val |-> Random(n, 2)]) ELSE c1, k)
  <2>. HIDE DEF q1, c1
  <2>. QED  BY <1>1, <1>2, RandMatched DEF RandCb
<1>. QED  BY <1>3 DEF GetRandoms
-----------------------------------------------------------------------------
(* The peer's answers keep the types. *)
PeersTyped == peer \in [Conn -> Peer] /\ rx \in [Conn -> Seq(Message)]

(* The keys a peer distributes are messages.                                *)
LEMMA KeysTyped ==
    ASSUME NEW s \in SUBSET Key
    PROVE  KeysOf(s) \in Seq(Message)
<1>1. /\ <<"encrypt_info", "master_ident">> \in Seq(Message)
      /\ <<"ident_addr_info">> \in Seq(Message)
      /\ <<"signing_info">> \in Seq(Message)
      /\ <<>> \in Seq(Message)
  BY DEF Message
<1>. QED  BY <1>1 DEF KeysOf

(* A peer that gives up leaves the links typed.                             *)
LEMMA FailsTyped ==
    ASSUME PeersTyped, NEW n \in Conn, NEW in \in Seq(Message), Fails(n, in)
    PROVE  PeersTyped'
<1>1. Append(in, "pairing_fail") \in Seq(Message)
  BY DEF Message
<1>2. [peer[n] EXCEPT !.st = "failed"] \in Peer
  BY DEF PeersTyped, Peer, PeerSt
<1>. QED  BY <1>1, <1>2 DEF PeersTyped, Fails

(* A peer that answers with its confirm value does.                         *)
LEMMA PeerConfirmTyped ==
    ASSUME PeersTyped, NEW n \in Conn, NEW v \in Value, PeerConfirm(n, v)
    PROVE  PeersTyped'
<1>1. CASE peer[n].st = "confirm"
  <2>1. Append(rx[n], "pairing_confirm") \in Seq(Message)
    BY DEF Message, PeersTyped
  <2>2. [peer[n] EXCEPT !.st = "random", !.confirm = v] \in Peer
    BY DEF PeersTyped, Peer, PeerSt
  <2>. QED  BY <1>1, <2>1, <2>2 DEF PeersTyped, PeerConfirm
<1>2. CASE peer[n].st # "confirm"
  <2>1. Fails(n, rx[n]) /\ rx[n] \in Seq(Message)
    BY <1>2 DEF PeerConfirm, PeersTyped
  <2>. QED  BY <2>1, FailsTyped
<1>. QED  BY <1>1, <1>2

(* A peer that answers with its random value does.                          *)
LEMMA PeerRandomTyped ==
    ASSUME PeersTyped, NEW n \in Conn, NEW r \in Half \X Half, NEW in \in Seq(Message),
           PeerRandom(n, r, in)
    PROVE  PeersTyped'
<1>. DEFINE good == peer[n].st = "random" /\ peer[n].confirm = [f |-> "confirm", r |-> r, of |-> n]
            stk == [f |-> "stk", r |-> r, of |-> n]
<1>1. CASE good
  <2>1. Append(in, "pairing_random") \in Seq(Message)
    BY DEF Message
  <2>2. stk \in Value
    BY SmpAssumption DEF Value, Conn
  <2>3. [peer[n] EXCEPT !.st = "encrypt", !.stk = stk] \in Peer
    BY <2>2 DEF PeersTyped, Peer, PeerSt
  <2>. QED  BY <1>1, <2>1, <2>3 DEF PeersTyped, PeerRandom
<1>2. CASE ~good
  BY <1>2, FailsTyped DEF PeerRandom
<1>. QED  BY <1>1, <1>2

(* A peer that answers the encryption does.                                 *)
LEMMA PeerEncryptTyped ==
    ASSUME PeersTyped, NEW n \in Conn, NEW v \in Value, PeerEncrypt(n, v)
    PROVE  PeersTyped'
<1>1. peer[n].dist \in SUBSET Key /\ rx[n] \in Seq(Message)
  BY DEF PeersTyped, Peer
<1>2. KeysOf(peer[n].dist) \in Seq(Message) /\ <<"encrypt_change">> \in Seq(Message)
  BY <1>1, KeysTyped DEF Message
<1>3. rx[n] \o <<"encrypt_change">> \o KeysOf(peer[n].dist) \in Seq(Message)
  BY <1>1, <1>2
<1>4. Append(rx[n], "encrypt_error") \in Seq(Message)
  BY <1>1 DEF Message
<1>5. [peer[n] EXCEPT !.st = "up"] \in Peer /\ [peer[n] EXCEPT !.st = "failed"] \in Peer
  BY DEF PeersTyped, Peer, PeerSt
<1>. QED  BY <1>3, <1>4, <1>5 DEF PeersTyped, PeerEncrypt
-----------------------------------------------------------------------------
(* The invariant in the parts that the actions disturb. *)
DevTyped == dev \in [Slot -> Device] /\ SlotConn
CountTyped == conns \in 0 .. MaxConn /\ zero \in 0 .. MaxConn
HistTyped == odd \subseteq Conn /\ full \subseteq Conn /\ dist \in [Conn -> Nat]
LostTyped == lost \in [{"rand", "encrypt"} -> 0 .. MaxFail]
RandsOk == RandOk(randq, randCmd, lost["rand"])
EncryptsOk == EncryptOk(encryptq, encryptCmd, lost["encrypt"])

(* SmpInv as the groups of variables that a step changes together           *)
LEMMA InvParts ==
    ASSUME SmpInv
    PROVE  DevTyped /\ CountTyped /\ PeersTyped /\ HistTyped /\ LostTyped /\ RandsOk /\ EncryptsOk
  BY DEF SmpInv, TypeOK, QueuesTyped, QueuesMatched, DevTyped, CountTyped, PeersTyped, HistTyped,
         LostTyped, RandsOk, EncryptsOk, RandOk, EncryptOk, RandEntry, EncryptEntry,
         RandRec, EncryptRec

(* SmpInv after a step from those groups                                    *)
LEMMA InvNext ==
    ASSUME DevTyped', CountTyped', PeersTyped', HistTyped', LostTyped', RandsOk', EncryptsOk'
    PROVE  SmpInv'
  BY DEF SmpInv, TypeOK, QueuesTyped, QueuesMatched, DevTyped, CountTyped, PeersTyped, HistTyped,
         LostTyped, RandsOk, EncryptsOk, RandOk, EncryptOk, RandEntry, EncryptEntry,
         RandRec, EncryptRec

(* A slot that is written keeps its type. *)
LEMMA SetDev ==
    ASSUME DevTyped, NEW d \in Slot, NEW x \in Device,
           x.st = "up" => x.conn \in Conn, dev' = [dev EXCEPT ![d] = x]
    PROVE  DevTyped'
  BY DEF DevTyped, SlotConn

(* What bt_host_reset_dev leaves of a slot                                  *)
LEMMA ResetTyped ==
    Reset \in Device /\ [Reset EXCEPT !.st = "found"] \in Device /\ NoValue \in Value
<1>1. NoValue \in Value
  BY SmpAssumption DEF NoValue, Value, Half, NoConn
<1>2. Reset \in Device /\ [Reset EXCEPT !.st = "found"] \in Device
  BY <1>1, SmpAssumption DEF Reset, Device, Half, NoConn
<1>. QED  BY <1>1, <1>2

(* The values the callbacks make. *)
LEMMA ValuesTyped ==
    ASSUME DevTyped, NEW d \in Slot
    PROVE  /\ StkInput(d) \in Value
           /\ \A r \in Half \X Half : C1Input(d, r) \in Value
           /\ \A v \in Value : C2Input(d, v) \in Value /\ Encrypted(v) \in Value
           /\ \A h \in Half : <<dev[d].rand[1], h>> \in Half \X Half /\ <<h, dev[d].rand[2]>> \in Half \X Half
<1>1. dev[d].rand \in Half \X Half /\ dev[d].conn \in 0 .. MaxConn /\ dev[d].pres \in 0 .. MaxConn
  BY DEF DevTyped, Device
<1>2. StkInput(d) \in Value /\ \A r \in Half \X Half : C1Input(d, r) \in Value
  BY <1>1 DEF StkInput, C1Input, Value
<1>3. ASSUME NEW v \in Value
      PROVE  C2Input(d, v) \in Value /\ Encrypted(v) \in Value
  BY DEF C2Input, Encrypted, Value
<1>4. \A h \in Half : <<dev[d].rand[1], h>> \in Half \X Half /\ <<h, dev[d].rand[2]>> \in Half \X Half
  BY <1>1
<1>. QED  BY <1>2, <1>3, <1>4

(* bt_hci_get_encrypt marks connections only. *)
LEMMA FullTyped ==
    ASSUME DevTyped, full \subseteq Conn, NEW q, NEW c, NEW d \in Slot, NEW cb, NEW v,
           GetEncrypt(q, c, d, cb, v)
    PROVE  full' \subseteq Conn
<1>1. dev[d].conn \in 0 .. MaxConn
  BY DEF DevTyped, Device
<1>2. {dev[d].conn} \ {NoConn} \subseteq Conn
  BY <1>1, SmpAssumption DEF NoConn, Conn
<1>. QED  BY <1>2 DEF GetEncrypt

(* The connections that a message meant for a slot reaches                  *)
LEMMA StrayTyped ==
    ASSUME CountTyped, odd \subseteq Conn, NEW d \in Slot
    PROVE  Stray(d) \subseteq Conn
  BY SmpAssumption DEF CountTyped, Stray, Conn, NoConn

(* The connection that the handle of a slot names                           *)
LEMMA TargetTyped ==
    ASSUME DevTyped, CountTyped, NEW d \in Slot, Target(d) # NoConn
    PROVE  Target(d) \in Conn
  BY SmpAssumption DEF DevTyped, SlotConn, CountTyped, Target, Conn, NoConn
-----------------------------------------------------------------------------
(* The steps that leave the queues alone. *)
LEMMA LinkSteps ==
    ASSUME SmpInv, NEW d \in Slot,
           \/ Found(d) \/ ConnFailed(d) \/ DisconnComplete(d)
           \/ \E z \in BOOLEAN, ks \in Dists : ConnComplete(d, z, ks)
    PROVE  SmpInv'
<1>. USE InvParts, InvNext
<1>1. CASE Found(d)
  <2>1. DevTyped'
    <3>1. [Reset EXCEPT !.st = "found"].st = "found"
      BY DEF Reset
    <3>. QED  BY <1>1, <3>1, SetDev, ResetTyped DEF Found
  <2>. QED  BY <1>1, <2>1 DEF Found, queues, hist, CountTyped, PeersTyped, HistTyped, LostTyped,
                              RandsOk, EncryptsOk
<1>2. CASE ConnFailed(d)
  <2>1. DevTyped'
    BY <1>2, SetDev, ResetTyped DEF ConnFailed, Reset
  <2>. QED  BY <1>2, <2>1 DEF ConnFailed, queues, hist, CountTyped, PeersTyped, HistTyped,
                              LostTyped, RandsOk, EncryptsOk
<1>3. CASE DisconnComplete(d)
  <2>1. DevTyped'
    BY <1>3, SetDev, ResetTyped DEF DisconnComplete, Reset
  <2>2. CountTyped'
    BY <1>3, SmpAssumption DEF DisconnComplete, CountTyped, NoConn
  <2>3. PeersTyped'
    <3>1. PeerOff \in Peer /\ <<>> \in Seq(Message)
      BY ResetTyped DEF PeerOff, Peer, PeerSt
    <3>. QED  BY <1>3, <3>1 DEF DisconnComplete, PeersTyped
  <2>. QED  BY <1>3, <2>1, <2>2, <2>3 DEF DisconnComplete, queues, hist, HistTyped, LostTyped,
                                          RandsOk, EncryptsOk
<1>4. ASSUME NEW z \in BOOLEAN, NEW ks \in Dists, ConnComplete(d, z, ks)
      PROVE  SmpInv'
  <2>. DEFINE n == conns + 1
  <2>1. n \in Conn /\ n \in 0 .. MaxConn
    <3>1. conns + 1 <= MaxConn
      BY <1>4, Zenon DEF ConnComplete
    <3>2. conns \in 0 .. MaxConn
      BY DEF CountTyped
    <3>. QED  BY <3>1, <3>2, SmpAssumption DEF Conn
  <2>2. DevTyped'
    <3>1. dev[d] \in Device
      BY DEF DevTyped
    <3>2. [dev[d] EXCEPT !.st = "up", !.conn = n] \in Device
      BY <2>1, <3>1 DEF Device
    <3>3. dev' = [dev EXCEPT ![d] = [dev[d] EXCEPT !.st = "up", !.conn = n]]
      BY <1>4 DEF ConnComplete
    <3>4. [dev[d] EXCEPT !.st = "up", !.conn = n].conn = n
      BY <3>1 DEF Device
    <3>. QED  BY <2>1, <3>2, <3>3, <3>4, SetDev
  <2>3. CountTyped'
    BY <1>4, <2>1 DEF ConnComplete, CountTyped
  <2>4. PeersTyped'
    <3>1. ks \in SUBSET Key
      BY SmpAssumption
    <3>2. [peer[n] EXCEPT !.st = "confirm", !.dist = ks] \in Peer
      BY <2>1, <3>1 DEF PeersTyped, Peer, PeerSt
    <3>3. <<"pairing_rsp">> \in Seq(Message)
      BY DEF Message
    <3>4. /\ peer' = [peer EXCEPT ![n] = [peer[n] EXCEPT !.st = "confirm", !.dist = ks]]
          /\ rx' = [rx EXCEPT ![n] = <<"pairing_rsp">>]
      BY <1>4, <2>1 DEF ConnComplete, PeersTyped
    <3>. QED  BY <2>1, <3>2, <3>3, <3>4 DEF PeersTyped
  <2>5. HistTyped'
    BY <1>4, <2>1 DEF ConnComplete, HistTyped
  <2>. QED  BY <1>4, <2>2, <2>3, <2>4, <2>5 DEF ConnComplete, queues, LostTyped, RandsOk, EncryptsOk
<1>. QED  BY <1>1, <1>2, <1>3, <1>4

(* A message is taken from its queue. *)
LEMMA TakenTyped ==
    ASSUME DevTyped, PeersTyped, NEW d \in Slot, NEW m, Got(d, m)
    PROVE  /\ dev[d].conn \in Conn /\ dev[d] \in Device
           /\ Rest(d) \in Seq(Message)
           /\ Taken(d) => rx' \in [Conn -> Seq(Message)]
<1>1. dev[d].conn \in Conn /\ dev[d] \in Device
  BY DEF Got, DevTyped, SlotConn
<1>2. rx[dev[d].conn] \in Seq(Message) /\ rx[dev[d].conn] # <<>>
  BY <1>1 DEF Got, PeersTyped
<1>3. Tail(rx[dev[d].conn]) \in Seq(Message)
  BY <1>2
<1>. QED  BY <1>1, <1>3 DEF Rest, Taken, PeersTyped
(* bt_smp_hdlr. *)
LEMMA MsgSteps ==
    ASSUME SmpInv, NEW d \in Slot, HostMsg(d)
    PROVE  SmpInv'
<1>. USE InvParts, InvNext
<1>1. lost["rand"] \in Nat /\ lost["encrypt"] \in Nat
  BY SmpAssumption DEF LostTyped
<1>2. CASE PairingRsp(d)
  <2>. DEFINE n == dev[d].conn
              x == [dev[d] EXCEPT !.rdist = peer[n].dist, !.pres = n]
  <2>1. n \in Conn /\ dev[d] \in Device /\ rx' \in [Conn -> Seq(Message)]
    BY <1>2, TakenTyped DEF PairingRsp
  <2>2. x \in Device /\ x.st = dev[d].st /\ x.conn = n
    <3>1. peer[n].dist \in SUBSET Key /\ n \in 0 .. MaxConn
      BY <2>1, SmpAssumption DEF PeersTyped, Peer, Conn
    <3>. QED  BY <2>1, <3>1 DEF Device
  <2>3. DevTyped'
    BY <1>2, <2>1, <2>2, SetDev DEF PairingRsp
  <2>4. RandsOk'
    BY <1>1, <1>2, <2>1, GetRandomsMatched DEF PairingRsp, RandsOk
  <2>5. HistTyped'
    BY <1>2, <2>1 DEF PairingRsp, GetRandoms, HistTyped
  <2>. QED  BY <1>2, <2>1, <2>3, <2>4, <2>5 DEF PairingRsp, CountTyped, PeersTyped, LostTyped,
                                                EncryptsOk
<1>3. CASE PairingConfirm(d)
  <2>1. dev[d].conn \in Conn /\ dev[d] \in Device /\ Rest(d) \in Seq(Message)
    BY <1>3, TakenTyped DEF PairingConfirm
  <2>2. dev[d].rand \in Half \X Half
    BY <2>1 DEF Device
  <2>3. PeersTyped'
    BY <1>3, <2>1, <2>2, PeerRandomTyped DEF PairingConfirm
  <2>. QED  BY <1>3, <2>3 DEF PairingConfirm, queues, hist, DevTyped, SlotConn, CountTyped,
                              HistTyped, LostTyped, RandsOk, EncryptsOk
<1>4. CASE PairingRandom(d)
  <2>. DEFINE n == dev[d].conn
              x == [dev[d] EXCEPT !.rrand = n, !.ltk = StkInput(d),
                                  !.flags = AttHidInit(@, dev[d].rdist)]
  <2>1. n \in Conn /\ dev[d] \in Device /\ rx' \in [Conn -> Seq(Message)]
    BY <1>4, TakenTyped DEF PairingRandom
  <2>2. x \in Device /\ x.st = dev[d].st /\ x.conn = n
    <3>1. AttHidInit(dev[d].flags, dev[d].rdist) \in SUBSET {"intr_pending"} /\ n \in 0 .. MaxConn
      BY <2>1, SmpAssumption DEF AttHidInit, Device, Conn
    <3>. QED  BY <2>1, <3>1, ValuesTyped DEF Device
  <2>3. DevTyped'
    BY <1>4, <2>1, <2>2, SetDev DEF PairingRandom
  <2>4. EncryptsOk'
    BY <1>1, <1>4, ValuesTyped, GetEncryptMatched DEF PairingRandom, EncryptsOk, EncryptCb
  <2>5. HistTyped'
    <3>1. full' \subseteq Conn
      BY <1>4, FullTyped DEF PairingRandom, HistTyped
    <3>2. dist' \in [Conn -> Nat]
      BY <1>4, <2>1 DEF PairingRandom, HistTyped
    <3>. QED  BY <1>4, <3>1, <3>2 DEF PairingRandom, HistTyped
  <2>. QED  BY <1>4, <2>1, <2>3, <2>4, <2>5 DEF PairingRandom, CountTyped, PeersTyped, LostTyped,
                                                RandsOk
<1>5. CASE KeyReceived(d)
  <2>1. PICK m \in {"master_ident", "ident_addr_info", "signing_info"} :
            /\ Got(d, m) /\ Distribute(d, Remaining(d, m)) /\ Taken(d)
            /\ UNCHANGED <<conns, zero, queues, peer, lost, odd, full>>
    BY <1>5 DEF KeyReceived
  <2>. DEFINE ks == Remaining(d, m)
              x == [dev[d] EXCEPT !.rdist = ks, !.flags = AttHidInit(@, ks)]
  <2>2. dev[d].conn \in Conn /\ dev[d] \in Device /\ rx' \in [Conn -> Seq(Message)]
    BY <2>1, TakenTyped
  <2>3. ks \in SUBSET Key
    BY <2>2 DEF Remaining, Device
  <2>4. x \in Device /\ x.st = dev[d].st /\ x.conn = dev[d].conn
    <3>1. AttHidInit(dev[d].flags, ks) \in SUBSET {"intr_pending"}
      BY <2>2 DEF AttHidInit, Device
    <3>. QED  BY <2>2, <2>3, <3>1 DEF Device
  <2>5. DevTyped'
    <3>1. dev' = [dev EXCEPT ![d] = x]
      BY <2>1 DEF Distribute
    <3>. QED  BY <2>2, <2>4, <3>1, SetDev
  <2>6. HistTyped'
    BY <2>1, <2>2 DEF Distribute, HistTyped
  <2>. QED  BY <2>1, <2>2, <2>5, <2>6 DEF queues, CountTyped, PeersTyped, LostTyped, RandsOk, EncryptsOk
<1>6. CASE OtherMsg(d)
  <2>1. rx' \in [Conn -> Seq(Message)]
    BY <1>6, TakenTyped DEF OtherMsg
  <2>. QED  BY <1>6, <2>1 DEF OtherMsg, queues, hist, DevTyped, SlotConn, CountTyped, PeersTyped,
                              HistTyped, LostTyped, RandsOk, EncryptsOk
<1>7. CASE EncryptChange(d)
  <2>. DEFINE x == [dev[d] EXCEPT !.flags = {"intr_pending"}]
  <2>1. dev[d].conn \in Conn /\ dev[d] \in Device /\ rx' \in [Conn -> Seq(Message)]
    BY <1>7, TakenTyped DEF EncryptChange
  <2>2. x \in Device /\ x.st = dev[d].st /\ x.conn = dev[d].conn
    BY <2>1 DEF Device
  <2>3. DevTyped'
    BY <1>7, <2>1, <2>2, SetDev DEF EncryptChange
  <2>. QED  BY <1>7, <2>1, <2>3 DEF EncryptChange, queues, hist, CountTyped, PeersTyped, HistTyped,
                                    LostTyped, RandsOk, EncryptsOk
<1>. QED  BY <1>2, <1>3, <1>4, <1>5, <1>6, <1>7 DEF HostMsg
-----------------------------------------------------------------------------
(* The answer to an LE_RAND. *)
LEMMA RandStep ==
    ASSUME SmpInv, RandAnswer
    PROVE  SmpInv'
<1>. USE InvParts, InvNext
<1>. DEFINE e == Head(randq)
            v == Head(randCmd).val
            k == lost["rand"]
<1>1. k \in Nat /\ lost["encrypt"] \in Nat
  BY SmpAssumption DEF LostTyped
<1>2. randCmd # <<>> /\ randq \in Seq(RandEntry) /\ randCmd \in Seq(RandRec)
      /\ Matched(randq, randCmd, k) /\ Len(randq) <= QCap
  BY DEF RandAnswer, RandsOk, RandOk
<1>3. randq # <<>> /\ Matched(Tail(randq), Tail(randCmd), k)
  BY <1>1, <1>2, PopMatched
<1>4. e \in RandEntry /\ Head(randCmd) \in RandRec /\ Tail(randq) \in Seq(RandEntry)
      /\ Tail(randCmd) \in Seq(RandRec) /\ Len(Tail(randq)) <= QCap
  BY <1>2, <1>3, SmpAssumption
<1>5. e.slot \in Slot /\ e.cb \in RandCb /\ v \in Half
  BY <1>4 DEF RandEntry, RandRec
<1>6. /\ randq' = Tail(randq) /\ randCmd' = Tail(randCmd)
      /\ \/ MrandHalf(e.slot, v) \/ MrandComplete(e.slot, v)
      /\ UNCHANGED <<conns, zero, peer, rx, lost, odd, dist>>
  BY <1>3 DEF RandAnswer
<1>7. RandsOk'
  BY <1>3, <1>4, <1>6 DEF RandsOk, RandOk
<1>8. dev[e.slot] \in Device /\ (dev[e.slot].st = "up" => dev[e.slot].conn \in Conn)
  BY <1>5 DEF DevTyped, SlotConn
<1>9. CASE MrandHalf(e.slot, v)
  <2>. DEFINE x == [dev[e.slot] EXCEPT !.rand = <<v, dev[e.slot].rand[2]>>]
  <2>1. <<v, dev[e.slot].rand[2]>> \in Half \X Half
    BY <1>5, ValuesTyped
  <2>2. x \in Device /\ x.st = dev[e.slot].st /\ x.conn = dev[e.slot].conn
    BY <1>8, <2>1 DEF Device
  <2>3. DevTyped'
    <3>1. dev' = [dev EXCEPT ![e.slot] = x]
      BY <1>9 DEF MrandHalf
    <3>. QED  BY <1>5, <1>8, <2>2, <3>1, SetDev
  <2>. QED  BY <1>6, <1>7, <1>9, <2>3 DEF MrandHalf, CountTyped, PeersTyped, HistTyped, LostTyped,
                                          EncryptsOk
<1>10. CASE MrandComplete(e.slot, v)
  <2>. DEFINE r == <<dev[e.slot].rand[1], v>>
              x == [dev[e.slot] EXCEPT !.rand = r, !.ltk = C1Input(e.slot, r)]
  <2>1. r \in Half \X Half
    BY <1>5, ValuesTyped
  <2>2. C1Input(e.slot, r) \in Value
    BY <1>5, <2>1, ValuesTyped
  <2>3. x \in Device /\ x.st = dev[e.slot].st /\ x.conn = dev[e.slot].conn
    BY <1>8, <2>1, <2>2 DEF Device
  <2>4. DevTyped'
    <3>1. dev' = [dev EXCEPT ![e.slot] = x]
      BY <1>10 DEF MrandComplete
    <3>. QED  BY <1>5, <1>8, <2>3, <3>1, SetDev
  <2>5. GetEncrypt(encryptq, encryptCmd, e.slot, "confirm_half", C1Input(e.slot, r))
    BY <1>10 DEF MrandComplete
  <2>6. EncryptsOk'
    <3>1. EncryptOk(encryptq', encryptCmd', lost["encrypt"])
      BY <1>1, <1>5, <2>2, <2>5, GetEncryptMatched DEF EncryptsOk, EncryptCb
    <3>. QED  BY <1>6, <3>1 DEF EncryptsOk
  <2>7. HistTyped'
    <3>1. full' \subseteq Conn
      BY <1>5, <2>5, FullTyped DEF HistTyped
    <3>. QED  BY <1>6, <3>1 DEF HistTyped
  <2>. QED  BY <1>6, <1>7, <2>4, <2>6, <2>7 DEF CountTyped, PeersTyped, LostTyped
<1>. QED  BY <1>6, <1>9, <1>10

(* The answer to an LE_ENCRYPT. *)
LEMMA EncryptStep ==
    ASSUME SmpInv, EncryptAnswer
    PROVE  SmpInv'
<1>. USE InvParts, InvNext
<1>. DEFINE e == Head(encryptq)
            q == Tail(encryptq)
            cmds == Tail(encryptCmd)
            v == Encrypted(Head(encryptCmd).val)
            k == lost["encrypt"]
<1>1. k \in Nat
  BY SmpAssumption DEF LostTyped
<1>2. encryptCmd # <<>> /\ encryptq \in Seq(EncryptEntry) /\ encryptCmd \in Seq(EncryptRec)
      /\ Matched(encryptq, encryptCmd, k) /\ Len(encryptq) <= QCap
  BY DEF EncryptAnswer, EncryptsOk, EncryptOk
<1>3. encryptq # <<>> /\ Matched(q, cmds, k)
  BY <1>1, <1>2, PopMatched
<1>4. e \in EncryptEntry /\ Head(encryptCmd) \in EncryptRec
  BY <1>2, <1>3
<1>5. q \in Seq(EncryptEntry) /\ cmds \in Seq(EncryptRec) /\ Len(q) <= QCap
  BY <1>2, <1>3, SmpAssumption
<1>6. EncryptOk(q, cmds, k)
  BY <1>3, <1>5 DEF EncryptOk
<1>7. e.slot \in Slot /\ Head(encryptCmd).val \in Value
  BY <1>4 DEF EncryptEntry, EncryptRec
<1>8. v \in Value /\ C2Input(e.slot, v) \in Value
  BY <1>7, ValuesTyped
<1>9. /\ \/ ConfirmHalf(e.slot, v, q, cmds)
         \/ ConfirmComplete(e.slot, v, q, cmds)
         \/ StkComplete(e.slot, v, q, cmds)
      /\ UNCHANGED <<conns, zero, randq, randCmd, lost, dist>>
  BY <1>3 DEF EncryptAnswer
<1>10. dev[e.slot] \in Device /\ (dev[e.slot].st = "up" => dev[e.slot].conn \in Conn)
  BY <1>7 DEF DevTyped, SlotConn
<1>11. ASSUME NEW y \in Value, dev' = [dev EXCEPT ![e.slot].ltk = y]
       PROVE  DevTyped'
  <2>. DEFINE x == [dev[e.slot] EXCEPT !.ltk = y]
  <2>1. x \in Device /\ x.st = dev[e.slot].st /\ x.conn = dev[e.slot].conn
    BY <1>10 DEF Device
  <2>2. dev' = [dev EXCEPT ![e.slot] = x]
    BY <1>11
  <2>. QED  BY <1>7, <1>10, <2>1, <2>2, SetDev
<1>12. CASE ConfirmHalf(e.slot, v, q, cmds)
  <2>1. DevTyped'
    BY <1>8, <1>11, <1>12 DEF ConfirmHalf
  <2>2. GetEncrypt(q, cmds, e.slot, "confirm_complete", C2Input(e.slot, v))
    BY <1>12 DEF ConfirmHalf
  <2>3. EncryptsOk'
    <3>1. EncryptOk(encryptq', encryptCmd', k)
      BY <1>1, <1>6, <1>7, <1>8, <2>2, GetEncryptMatched DEF EncryptCb
    <3>. QED  BY <1>9, <3>1 DEF EncryptsOk
  <2>4. HistTyped'
    <3>1. full' \subseteq Conn
      BY <1>7, <2>2, FullTyped DEF HistTyped
    <3>. QED  BY <1>9, <1>12, <3>1 DEF ConfirmHalf, HistTyped
  <2>. QED  BY <1>9, <1>12, <2>1, <2>3, <2>4 DEF ConfirmHalf, CountTyped, PeersTyped, LostTyped, RandsOk
<1>13. CASE ConfirmComplete(e.slot, v, q, cmds)
  <2>1. DevTyped'
    BY <1>8, <1>11, <1>13 DEF ConfirmComplete
  <2>2. EncryptsOk'
    BY <1>6, <1>9, <1>13 DEF ConfirmComplete, EncryptsOk
  <2>3. PeersTyped'
    <3>1. CASE Target(e.slot) = NoConn
      BY <1>13, <3>1 DEF ConfirmComplete, PeersTyped
    <3>2. CASE Target(e.slot) # NoConn
      <4>1. Target(e.slot) \in Conn
        BY <1>7, <3>2, TargetTyped
      <4>. QED  BY <1>8, <1>13, <3>2, <4>1, PeerConfirmTyped DEF ConfirmComplete
    <3>. QED  BY <3>1, <3>2
  <2>4. HistTyped'
    BY <1>7, <1>9, <1>13, StrayTyped DEF ConfirmComplete, HistTyped
  <2>. QED  BY <1>9, <2>1, <2>2, <2>3, <2>4 DEF CountTyped, LostTyped, RandsOk
<1>14. CASE StkComplete(e.slot, v, q, cmds)
  <2>1. DevTyped'
    BY <1>8, <1>11, <1>14 DEF StkComplete
  <2>2. EncryptsOk'
    BY <1>6, <1>9, <1>14 DEF StkComplete, EncryptsOk
  <2>3. PeersTyped'
    <3>1. CASE Target(e.slot) = NoConn
      BY <1>14, <3>1 DEF StkComplete, PeersTyped
    <3>2. CASE Target(e.slot) # NoConn
      <4>1. Target(e.slot) \in Conn
        BY <1>7, <3>2, TargetTyped
      <4>. QED  BY <1>8, <1>14, <3>2, <4>1, PeerEncryptTyped DEF StkComplete
    <3>. QED  BY <3>1, <3>2
  <2>4. HistTyped'
    BY <1>7, <1>9, <1>14, StrayTyped DEF StkComplete, HistTyped
  <2>. QED  BY <1>9, <2>1, <2>2, <2>3, <2>4 DEF CountTyped, LostTyped, RandsOk
<1>. QED  BY <1>9, <1>12, <1>13, <1>14

(* A command fails. *)
LEMMA ErrorSteps ==
    ASSUME SmpInv, RandError \/ EncryptError
    PROVE  SmpInv'
<1>. USE InvParts, InvNext
<1>1. lost["rand"] \in Nat /\ lost["encrypt"] \in Nat
  BY SmpAssumption DEF LostTyped
<1>2. CASE RandError
  <2>1. LostTyped' /\ lost'["rand"] = lost["rand"] + 1 /\ lost'["encrypt"] = lost["encrypt"]
    BY <1>1, <1>2, SmpAssumption DEF RandError, LostTyped
  <2>2. randCmd # <<>> /\ randq \in Seq(RandEntry) /\ randCmd \in Seq(RandRec)
        /\ Matched(randq, randCmd, lost["rand"]) /\ Len(randq) <= QCap
    BY <1>2 DEF RandError, RandsOk, RandOk
  <2>3. Matched(randq, Tail(randCmd), lost["rand"] + 1) /\ Tail(randCmd) \in Seq(RandRec)
    BY <1>1, <2>2, LoseMatched
  <2>4. RandsOk'
    BY <1>2, <2>1, <2>2, <2>3 DEF RandError, RandsOk, RandOk
  <2>5. EncryptsOk'
    BY <1>2, <2>1 DEF RandError, EncryptsOk
  <2>. QED  BY <1>2, <2>1, <2>4, <2>5 DEF RandError, DevTyped, SlotConn, CountTyped, PeersTyped, HistTyped
<1>3. CASE EncryptError
  <2>1. LostTyped' /\ lost'["encrypt"] = lost["encrypt"] + 1 /\ lost'["rand"] = lost["rand"]
    BY <1>1, <1>3, SmpAssumption DEF EncryptError, LostTyped
  <2>2. encryptCmd # <<>> /\ encryptq \in Seq(EncryptEntry) /\ encryptCmd \in Seq(EncryptRec)
        /\ Matched(encryptq, encryptCmd, lost["encrypt"]) /\ Len(encryptq) <= QCap
    BY <1>3 DEF EncryptError, EncryptsOk, EncryptOk
  <2>3. Matched(encryptq, Tail(encryptCmd), lost["encrypt"] + 1) /\ Tail(encryptCmd) \in Seq(EncryptRec)
    BY <1>1, <2>2, LoseMatched
  <2>4. EncryptsOk'
    BY <1>3, <2>1, <2>2, <2>3 DEF EncryptError, EncryptsOk, EncryptOk
  <2>5. RandsOk'
    BY <1>3, <2>1 DEF EncryptError, RandsOk
  <2>. QED  BY <1>3, <2>1, <2>4, <2>5 DEF EncryptError, DevTyped, SlotConn, CountTyped, PeersTyped, HistTyped
<1>. QED  BY <1>2, <1>3

-----------------------------------------------------------------------------
(* No device is paired with.                                                *)
LEMMA SmpInit ==
    ASSUME Init
    PROVE  SmpInv
<1>1. PeerOff \in Peer /\ <<>> \in Seq(Message)
  BY ResetTyped DEF PeerOff, Peer, PeerSt
<1>2. SlotConn
  BY DEF Init, SlotConn, Reset
<1>3. QueuesTyped
  BY SmpAssumption DEF Init, QueuesTyped
<1>4. QueuesMatched
  BY DEF Init, QueuesMatched, Matched
<1>5. TypeOK
  BY <1>1, <1>3, ResetTyped, SmpAssumption DEF Init, TypeOK, NoConn
<1>. QED  BY <1>2, <1>4, <1>5 DEF SmpInv

(* Every step preserves SmpInv.                                             *)
LEMMA SmpStep ==
    ASSUME SmpInv, [Next]_vars
    PROVE  SmpInv'
<1>1. CASE Next
  <2>1. ASSUME NEW d \in Slot,
               \/ Found(d) \/ ConnFailed(d) \/ DisconnComplete(d)
               \/ \E z \in BOOLEAN, ks \in Dists : ConnComplete(d, z, ks)
        PROVE  SmpInv'
    BY <2>1, LinkSteps
  <2>2. ASSUME NEW d \in Slot, HostMsg(d)
        PROVE  SmpInv'
    BY <2>2, MsgSteps
  <2>3. ASSUME Answer
        PROVE  SmpInv'
    BY <2>3, RandStep, EncryptStep, ErrorSteps DEF Answer
  <2>. QED  BY <1>1, <2>1, <2>2, <2>3, Zenon DEF Next
<1>2. CASE UNCHANGED vars
  BY <1>2 DEF vars, queues, hist, SmpInv, TypeOK, QueuesTyped, SlotConn, QueuesMatched
<1>. QED  BY <1>1, <1>2

(* Every reachable state has its type: the queues never hold more than fits *)
(* in their ring buffers, and a slot that is up belongs to a connection.    *)
THEOREM SmpTypeCorrect == Spec => []TypeOK
<1>1. Init => SmpInv
  BY SmpInit
<1>2. SmpInv /\ [Next]_vars => SmpInv'
  BY SmpStep
<1>3. SmpInv => TypeOK
  BY DEF SmpInv
<1>. QED  BY <1>1, <1>2, <1>3, PTL DEF Spec

(* The entries of randq and encryptq and the commands under way stay        *)
(* matched, shifted by exactly the number of commands that failed.          *)
THEOREM AnswersMatched == Spec => []QueuesMatched
<1>1. Init => SmpInv
  BY SmpInit
<1>2. SmpInv /\ [Next]_vars => SmpInv'
  BY SmpStep
<1>3. SmpInv => QueuesMatched
  BY DEF SmpInv
<1>. QED  BY <1>1, <1>2, <1>3, PTL DEF Spec
-----------------------------------------------------------------------------
(***************************************************************************)
(* The pairing.  While nothing disturbs it, it goes from phase to phase:    *)
(* what is on its way from the peer, what the peer waits for and which      *)
(* entries the slot has in the queues belong together.                      *)
(***************************************************************************)

(* Slot d is up for connection n. *)
Serves(d, n) == dev[d].st = "up" /\ dev[d].conn = n

(* Slots and connections: no two slots serve one connection, a peer that    *)
(* was not reset has a slot, and so has the connection with handle 0.       *)
Links ==
    /\ \A d, e \in Slot, n \in Conn : Serves(d, n) /\ Serves(e, n) => d = e
    /\ \A d \in Slot : dev[d].st = "up" => dev[d].conn <= conns
    /\ zero # NoConn => \E d \in Slot : Serves(d, zero)
    /\ \A n \in Conn : peer[n].st # "off" => \E d \in Slot : Serves(d, n)
    /\ \A n \in Conn : n > conns => dist[n] = 0

(* Slot d has no entry in queue q. *)
NoEntry(q, d) == \A i \in 1 .. Len(q) : q[i].slot # d

(* It has one, for callback cb, and value v is being encrypted for it. *)
OneEntry(q, c, d, cb, v) ==
    \E i \in 1 .. Len(q) :
        /\ q[i].slot = d /\ q[i].cb = cb /\ c[i].val = v
        /\ \A j \in 1 .. Len(q) : q[j].slot = d => j = i

(* The second half of its random number comes last. *)
HalfFirst(q, d) ==
    \A i, j \in 1 .. Len(q) :
        q[i].slot = d /\ q[j].slot = d /\ q[i].cb = "mrand_complete" => j <= i

Of(d, f) == [f |-> f, r |-> dev[d].rand, of |-> dev[d].conn]

(* The phases of a pairing that nothing disturbs. *)
Asked(d, n) ==
    /\ rx[n] = <<"pairing_rsp">> /\ peer[n].st = "confirm" /\ dist[n] = 0
    /\ NoEntry(randq, d) /\ NoEntry(encryptq, d)
Rolling(d, n) ==
    /\ rx[n] = <<>> /\ peer[n].st = "confirm" /\ dist[n] = 0
    /\ dev[d].pres = n /\ dev[d].rdist = peer[n].dist
    /\ HalfFirst(randq, d) /\ NoEntry(encryptq, d)
Confirming(d, n) ==
    /\ rx[n] = <<>> /\ peer[n].st = "confirm" /\ dist[n] = 0
    /\ dev[d].pres = n /\ dev[d].rdist = peer[n].dist
    /\ NoEntry(randq, d)
    /\ \/ OneEntry(encryptq, encryptCmd, d, "confirm_half", Of(d, "p1"))
       \/ OneEntry(encryptq, encryptCmd, d, "confirm_complete", Of(d, "p2"))
Confirmed(d, n) ==
    /\ rx[n] = <<"pairing_confirm">> /\ peer[n].st = "random" /\ dist[n] = 0
    /\ peer[n].confirm = Of(d, "confirm") /\ dev[d].rdist = peer[n].dist
    /\ NoEntry(randq, d) /\ NoEntry(encryptq, d)
Exchanged(d, n) ==
    /\ rx[n] = <<"pairing_random">> /\ peer[n].st = "encrypt" /\ dist[n] = 0
    /\ peer[n].stk = Of(d, "stk") /\ dev[d].rdist = peer[n].dist
    /\ NoEntry(randq, d) /\ NoEntry(encryptq, d)
Keyed(d, n) ==
    /\ rx[n] = <<>> /\ peer[n].st = "encrypt"
    /\ dist[n] = (IF dev[d].rdist = {} THEN 1 ELSE 0)
    /\ peer[n].stk = Of(d, "stk") /\ dev[d].rdist = peer[n].dist
    /\ NoEntry(randq, d)
    /\ \/ NoEntry(encryptq, d)
       \/ OneEntry(encryptq, encryptCmd, d, "stk_complete", Of(d, "r"))
(* The keys of rdist are those that are still to come. *)
Linked(d, n) ==
    /\ peer[n].st = "up"
    /\ dist[n] = (IF dev[d].rdist = {} THEN 1 ELSE 0)
    /\ NoEntry(randq, d) /\ NoEntry(encryptq, d)
    /\ \/ rx[n] = <<"encrypt_change">> \o KeysOf(dev[d].rdist) /\ dev[d].rdist = peer[n].dist
       \/ rx[n] = KeysOf(dev[d].rdist)
       \/ /\ "enc" \in dev[d].rdist
          /\ rx[n] = <<"master_ident">> \o KeysOf(dev[d].rdist \ {"enc"})

Phase(d, n) ==
    \/ Asked(d, n) \/ Rolling(d, n) \/ Confirming(d, n) \/ Confirmed(d, n)
    \/ Exchanged(d, n) \/ Keyed(d, n) \/ Linked(d, n)

InPhase == \A d \in Slot, n \in Conn : Serves(d, n) /\ ~Disturbed(n) => Phase(d, n)

PairInv == SmpInv /\ Links /\ InPhase

-----------------------------------------------------------------------------
(* Entries of a slot in a queue. *)

(* An entry of another slot changes nothing for slot d.                     *)
LEMMA EntryAppend ==
    ASSUME NEW S, NEW q \in Seq(S), NEW e \in S, NEW d
    PROVE  /\ e.slot # d /\ NoEntry(q, d) => NoEntry(Append(q, e), d)
           /\ e.slot # d /\ HalfFirst(q, d) => HalfFirst(Append(q, e), d)
           /\ (\A i \in 1 .. Len(q) : q[i].slot = d => q[i].cb # "mrand_complete")
                 => HalfFirst(Append(q, e), d)
<1>1. /\ Len(Append(q, e)) = Len(q) + 1 /\ Len(q) \in Nat
      /\ \A i \in 1 .. Len(q) : Append(q, e)[i] = q[i]
      /\ Append(q, e)[Len(q) + 1] = e
  BY AppendProperties
<1>2. \A i \in 1 .. Len(q) + 1 : i \in 1 .. Len(q) \/ i = Len(q) + 1
  BY <1>1
<1>3. ASSUME e.slot # d, NoEntry(q, d) PROVE NoEntry(Append(q, e), d)
  BY <1>1, <1>2, <1>3 DEF NoEntry
<1>4. ASSUME e.slot # d, HalfFirst(q, d) PROVE HalfFirst(Append(q, e), d)
  <2>1. \A i \in 1 .. Len(q) + 1 : Append(q, e)[i].slot = d =>
            i \in 1 .. Len(q) /\ Append(q, e)[i] = q[i]
    BY <1>1, <1>2, <1>4
  <2> QED BY <1>1, <1>4, <2>1 DEF HalfFirst
<1>5. ASSUME \A i \in 1 .. Len(q) : q[i].slot = d => q[i].cb # "mrand_complete"
      PROVE  HalfFirst(Append(q, e), d)
  <2>1. \A i \in 1 .. Len(q) + 1 :
            Append(q, e)[i].slot = d /\ Append(q, e)[i].cb = "mrand_complete" => i = Len(q) + 1
    BY <1>1, <1>2, <1>5
  <2>2. \A j \in 1 .. Len(q) + 1 : j <= Len(q) + 1
    BY <1>1
  <2> QED BY <1>1, <2>1, <2>2 DEF HalfFirst
<1> QED BY <1>3, <1>4, <1>5

(* Nor does taking the oldest entry, unless it is the one of slot d.        *)
LEMMA EntryTail ==
    ASSUME NEW S, NEW q \in Seq(S), q # <<>>, NEW d
    PROVE  /\ NoEntry(q, d) => NoEntry(Tail(q), d)
           /\ HalfFirst(q, d) => HalfFirst(Tail(q), d)
           /\ HalfFirst(q, d) /\ Head(q).slot = d /\ Head(q).cb = "mrand_complete"
                 => NoEntry(Tail(q), d)
<1>1. /\ Len(Tail(q)) = Len(q) - 1 /\ Len(q) \in Nat /\ Len(q) >= 1
      /\ \A i \in 1 .. Len(Tail(q)) : Tail(q)[i] = q[i + 1]
      /\ Head(q) = q[1]
  BY HeadTailProperties
<1>2. \A i \in 1 .. Len(Tail(q)) : i + 1 \in 1 .. Len(q) /\ ~(i + 1 <= 1)
  BY <1>1
<1>3. ASSUME NoEntry(q, d) PROVE NoEntry(Tail(q), d)
  BY <1>1, <1>2, <1>3 DEF NoEntry
<1>4. ASSUME HalfFirst(q, d) PROVE HalfFirst(Tail(q), d)
  <2> SUFFICES ASSUME NEW i \in 1 .. Len(Tail(q)), NEW j \in 1 .. Len(Tail(q)),
                      Tail(q)[i].slot = d, Tail(q)[j].slot = d,
                      Tail(q)[i].cb = "mrand_complete"
               PROVE  j <= i
    BY DEF HalfFirst
  <2>1. j + 1 <= i + 1
    BY <1>1, <1>2, <1>4 DEF HalfFirst
  <2> QED BY <1>1, <2>1
<1>5. ASSUME HalfFirst(q, d), Head(q).slot = d, Head(q).cb = "mrand_complete"
      PROVE  NoEntry(Tail(q), d)
  <2>1. 1 \in 1 .. Len(q)
    BY <1>1
  <2>2. \A j \in 1 .. Len(q) : q[j].slot = d => j <= 1
    BY <1>1, <1>5, <2>1 DEF HalfFirst
  <2> QED BY <1>1, <1>2, <2>2 DEF NoEntry
<1> QED BY <1>3, <1>4, <1>5

(* The one entry of a slot keeps its command when another slot asks.        *)
LEMMA OneAppend ==
    ASSUME NEW S, NEW T, NEW q \in Seq(S), NEW c \in Seq(T), Len(q) = Len(c),
           NEW e \in S, NEW x \in T, NEW d
    PROVE  /\ \A cb, v : e.slot # d /\ OneEntry(q, c, d, cb, v)
                 => OneEntry(Append(q, e), Append(c, x), d, cb, v)
           /\ e.slot = d /\ NoEntry(q, d)
                 => OneEntry(Append(q, e), Append(c, x), d, e.cb, x.val)
<1> DEFINE Q == Append(q, e)
           C == Append(c, x)
<1>1. /\ Len(Q) = Len(q) + 1 /\ Len(q) \in Nat
      /\ \A i \in 1 .. Len(q) : Q[i] = q[i] /\ C[i] = c[i]
      /\ Q[Len(q) + 1] = e /\ C[Len(q) + 1] = x
  BY AppendProperties
<1>2. /\ \A i \in 1 .. Len(q) + 1 : i \in 1 .. Len(q) \/ i = Len(q) + 1
      /\ \A i \in 1 .. Len(q) : i \in 1 .. Len(q) + 1
      /\ Len(q) + 1 \in 1 .. Len(q) + 1
  BY <1>1
<1> HIDE DEF Q, C
<1>3. ASSUME NEW cb, NEW v, e.slot # d, OneEntry(q, c, d, cb, v) PROVE OneEntry(Q, C, d, cb, v)
  <2>1. PICK i \in 1 .. Len(q) : /\ q[i].slot = d /\ q[i].cb = cb /\ c[i].val = v
                                 /\ \A j \in 1 .. Len(q) : q[j].slot = d => j = i
    BY <1>3 DEF OneEntry
  <2>2. i \in 1 .. Len(Q) /\ Q[i].slot = d /\ Q[i].cb = cb /\ C[i].val = v
    BY <1>1, <1>2, <2>1
  <2>3. \A j \in 1 .. Len(Q) : Q[j].slot = d => j = i
    BY <1>1, <1>2, <1>3, <2>1
  <2> QED BY <2>2, <2>3 DEF OneEntry
<1>4. ASSUME e.slot = d, NoEntry(q, d) PROVE OneEntry(Q, C, d, e.cb, x.val)
  <2>1. \A j \in 1 .. Len(Q) : Q[j].slot = d => j = Len(q) + 1
    BY <1>1, <1>2, <1>4 DEF NoEntry
  <2> QED BY <1>1, <1>2, <1>4, <2>1 DEF OneEntry
<1> QED BY <1>3, <1>4 DEF Q, C

(* The answers come in the order of the entries: the one of a slot has its  *)
(* own value.                                                               *)
LEMMA OneTail ==
    ASSUME NEW S, NEW T, NEW q \in Seq(S), NEW c \in Seq(T), Len(q) = Len(c), q # <<>>,
           NEW d, NEW cb, NEW v, OneEntry(q, c, d, cb, v)
    PROVE  /\ Head(q).slot # d => OneEntry(Tail(q), Tail(c), d, cb, v)
           /\ Head(q).slot = d => /\ Head(q).cb = cb /\ Head(c).val = v
                                  /\ NoEntry(Tail(q), d)
<1>0. c # <<>>
  BY EmptySeq
<1>1. /\ Len(Tail(q)) = Len(q) - 1 /\ Len(q) \in Nat /\ Len(q) >= 1
      /\ Len(Tail(c)) = Len(c) - 1
      /\ \A i \in 1 .. Len(Tail(q)) : Tail(q)[i] = q[i + 1]
      /\ \A i \in 1 .. Len(Tail(c)) : Tail(c)[i] = c[i + 1]
      /\ Head(q) = q[1] /\ Head(c) = c[1]
  BY <1>0, HeadTailProperties
<1>2. PICK i \in 1 .. Len(q) : /\ q[i].slot = d /\ q[i].cb = cb /\ c[i].val = v
                               /\ \A j \in 1 .. Len(q) : q[j].slot = d => j = i
  BY DEF OneEntry
<1>3. ASSUME Head(q).slot # d PROVE OneEntry(Tail(q), Tail(c), d, cb, v)
  <2>1. i # 1
    BY <1>1, <1>2, <1>3
  <2>2. i - 1 \in 1 .. Len(Tail(q)) /\ (i - 1) + 1 = i /\ i - 1 \in 1 .. Len(Tail(c))
    BY <1>1, <2>1
  <2>3. Tail(q)[i - 1] = q[i] /\ Tail(c)[i - 1] = c[i]
    BY <1>1, <2>2
  <2>4. \A j \in 1 .. Len(Tail(q)) : Tail(q)[j].slot = d => j = i - 1
    <3>1. \A j \in 1 .. Len(Tail(q)) : j + 1 \in 1 .. Len(q)
      BY <1>1
    <3>2. \A j \in 1 .. Len(Tail(q)) : Tail(q)[j].slot = d => j + 1 = i
      BY <1>1, <1>2, <3>1
    <3> QED BY <1>1, <3>2
  <2> QED BY <1>2, <2>2, <2>3, <2>4 DEF OneEntry
<1>4. ASSUME Head(q).slot = d PROVE Head(q).cb = cb /\ Head(c).val = v /\ NoEntry(Tail(q), d)
  <2>1. i = 1
    BY <1>1, <1>2, <1>4
  <2>2. \A j \in 1 .. Len(Tail(q)) : j + 1 \in 1 .. Len(q) /\ j + 1 # 1
    BY <1>1
  <2> QED BY <1>1, <1>2, <2>1, <2>2 DEF NoEntry
<1> QED BY <1>3, <1>4

(* The entries of slot d stay what they are. *)
Steady(q, c, q2, c2, d) ==
    /\ NoEntry(q, d) => NoEntry(q2, d)
    /\ HalfFirst(q, d) => HalfFirst(q2, d)
    /\ \A cb, v : OneEntry(q, c, d, cb, v) => OneEntry(q2, c2, d, cb, v)

(* An entry of another slot is added or taken. *)
LEMMA SteadyAppend ==
    ASSUME NEW S, NEW T, NEW q \in Seq(S), NEW c \in Seq(T), Len(q) = Len(c),
           NEW e \in S, NEW x \in T, NEW d, e.slot # d
    PROVE  Steady(q, c, Append(q, e), Append(c, x), d)
BY EntryAppend, OneAppend DEF Steady

(* Taking the entry of another slot leaves slot d in its phase.             *)
LEMMA SteadyTail ==
    ASSUME NEW S, NEW T, NEW q \in Seq(S), NEW c \in Seq(T), Len(q) = Len(c), q # <<>>,
           NEW d, Head(q).slot # d
    PROVE  Steady(q, c, Tail(q), Tail(c), d)
<1>1. \A cb, v : OneEntry(q, c, d, cb, v) => OneEntry(Tail(q), Tail(c), d, cb, v)
  BY OneTail
<1> QED BY <1>1, EntryTail DEF Steady

(* Queues that do not change                                                *)
LEMMA SteadySame == \A q, c, d : Steady(q, c, q, c, d)
BY DEF Steady

(* Two changes one after the other                                          *)
LEMMA SteadyTrans ==
    ASSUME NEW q, NEW c, NEW q1, NEW c1, NEW q2, NEW c2, NEW d,
           Steady(q, c, q1, c1, d), Steady(q1, c1, q2, c2, d)
    PROVE  Steady(q, c, q2, c2, d)
BY DEF Steady

(* Without failures entries and commands are paired from the first one on. *)
LEMMA Undisturbed ==
    ASSUME SmpInv, NEW n, ~Disturbed(n)
    PROVE  /\ lost["rand"] = 0 /\ lost["encrypt"] = 0 /\ n \notin odd
           /\ randq \in Seq(RandEntry) /\ randCmd \in Seq(RandRec)
           /\ encryptq \in Seq(EncryptEntry) /\ encryptCmd \in Seq(EncryptRec)
           /\ Len(randq) = Len(randCmd) /\ Len(encryptq) = Len(encryptCmd)
<1>1. lost["rand"] \in Nat /\ lost["encrypt"] \in Nat
  BY InvParts, SmpAssumption DEF LostTyped
<1>2. lost["rand"] = 0 /\ lost["encrypt"] = 0 /\ n \notin odd
  BY <1>1 DEF Disturbed
<1>3. RandOk(randq, randCmd, 0) /\ EncryptOk(encryptq, encryptCmd, 0)
  BY <1>2, InvParts DEF RandsOk, EncryptsOk
<1>4. /\ randq \in Seq(RandEntry) /\ randCmd \in Seq(RandRec)
      /\ encryptq \in Seq(EncryptEntry) /\ encryptCmd \in Seq(EncryptRec)
      /\ Len(randq) = Len(randCmd) + 0 /\ Len(encryptq) = Len(encryptCmd) + 0
  BY <1>3 DEF RandOk, EncryptOk, Matched
<1> QED BY <1>2, <1>4

(* bt_hci_get_encrypt for slot e. *)
LEMMA GetEncryptEntries ==
    ASSUME NEW q \in Seq(EncryptEntry), NEW c \in Seq(EncryptRec), Len(q) = Len(c),
           NEW e \in Slot, NEW cb \in EncryptCb, NEW v \in Value, GetEncrypt(q, c, e, cb, v)
    PROVE  /\ \A d : d # e => Steady(q, c, encryptq', encryptCmd', d)
           /\ NoEntry(q, e) => \/ NoEntry(encryptq', e)
                               \/ OneEntry(encryptq', encryptCmd', e, cb, v)
<1> DEFINE y == [slot |-> e, cb |-> cb]
           x == [slot |-> e, val |-> v]
<1>1. y \in EncryptEntry /\ x \in EncryptRec /\ y.slot = e /\ y.cb = cb /\ x.val = v
  BY DEF EncryptEntry, EncryptRec
<1>2. \/ encryptq' = Append(q, y) /\ encryptCmd' = Append(c, x)
      \/ encryptq' = q /\ encryptCmd' = c
  BY DEF GetEncrypt, Queued, Accepted
<1> HIDE DEF y, x
<1>3. CASE encryptq' = Append(q, y) /\ encryptCmd' = Append(c, x)
  <2>1. \A d : d # e => Steady(q, c, Append(q, y), Append(c, x), d)
    BY <1>1, SteadyAppend
  <2>2. NoEntry(q, e) => OneEntry(Append(q, y), Append(c, x), e, y.cb, x.val)
    BY <1>1, OneAppend
  <2> QED BY <1>1, <1>3, <2>1, <2>2
<1>4. CASE encryptq' = q /\ encryptCmd' = c
  BY <1>4, SteadySame
<1> QED BY <1>2, <1>3, <1>4

(* The two bt_hci_get_random of slot e. *)
LEMMA GetRandomsEntries ==
    ASSUME randq \in Seq(RandEntry), randCmd \in Seq(RandRec), Len(randq) = Len(randCmd),
           NEW e \in Slot, NEW n \in Conn, GetRandoms(e, n)
    PROVE  /\ \A d : d # e => Steady(randq, randCmd, randq', randCmd', d)
           /\ NoEntry(randq, e) => HalfFirst(randq', e)
<1> DEFINE h == [slot |-> e, cb |-> "mrand_half"]
           m == [slot |-> e, cb |-> "mrand_complete"]
           x == [slot |-> e, val |-> Random(n, 1)]
           y == [slot |-> e, val |-> Random(n, 2)]
           q1 == Append(randq, h)
           c1 == Append(randCmd, x)
<1>1. Random(n, 1) \in Half /\ Random(n, 2) \in Half
  BY SmpAssumption DEF Random, Half, Conn
<1>2. /\ h \in RandEntry /\ m \in RandEntry /\ x \in RandRec /\ y \in RandRec
      /\ h.slot = e /\ h.cb = "mrand_half" /\ m.slot = e
  BY <1>1 DEF RandEntry, RandRec, RandCb
<1>3. \/ randq' = Append(q1, m) /\ randCmd' = Append(c1, y)
      \/ randq' = q1 /\ randCmd' = c1
      \/ randq' = randq /\ randCmd' = randCmd
  BY DEF GetRandoms, Queued, Accepted
<1> HIDE DEF h, m, x, y
<1>4. /\ q1 \in Seq(RandEntry) /\ c1 \in Seq(RandRec) /\ Len(q1) = Len(c1)
      /\ Len(q1) = Len(randq) + 1 /\ Len(randq) \in Nat
      /\ \A i \in 1 .. Len(randq) : q1[i] = randq[i]
      /\ q1[Len(randq) + 1] = h
  BY <1>2, AppendProperties
<1>5. \A d : d # e => Steady(randq, randCmd, q1, c1, d)
  BY <1>2, SteadyAppend
<1> HIDE DEF q1, c1
<1>6. \A d : d # e => Steady(q1, c1, Append(q1, m), Append(c1, y), d)
  BY <1>2, <1>4, SteadyAppend
<1>7. ASSUME NEW d, d # e PROVE Steady(randq, randCmd, randq', randCmd', d)
  <2>1. Steady(randq, randCmd, q1, c1, d) /\ Steady(q1, c1, Append(q1, m), Append(c1, y), d)
    BY <1>5, <1>6, <1>7
  <2>2. Steady(randq, randCmd, Append(q1, m), Append(c1, y), d)
    BY <2>1, SteadyTrans
  <2> QED BY <1>3, <2>1, <2>2, SteadySame
<1>8. ASSUME NoEntry(randq, e) PROVE HalfFirst(randq', e)
  <2>1. \A i \in 1 .. Len(q1) : q1[i].slot = e => q1[i].cb # "mrand_complete"
    <3>1. \A i \in 1 .. Len(q1) : i \in 1 .. Len(randq) \/ i = Len(randq) + 1
      BY <1>4
    <3> QED BY <1>2, <1>4, <1>8, <3>1 DEF NoEntry
  <2>2. HalfFirst(Append(q1, m), e)
    BY <1>2, <1>4, <2>1, EntryAppend
  <2>3. HalfFirst(q1, e) /\ HalfFirst(randq, e)
    BY <1>8, <2>1 DEF HalfFirst, NoEntry
  <2> QED BY <1>3, <2>2, <2>3
<1> QED BY <1>7, <1>8

(* A step that is about other slots and connections keeps the phase. *)
LEMMA PhaseStays ==
    ASSUME NEW d \in Slot, NEW n \in Conn, Phase(d, n),
           dev'[d] = dev[d], peer'[n] = peer[n], rx'[n] = rx[n], dist'[n] = dist[n],
           Steady(randq, randCmd, randq', randCmd', d),
           Steady(encryptq, encryptCmd, encryptq', encryptCmd', d)
    PROVE  Phase(d, n)'
<1>1. \A f : Of(d, f)' = Of(d, f)
  BY DEF Of
<1>2. /\ NoEntry(randq, d) => NoEntry(randq', d)
      /\ HalfFirst(randq, d) => HalfFirst(randq', d)
      /\ NoEntry(encryptq, d) => NoEntry(encryptq', d)
      /\ \A cb, v : OneEntry(encryptq, encryptCmd, d, cb, v)
                       => OneEntry(encryptq', encryptCmd', d, cb, v)
  BY DEF Steady
<1>3. /\ NoEntry(randq, d)' <=> NoEntry(randq', d)
      /\ HalfFirst(randq, d)' <=> HalfFirst(randq', d)
      /\ NoEntry(encryptq, d)' <=> NoEntry(encryptq', d)
      /\ \A cb, f : OneEntry(encryptq, encryptCmd, d, cb, Of(d, f))'
                       <=> OneEntry(encryptq', encryptCmd', d, cb, Of(d, f))
  BY <1>1 DEF NoEntry, HalfFirst, OneEntry
<1>4. Asked(d, n) => Asked(d, n)'
  BY <1>2, <1>3 DEF Asked
<1>5. Rolling(d, n) => Rolling(d, n)'
  BY <1>2, <1>3 DEF Rolling
<1>6. Confirming(d, n) => Confirming(d, n)'
  BY <1>2, <1>3 DEF Confirming
<1>7. Confirmed(d, n) => Confirmed(d, n)'
  BY <1>1, <1>2, <1>3 DEF Confirmed
<1>8. Exchanged(d, n) => Exchanged(d, n)'
  BY <1>1, <1>2, <1>3 DEF Exchanged
<1>9. Keyed(d, n) => Keyed(d, n)'
  BY <1>1, <1>2, <1>3 DEF Keyed
<1>10. Linked(d, n) => Linked(d, n)'
  BY <1>2, <1>3 DEF Linked
<1> QED BY <1>4, <1>5, <1>6, <1>7, <1>8, <1>9, <1>10 DEF Phase

(* A step that changes neither which slot serves which connection nor the   *)
(* state of a peer without a slot.                                          *)
LEMMA LinksStay ==
    ASSUME SmpInv, Links, conns' = conns, zero' = zero,
           \A d \in Slot : dev'[d].st = dev[d].st /\ dev'[d].conn = dev[d].conn,
           \A n \in Conn : \/ peer'[n] = peer[n] /\ dist'[n] = dist[n]
                           \/ \E d \in Slot : Serves(d, n)
    PROVE  Links'
<1>1. \A d \in Slot : \A n : Serves(d, n)' <=> Serves(d, n)
  BY DEF Serves
<1>2. \A d, e \in Slot, n \in Conn : Serves(d, n)' /\ Serves(e, n)' => d = e
  BY <1>1 DEF Links
<1>3. \A d \in Slot : dev'[d].st = "up" => dev'[d].conn <= conns'
  BY DEF Links
<1>4. zero' # NoConn => \E d \in Slot : Serves(d, zero)'
  <2>1. ASSUME zero # NoConn PROVE \E d \in Slot : Serves(d, zero)'
    <3>1. PICK d \in Slot : Serves(d, zero)
      BY <2>1 DEF Links
    <3>2. Serves(d, zero)'
      BY <3>1 DEF Serves
    <3> QED BY <3>2
  <2> QED BY <2>1
<1>5. \A n \in Conn : peer'[n].st # "off" => \E d \in Slot : Serves(d, n)'
  BY <1>1 DEF Links
<1>6. \A n \in Conn : n > conns' => dist'[n] = 0
  <2> SUFFICES ASSUME NEW n \in Conn, n > conns' PROVE dist'[n] = 0
    OBVIOUS
  <2>1. n \in Nat /\ conns \in Nat
    BY InvParts, SmpAssumption DEF CountTyped, Conn
  <2>2. ASSUME NEW d \in Slot, Serves(d, n) PROVE FALSE
    BY <2>1, <2>2 DEF Serves, Links
  <2> QED BY <2>2 DEF Links
<1> QED BY <1>2, <1>3, <1>4, <1>5, <1>6 DEF Links

-----------------------------------------------------------------------------
(* bt_smp_hdlr, for the slot it is about and for the others. *)

(* A step writes to slot e and does not change which connection it serves. *)
Wrote(e) ==
    /\ \A d \in Slot : dev'[d].st = dev[d].st /\ dev'[d].conn = dev[d].conn
    /\ \A d \in Slot : d # e => dev'[d] = dev[d]

(* A handler that writes one slot leaves the state and connection of every  *)
(* slot.                                                                    *)
LEMMA SlotWrite ==
    ASSUME SmpInv, NEW e \in Slot, NEW x, x.st = dev[e].st, x.conn = dev[e].conn,
           dev' = [dev EXCEPT ![e] = x]
    PROVE  Wrote(e) /\ dev'[e] = x
<1>1. dev \in [Slot -> Device]
  BY InvParts DEF DevTyped
<1>2. dev'[e] = x /\ \A d \in Slot : d # e => dev'[d] = dev[d]
  BY <1>1
<1> QED BY <1>2 DEF Wrote

(* What the messages write. *)
LEMMA MsgWrites ==
    ASSUME SmpInv, NEW e \in Slot, dev[e].conn \in Conn
    PROVE  /\ PairingRsp(e) =>
                 /\ Wrote(e) /\ dev'[e].rand = dev[e].rand
                 /\ dev'[e].pres = dev[e].conn /\ dev'[e].rdist = peer[dev[e].conn].dist
           /\ PairingRandom(e) \/ EncryptChange(e) =>
                 /\ Wrote(e) /\ dev'[e].rand = dev[e].rand
                 /\ dev'[e].pres = dev[e].pres /\ dev'[e].rdist = dev[e].rdist
           /\ \A ks \in SUBSET Key : Distribute(e, ks) =>
                 /\ Wrote(e) /\ dev'[e].rand = dev[e].rand /\ dev'[e].rdist = ks
<1> DEFINE n == dev[e].conn
<1>0. dev \in [Slot -> Device] /\ dev[e] \in Device /\ peer[n] \in Peer
  BY InvParts DEF DevTyped, PeersTyped
<1>1. ASSUME PairingRsp(e)
      PROVE  /\ Wrote(e) /\ dev'[e].rand = dev[e].rand
             /\ dev'[e].pres = n /\ dev'[e].rdist = peer[n].dist
  <2> DEFINE x == [dev[e] EXCEPT !.rdist = peer[n].dist, !.pres = n]
  <2>1. /\ x.st = dev[e].st /\ x.conn = n /\ x.rand = dev[e].rand
        /\ x.pres = n /\ x.rdist = peer[n].dist
    BY <1>0 DEF Device
  <2>2. dev' = [dev EXCEPT ![e] = x]
    BY <1>1 DEF PairingRsp
  <2> HIDE DEF x
  <2> QED BY <2>1, <2>2, SlotWrite
<1>2. ASSUME PairingRandom(e)
      PROVE  /\ Wrote(e) /\ dev'[e].rand = dev[e].rand
             /\ dev'[e].pres = dev[e].pres /\ dev'[e].rdist = dev[e].rdist
  <2> DEFINE x == [dev[e] EXCEPT !.rrand = n, !.ltk = StkInput(e),
                                 !.flags = AttHidInit(@, dev[e].rdist)]
  <2>1. /\ x.st = dev[e].st /\ x.conn = n /\ x.rand = dev[e].rand
        /\ x.pres = dev[e].pres /\ x.rdist = dev[e].rdist
    BY <1>0 DEF Device
  <2>2. dev' = [dev EXCEPT ![e] = x]
    BY <1>2 DEF PairingRandom
  <2> HIDE DEF x
  <2> QED BY <2>1, <2>2, SlotWrite
<1>3. ASSUME EncryptChange(e)
      PROVE  /\ Wrote(e) /\ dev'[e].rand = dev[e].rand
             /\ dev'[e].pres = dev[e].pres /\ dev'[e].rdist = dev[e].rdist
  <2> DEFINE x == [dev[e] EXCEPT !.flags = {"intr_pending"}]
  <2>1. /\ x.st = dev[e].st /\ x.conn = n /\ x.rand = dev[e].rand
        /\ x.pres = dev[e].pres /\ x.rdist = dev[e].rdist
    BY <1>0 DEF Device
  <2>2. dev' = [dev EXCEPT ![e] = x]
    BY <1>3 DEF EncryptChange
  <2> HIDE DEF x
  <2> QED BY <2>1, <2>2, SlotWrite
<1>4. ASSUME NEW ks \in SUBSET Key, Distribute(e, ks)
      PROVE  Wrote(e) /\ dev'[e].rand = dev[e].rand /\ dev'[e].rdist = ks
  <2> DEFINE x == [dev[e] EXCEPT !.rdist = ks, !.flags = AttHidInit(@, ks)]
  <2>1. x.st = dev[e].st /\ x.conn = n /\ x.rand = dev[e].rand /\ x.rdist = ks
    BY <1>0 DEF Device
  <2>2. dev' = [dev EXCEPT ![e] = x]
    BY <1>4 DEF Distribute
  <2> HIDE DEF x
  <2> QED BY <2>1, <2>2, SlotWrite
<1> QED BY <1>1, <1>2, <1>3, <1>4

(* What no message of slot e changes. *)
LEMMA MsgFrame ==
    ASSUME SmpInv, NEW e \in Slot, HostMsg(e)
    PROVE  /\ dev[e].st = "up" /\ dev[e].conn \in Conn /\ Wrote(e)
           /\ conns' = conns /\ zero' = zero /\ lost' = lost /\ odd' = odd
           /\ \A m \in Conn : m # dev[e].conn =>
                 peer'[m] = peer[m] /\ rx'[m] = rx[m] /\ dist'[m] = dist[m]
           /\ \A d \in Slot, m \in Conn : d # e /\ ~Disturbed(m) =>
                 /\ Steady(randq, randCmd, randq', randCmd', d)
                 /\ Steady(encryptq, encryptCmd, encryptq', encryptCmd', d)
<1> DEFINE n == dev[e].conn
           Rest1 == /\ conns' = conns /\ zero' = zero /\ lost' = lost /\ odd' = odd
                    /\ \A m \in Conn : m # n =>
                          peer'[m] = peer[m] /\ rx'[m] = rx[m] /\ dist'[m] = dist[m]
           Calm == /\ randq' = randq /\ randCmd' = randCmd
                   /\ encryptq' = encryptq /\ encryptCmd' = encryptCmd
           Queues1 == \A d \in Slot, m \in Conn : d # e /\ ~Disturbed(m) =>
                 /\ Steady(randq, randCmd, randq', randCmd', d)
                 /\ Steady(encryptq, encryptCmd, encryptq', encryptCmd', d)
<1>0. dev[e].st = "up" /\ n \in Conn /\ dev[e] \in Device
      /\ peer \in [Conn -> Peer] /\ rx \in [Conn -> Seq(Message)] /\ dist \in [Conn -> Nat]
  <2>1. \E m : Got(e, m)
    BY DEF HostMsg, PairingRsp, PairingConfirm, PairingRandom, KeyReceived, OtherMsg,
           EncryptChange
  <2> QED BY <2>1, TakenTyped, InvParts DEF Got, PeersTyped, HistTyped
<1>c. Calm => Queues1
  BY SteadySame
<1>1. CASE PairingRsp(e)
  <2>1. Rest1
    BY <1>0, <1>1 DEF PairingRsp, Taken
  <2>2. Queues1
    <3> SUFFICES ASSUME NEW d \in Slot, NEW m \in Conn, d # e, ~Disturbed(m)
                 PROVE  /\ Steady(randq, randCmd, randq', randCmd', d)
                        /\ Steady(encryptq, encryptCmd, encryptq', encryptCmd', d)
      OBVIOUS
    <3>1. /\ randq \in Seq(RandEntry) /\ randCmd \in Seq(RandRec)
          /\ Len(randq) = Len(randCmd)
      BY Undisturbed
    <3>2. GetRandoms(e, n) /\ encryptq' = encryptq /\ encryptCmd' = encryptCmd
      BY <1>1 DEF PairingRsp
    <3> QED BY <1>0, <3>1, <3>2, GetRandomsEntries, SteadySame
  <2> QED BY <1>0, <1>1, <2>1, <2>2, MsgWrites
<1>2. CASE PairingRandom(e)
  <2>1. Rest1
    BY <1>0, <1>2 DEF PairingRandom, Taken
  <2>2. Queues1
    <3> SUFFICES ASSUME NEW d \in Slot, NEW m \in Conn, d # e, ~Disturbed(m)
                 PROVE  /\ Steady(randq, randCmd, randq', randCmd', d)
                        /\ Steady(encryptq, encryptCmd, encryptq', encryptCmd', d)
      OBVIOUS
    <3>1. /\ encryptq \in Seq(EncryptEntry) /\ encryptCmd \in Seq(EncryptRec)
          /\ Len(encryptq) = Len(encryptCmd)
      BY Undisturbed
    <3>2. /\ GetEncrypt(encryptq, encryptCmd, e, "stk_complete", StkInput(e))
          /\ randq' = randq /\ randCmd' = randCmd
      BY <1>2 DEF PairingRandom
    <3>3. StkInput(e) \in Value /\ "stk_complete" \in EncryptCb
      BY InvParts, ValuesTyped DEF EncryptCb
    <3>4. Steady(encryptq, encryptCmd, encryptq', encryptCmd', d)
      BY <3>1, <3>2, <3>3, GetEncryptEntries
    <3> QED BY <3>2, <3>4, SteadySame
  <2> QED BY <1>0, <1>2, <2>1, <2>2, MsgWrites
<1>3. CASE PairingConfirm(e)
  <2>1. Calm /\ dev' = dev /\ conns' = conns /\ zero' = zero /\ lost' = lost /\ odd' = odd
        /\ dist' = dist /\ PeerRandom(n, dev[e].rand, Rest(e))
    BY <1>3 DEF PairingConfirm, queues, hist
  <2>2. Rest1
    BY <1>0, <2>1 DEF PeerRandom, Fails
  <2> QED BY <1>0, <1>c, <2>1, <2>2 DEF Wrote
<1>4. CASE KeyReceived(e)
  <2>1. PICK m \in {"master_ident", "ident_addr_info", "signing_info"} :
            /\ Got(e, m) /\ Distribute(e, Remaining(e, m)) /\ Taken(e)
            /\ UNCHANGED <<conns, zero, queues, peer, lost, odd, full>>
    BY <1>4 DEF KeyReceived
  <2>2. Remaining(e, m) \in SUBSET Key
    BY <1>0, <2>1 DEF Remaining, Device
  <2>3. Wrote(e)
    BY <1>0, <2>1, <2>2, MsgWrites
  <2>4. Calm
    BY <2>1 DEF queues
  <2>5. Rest1
    BY <1>0, <2>1 DEF Taken, Distribute
  <2> QED BY <1>0, <1>c, <2>3, <2>4, <2>5
<1>5. CASE OtherMsg(e)
  <2>1. Calm /\ dev' = dev
    BY <1>5 DEF OtherMsg, queues
  <2>2. Rest1
    BY <1>0, <1>5 DEF OtherMsg, Taken, hist
  <2> QED BY <1>0, <1>c, <2>1, <2>2 DEF Wrote
<1>6. CASE EncryptChange(e)
  <2>1. Calm
    BY <1>6 DEF EncryptChange, queues
  <2>2. Rest1
    BY <1>0, <1>6 DEF EncryptChange, Taken, hist
  <2> QED BY <1>0, <1>6, <1>c, <2>1, <2>2, MsgWrites
<1> QED BY <1>1, <1>2, <1>3, <1>4, <1>5, <1>6 DEF HostMsg

(* A message and what comes after it. *)
LEMMA Before ==
    ASSUME NEW m \in Message, NEW s \in Seq(Message)
    PROVE  /\ <<m>> \o s # <<>> /\ Head(<<m>> \o s) = m /\ Tail(<<m>> \o s) = s
           /\ <<m>> \o s \in Seq(Message)
<1> DEFINE t == <<m>> \o s
<1>1. /\ t \in Seq(Message) /\ Len(t) = 1 + Len(s) /\ Len(s) \in Nat
      /\ t[1] = m /\ \A i \in 1 .. Len(s) : t[i + 1] = s[i]
  <2>1. <<m>> \in Seq(Message) /\ Len(<<m>>) = 1 /\ <<m>>[1] = m
    OBVIOUS
  <2>2. /\ t \in Seq(Message) /\ Len(t) = 1 + Len(s) /\ Len(s) \in Nat
        /\ \A i \in 1 .. 1 + Len(s) : t[i] = IF i <= 1 THEN <<m>>[i] ELSE s[i - 1]
    BY <2>1, ConcatProperties
  <2>3. 1 \in 1 .. 1 + Len(s)
    BY <2>2
  <2>4. \A i \in 1 .. Len(s) : i + 1 \in 1 .. 1 + Len(s) /\ ~(i + 1 <= 1) /\ (i + 1) - 1 = i
    BY <2>2
  <2>5. \A i \in 1 .. Len(s) : t[i + 1] = s[i]
    BY <2>2, <2>4
  <2> QED BY <2>1, <2>2, <2>3, <2>5
<1> HIDE DEF t
<1>2. t # <<>> /\ Head(t) = m
  BY <1>1
<1>3. Tail(t) = s
  <2>1. /\ Tail(t) \in Seq(Message) /\ Len(Tail(t)) = Len(t) - 1
        /\ \A i \in 1 .. Len(Tail(t)) : Tail(t)[i] = t[i + 1]
    BY <1>1, <1>2, HeadTailProperties
  <2>2. Len(Tail(t)) = Len(s)
    BY <1>1, <2>1
  <2> QED BY <1>1, <2>1, <2>2, SeqEqual
<1> QED BY <1>1, <1>2, <1>3 DEF t

(* The keys that come, one after the other. *)
LEMMA KeysNext ==
    ASSUME NEW s \in SUBSET Key
    PROVE  /\ s = {} => KeysOf(s) = <<>>
           /\ "enc" \in s =>
                 KeysOf(s) = <<"encrypt_info">> \o (<<"master_ident">> \o KeysOf(s \ {"enc"}))
           /\ "enc" \notin s /\ "id" \in s =>
                 KeysOf(s) = <<"ident_addr_info">> \o KeysOf(s \ {"id"})
           /\ "enc" \notin s /\ "id" \notin s /\ "sign" \in s =>
                 KeysOf(s) = <<"signing_info">> \o KeysOf(s \ {"sign"})
           /\ KeysOf(s) \in Seq(Message)
<1> DEFINE A == <<"encrypt_info", "master_ident">>
           b == IF "id" \in s THEN <<"ident_addr_info">> ELSE <<>>
           c == IF "sign" \in s THEN <<"signing_info">> ELSE <<>>
<1>1. /\ A \in Seq(Message) /\ b \in Seq(Message) /\ c \in Seq(Message)
      /\ <<"encrypt_info">> \in Seq(Message) /\ <<"master_ident">> \in Seq(Message)
      /\ <<"ident_addr_info">> \in Seq(Message) /\ <<"signing_info">> \in Seq(Message)
      /\ <<>> \in Seq(Message)
  <2>1. /\ A \in Seq(Message) /\ <<>> \in Seq(Message)
        /\ <<"encrypt_info">> \in Seq(Message) /\ <<"master_ident">> \in Seq(Message)
        /\ <<"ident_addr_info">> \in Seq(Message) /\ <<"signing_info">> \in Seq(Message)
    BY DEF Message
  <2> QED BY <2>1
<1>2. KeysOf(s) = ((IF "enc" \in s THEN A ELSE <<>>) \o b) \o c
  BY DEF KeysOf
<1>3. s = {} => KeysOf(s) = <<>>
  BY <1>1, <1>2, ConcatEmptySeq
<1>4. ASSUME "enc" \in s
      PROVE  KeysOf(s) = <<"encrypt_info">> \o (<<"master_ident">> \o KeysOf(s \ {"enc"}))
  <2>1. KeysOf(s \ {"enc"}) = (<<>> \o b) \o c
    BY DEF KeysOf
  <2>2. A = <<"encrypt_info">> \o <<"master_ident">>
    OBVIOUS
  <2> HIDE DEF A, b, c
  <2>3. KeysOf(s \ {"enc"}) = b \o c /\ b \o c \in Seq(Message)
    <3>1. <<>> \o b = b
      BY <1>1, ConcatEmptySeq
    <3>2. b \o c \in Seq(Message)
      BY <1>1, ConcatProperties
    <3>3. KeysOf(s \ {"enc"}) = b \o c
      BY <2>1, <3>1, Zenon
    <3> QED BY <3>2, <3>3
  <2>4. KeysOf(s) = A \o (b \o c)
    <3>1. (A \o b) \o c = A \o (b \o c)
      BY <1>1, ConcatAssociative
    <3> QED BY <1>2, <1>4, <3>1
  <2> DEFINE k == KeysOf(s \ {"enc"})
             x == <<"encrypt_info">>
             y == <<"master_ident">>
  <2>5. KeysOf(s) = (x \o y) \o k /\ k \in Seq(Message)
    BY <2>2, <2>3, <2>4
  <2>6. x \in Seq(Message) /\ y \in Seq(Message)
    BY <1>1
  <2> HIDE DEF k, x, y
  <2>7. KeysOf(s) = x \o (y \o k)
    BY <2>5, <2>6, ConcatAssociative
  <2> QED BY <2>7 DEF k, x, y
<1>5. ASSUME "enc" \notin s, "id" \in s
      PROVE  KeysOf(s) = <<"ident_addr_info">> \o KeysOf(s \ {"id"})
  <2>1. KeysOf(s \ {"id"}) = (<<>> \o <<>>) \o c
    BY <1>5 DEF KeysOf
  <2>2. KeysOf(s) = (<<>> \o <<"ident_addr_info">>) \o c
    BY <1>2, <1>5
  <2> HIDE DEF A, b, c
  <2> QED BY <1>1, <2>1, <2>2, ConcatEmptySeq
<1>6. ASSUME "enc" \notin s, "id" \notin s, "sign" \in s
      PROVE  KeysOf(s) = <<"signing_info">> \o KeysOf(s \ {"sign"})
  <2>1. KeysOf(s \ {"sign"}) = (<<>> \o <<>>) \o <<>>
    BY <1>6 DEF KeysOf
  <2>2. KeysOf(s) = (<<>> \o <<>>) \o <<"signing_info">>
    BY <1>2, <1>6
  <2> HIDE DEF A, b, c
  <2> QED BY <1>1, <2>1, <2>2, ConcatEmptySeq
<1> QED BY <1>3, <1>4, <1>5, <1>6, KeysTyped

(* What is at the head of the messages of a linked connection, and what     *)
(* comes after it, s being the keys that are still to come.                 *)
LEMMA LinkedHead ==
    ASSUME NEW s \in SUBSET Key, NEW r, r # <<>>,
           \/ r = <<"encrypt_change">> \o KeysOf(s)
           \/ r = KeysOf(s)
           \/ "enc" \in s /\ r = <<"master_ident">> \o KeysOf(s \ {"enc"})
    PROVE  \/ Head(r) = "encrypt_change" /\ Tail(r) = KeysOf(s)
           \/ /\ Head(r) = "encrypt_info" /\ "enc" \in s
              /\ Tail(r) = <<"master_ident">> \o KeysOf(s \ {"enc"})
           \/ Head(r) = "master_ident" /\ Tail(r) = KeysOf(s \ {"enc"})
           \/ Head(r) = "ident_addr_info" /\ Tail(r) = KeysOf(s \ {"id"})
           \/ Head(r) = "signing_info" /\ Tail(r) = KeysOf(s \ {"sign"})
<1>1. /\ KeysOf(s) \in Seq(Message) /\ KeysOf(s \ {"enc"}) \in Seq(Message)
      /\ KeysOf(s \ {"id"}) \in Seq(Message) /\ KeysOf(s \ {"sign"}) \in Seq(Message)
  BY KeysNext
<1>2. /\ "encrypt_change" \in Message /\ "encrypt_info" \in Message /\ "master_ident" \in Message
      /\ "ident_addr_info" \in Message /\ "signing_info" \in Message
  BY DEF Message
<1>3. CASE r = <<"encrypt_change">> \o KeysOf(s)
  <2>1. Head(r) = "encrypt_change" /\ Tail(r) = KeysOf(s)
    BY <1>1, <1>2, <1>3, Before
  <2> QED BY <2>1
<1>4. CASE "enc" \in s /\ r = <<"master_ident">> \o KeysOf(s \ {"enc"})
  <2>1. Head(r) = "master_ident" /\ Tail(r) = KeysOf(s \ {"enc"})
    BY <1>1, <1>2, <1>4, Before
  <2> QED BY <2>1
<1>5. CASE r = KeysOf(s)
  <2>1. CASE "enc" \in s
    <3> DEFINE t == <<"master_ident">> \o KeysOf(s \ {"enc"})
    <3>1. t \in Seq(Message)
      BY <1>1, <1>2, Before
    <3>2. r = <<"encrypt_info">> \o t
      BY <1>5, <2>1, KeysNext
    <3> HIDE DEF t
    <3>3. Head(r) = "encrypt_info" /\ Tail(r) = t
      BY <1>2, <3>1, <3>2, Before
    <3> QED BY <2>1, <3>3 DEF t
  <2>2. CASE "enc" \notin s /\ "id" \in s
    <3>1. r = <<"ident_addr_info">> \o KeysOf(s \ {"id"})
      BY <1>5, <2>2, KeysNext
    <3>2. Head(r) = "ident_addr_info" /\ Tail(r) = KeysOf(s \ {"id"})
      BY <1>1, <1>2, <3>1, Before
    <3> QED BY <3>2
  <2>3. CASE "enc" \notin s /\ "id" \notin s /\ "sign" \in s
    <3>1. r = <<"signing_info">> \o KeysOf(s \ {"sign"})
      BY <1>5, <2>3, KeysNext
    <3>2. Head(r) = "signing_info" /\ Tail(r) = KeysOf(s \ {"sign"})
      BY <1>1, <1>2, <3>1, Before
    <3> QED BY <3>2
  <2>4. CASE "enc" \notin s /\ "id" \notin s /\ "sign" \notin s
    <3>1. s = {}
      BY <2>4 DEF Key
    <3> QED BY <1>5, <3>1, KeysNext
  <2> QED BY <2>1, <2>2, <2>3, <2>4
<1> QED BY <1>3, <1>4, <1>5

(* The message at the head tells the phase. *)
LEMMA HeadPhase ==
    ASSUME SmpInv, NEW e \in Slot, NEW n \in Conn, Phase(e, n), rx[n] # <<>>
    PROVE  /\ Head(rx[n]) = "pairing_rsp" => Asked(e, n)
           /\ Head(rx[n]) = "pairing_confirm" => Confirmed(e, n)
           /\ Head(rx[n]) = "pairing_random" => Exchanged(e, n)
           /\ Head(rx[n]) \notin {"pairing_rsp", "pairing_confirm", "pairing_random"}
                 => Linked(e, n)
<1>1. Head(<<"pairing_rsp">>) = "pairing_rsp" /\ Head(<<"pairing_confirm">>) = "pairing_confirm"
      /\ Head(<<"pairing_random">>) = "pairing_random"
  OBVIOUS
<1>2. dev[e].rdist \in SUBSET Key
  BY InvParts DEF DevTyped, Device
<1>3. Linked(e, n) =>
          Head(rx[n]) \notin {"pairing_rsp", "pairing_confirm", "pairing_random"}
  <2>1. SUFFICES ASSUME Linked(e, n)
                 PROVE  Head(rx[n]) \notin {"pairing_rsp", "pairing_confirm", "pairing_random"}
    OBVIOUS
  <2>2. \/ rx[n] = <<"encrypt_change">> \o KeysOf(dev[e].rdist)
        \/ rx[n] = KeysOf(dev[e].rdist)
        \/ "enc" \in dev[e].rdist /\ rx[n] = <<"master_ident">> \o KeysOf(dev[e].rdist \ {"enc"})
    BY <2>1 DEF Linked
  <2>3. Head(rx[n]) \in {"encrypt_change", "encrypt_info", "master_ident", "ident_addr_info",
                         "signing_info"}
    BY <1>2, <2>2, LinkedHead
  <2> QED BY <2>3
<1>4. Asked(e, n) => Head(rx[n]) = "pairing_rsp"
  BY <1>1 DEF Asked
<1>5. Confirmed(e, n) => Head(rx[n]) = "pairing_confirm"
  BY <1>1 DEF Confirmed
<1>6. Exchanged(e, n) => Head(rx[n]) = "pairing_random"
  BY <1>1 DEF Exchanged
<1>7. ~Rolling(e, n) /\ ~Confirming(e, n) /\ ~Keyed(e, n)
  BY DEF Rolling, Confirming, Keyed
<1> QED BY <1>3, <1>4, <1>5, <1>6, <1>7 DEF Phase

(* The message of the slot takes its pairing to the next phase. *)
LEMMA MsgPhase ==
    ASSUME SmpInv, NEW e \in Slot, NEW n \in Conn, HostMsg(e), Serves(e, n), ~Disturbed(n),
           Phase(e, n)
    PROVE  Phase(e, n)'
<1>0. /\ dev[e].conn = n /\ dev[e].st = "up" /\ dev[e] \in Device /\ dev \in [Slot -> Device]
      /\ peer \in [Conn -> Peer] /\ rx \in [Conn -> Seq(Message)] /\ dist \in [Conn -> Nat]
  BY InvParts DEF Serves, DevTyped, PeersTyped, HistTyped
<1>1. /\ NoEntry(randq, e)' <=> NoEntry(randq', e)
      /\ HalfFirst(randq, e)' <=> HalfFirst(randq', e)
      /\ NoEntry(encryptq, e)' <=> NoEntry(encryptq', e)
  BY DEF NoEntry, HalfFirst
<1>2. /\ randq \in Seq(RandEntry) /\ randCmd \in Seq(RandRec)
      /\ encryptq \in Seq(EncryptEntry) /\ encryptCmd \in Seq(EncryptRec)
      /\ Len(randq) = Len(randCmd) /\ Len(encryptq) = Len(encryptCmd)
  BY Undisturbed
<1>3. Wrote(e) /\ dev'[e].conn = n /\ dev'[e].st = "up"
  BY <1>0, MsgFrame DEF Wrote
<1>4. \A m : Got(e, m) => rx[n] # <<>> /\ Head(rx[n]) = m
  BY <1>0 DEF Got
<1>5. Taken(e) => rx'[n] = Tail(rx[n])
  BY <1>0 DEF Taken
<1>6. /\ Tail(<<"pairing_rsp">>) = <<>> /\ Tail(<<"pairing_confirm">>) = <<>>
      /\ Tail(<<"pairing_random">>) = <<>>
  OBVIOUS
<1>7. CASE PairingRsp(e)
  <2>1. Asked(e, n)
    BY <1>4, <1>7, HeadPhase DEF PairingRsp
  <2>2. /\ rx'[n] = <<>> /\ peer' = peer /\ dist' = dist
        /\ encryptq' = encryptq /\ GetRandoms(e, n)
    BY <1>0, <1>5, <1>6, <1>7, <2>1 DEF PairingRsp, Asked
  <2>3. dev'[e].pres = n /\ dev'[e].rdist = peer[n].dist
    BY <1>0, <1>7, MsgWrites
  <2>4. HalfFirst(randq', e)
    BY <1>2, <2>1, <2>2, GetRandomsEntries DEF Asked
  <2>5. Rolling(e, n)'
    BY <1>1, <2>1, <2>2, <2>3, <2>4 DEF Asked, Rolling
  <2> QED BY <2>5 DEF Phase
<1>8. CASE PairingConfirm(e)
  <2>1. Confirmed(e, n)
    BY <1>4, <1>8, HeadPhase DEF PairingConfirm
  <2>2. /\ dev' = dev /\ randq' = randq /\ encryptq' = encryptq /\ dist' = dist
        /\ PeerRandom(n, dev[e].rand, Rest(e))
    BY <1>0, <1>8 DEF PairingConfirm, queues, hist
  <2>3. Rest(e) = <<>>
    BY <1>0, <1>6, <2>1 DEF Rest, Confirmed
  <2>4. peer[n].st = "random" /\ peer[n].confirm = [f |-> "confirm", r |-> dev[e].rand, of |-> n]
    BY <1>0, <2>1 DEF Confirmed, Of
  <2>5. /\ peer' = [peer EXCEPT ![n].st = "encrypt",
                                ![n].stk = [f |-> "stk", r |-> dev[e].rand, of |-> n]]
        /\ rx' = [rx EXCEPT ![n] = Append(<<>>, "pairing_random")]
    BY <2>2, <2>3, <2>4 DEF PeerRandom
  <2>6. rx'[n] = <<"pairing_random">>
    BY <1>0, <2>5
  <2> DEFINE k == [f |-> "stk", r |-> dev[e].rand, of |-> n]
             p == [peer[n] EXCEPT !.st = "encrypt", !.stk = k]
  <2>7. peer[n] \in Peer
    BY <1>0
  <2>8. p.st = "encrypt" /\ p.stk = k /\ p.dist = peer[n].dist
    <3> HIDE DEF k
    <3> QED BY <2>7 DEF Peer
  <2>9. peer'[n] = p
    BY <1>0, <2>5
  <2>10. Of(e, "stk")' = k
    BY <1>0, <2>2 DEF Of
  <2> HIDE DEF k, p
  <2>11. Exchanged(e, n)'
    BY <1>1, <2>1, <2>2, <2>6, <2>8, <2>9, <2>10 DEF Confirmed, Exchanged
  <2> QED BY <2>11 DEF Phase
<1>9. CASE PairingRandom(e)
  <2>1. Exchanged(e, n)
    BY <1>4, <1>9, HeadPhase DEF PairingRandom
  <2>2. /\ rx'[n] = <<>> /\ peer' = peer /\ randq' = randq /\ randCmd' = randCmd
        /\ GetEncrypt(encryptq, encryptCmd, e, "stk_complete", StkInput(e))
    BY <1>0, <1>5, <1>6, <1>9, <2>1 DEF PairingRandom, Exchanged
  <2>3. dev'[e].rand = dev[e].rand /\ dev'[e].rdist = dev[e].rdist
    BY <1>0, <1>9, MsgWrites
  <2>4. StkInput(e) = Of(e, "r") /\ \A f : Of(e, f)' = Of(e, f)
    BY <1>0, <1>3, <2>3 DEF StkInput, Of
  <2>5. \/ NoEntry(encryptq', e)
        \/ OneEntry(encryptq', encryptCmd', e, "stk_complete", Of(e, "r"))
    <3>1. StkInput(e) \in Value /\ "stk_complete" \in EncryptCb
      BY InvParts, ValuesTyped DEF EncryptCb
    <3> QED BY <1>2, <2>1, <2>2, <2>4, <3>1, GetEncryptEntries DEF Exchanged
  <2>6. OneEntry(encryptq, encryptCmd, e, "stk_complete", Of(e, "r"))'
            <=> OneEntry(encryptq', encryptCmd', e, "stk_complete", Of(e, "r"))
    BY <2>4 DEF OneEntry
  <2>7. dist'[n] = (IF dev[e].rdist = {} THEN 1 ELSE 0)
    <3>1. dist[n] = 0
      BY <2>1 DEF Exchanged
    <3>2. dist' = IF dev[e].rdist = {} THEN [dist EXCEPT ![n] = @ + 1] ELSE dist
      BY <1>0, <1>9 DEF PairingRandom
    <3> QED BY <1>0, <3>1, <3>2
  <2>8. Keyed(e, n)'
    BY <1>1, <2>1, <2>2, <2>3, <2>4, <2>5, <2>6, <2>7 DEF Exchanged, Keyed
  <2> QED BY <2>8 DEF Phase
<1>10. ASSUME NEW m, Got(e, m), m \notin {"pairing_rsp", "pairing_confirm", "pairing_random"}
       PROVE  /\ Linked(e, n) /\ Head(rx[n]) = m /\ dev[e].rdist \in SUBSET Key
              /\ \/ m = "encrypt_change" /\ Tail(rx[n]) = KeysOf(dev[e].rdist)
                 \/ /\ m = "encrypt_info" /\ "enc" \in dev[e].rdist
                    /\ Tail(rx[n]) = <<"master_ident">> \o KeysOf(dev[e].rdist \ {"enc"})
                 \/ m = "master_ident" /\ Tail(rx[n]) = KeysOf(dev[e].rdist \ {"enc"})
                 \/ m = "ident_addr_info" /\ Tail(rx[n]) = KeysOf(dev[e].rdist \ {"id"})
                 \/ m = "signing_info" /\ Tail(rx[n]) = KeysOf(dev[e].rdist \ {"sign"})
  <2>1. rx[n] # <<>> /\ Head(rx[n]) = m
    BY <1>4, <1>10
  <2>2. Linked(e, n)
    BY <1>10, <2>1, HeadPhase
  <2>3. dev[e].rdist \in SUBSET Key
    BY <1>0 DEF Device
  <2>4. \/ rx[n] = <<"encrypt_change">> \o KeysOf(dev[e].rdist)
        \/ rx[n] = KeysOf(dev[e].rdist)
        \/ "enc" \in dev[e].rdist /\ rx[n] = <<"master_ident">> \o KeysOf(dev[e].rdist \ {"enc"})
    BY <2>2 DEF Linked
  <2> QED BY <2>1, <2>2, <2>3, <2>4, LinkedHead
<1>11. CASE KeyReceived(e)
  <2>1. PICK m \in {"master_ident", "ident_addr_info", "signing_info"} :
            /\ Got(e, m) /\ Distribute(e, Remaining(e, m)) /\ Taken(e)
            /\ UNCHANGED <<conns, zero, queues, peer, lost, odd, full>>
    BY <1>11 DEF KeyReceived
  <2> DEFINE ks == Remaining(e, m)
  <2>2. /\ Linked(e, n) /\ dev[e].rdist \in SUBSET Key /\ Tail(rx[n]) = KeysOf(ks)
        /\ ks \in SUBSET Key
    BY <1>10, <2>1 DEF Remaining
  <2>3. dev[e].rdist # {}
    <3>1. rx[n] # <<>> /\ Head(rx[n]) = m
      BY <1>4, <2>1
    <3>2. SUFFICES ASSUME dev[e].rdist = {} PROVE FALSE
      OBVIOUS
    <3>3. \/ rx[n] = <<"encrypt_change">> \o KeysOf({}) \/ rx[n] = KeysOf({})
      BY <2>2, <3>2 DEF Linked
    <3>4. KeysOf({}) = <<>> /\ "encrypt_change" \in Message
      BY KeysNext DEF Message
    <3>5. KeysOf({}) \in Seq(Message)
      BY <3>4, EmptySeq
    <3>6. Head(<<"encrypt_change">> \o KeysOf({})) = "encrypt_change"
      BY <3>4, <3>5, Before
    <3> QED BY <2>1, <3>1, <3>3, <3>4, <3>6
  <2>4. dist[n] = 0
    BY <2>2, <2>3 DEF Linked
  <2>5. dev'[e].rdist = ks
    BY <1>0, <2>1, <2>2, MsgWrites
  <2>6. dist'[n] = (IF ks = {} THEN 1 ELSE 0)
    <3>1. dist' = IF ks = {} THEN [dist EXCEPT ![n] = @ + 1] ELSE dist
      BY <1>0, <2>1 DEF Distribute
    <3> HIDE DEF ks
    <3> QED BY <1>0, <2>4, <3>1
  <2>7. rx'[n] = KeysOf(ks)
    BY <1>5, <2>1, <2>2
  <2>8. randq' = randq /\ encryptq' = encryptq /\ peer' = peer
    BY <2>1 DEF queues
  <2> HIDE DEF ks
  <2>9. Linked(e, n)'
    BY <1>1, <2>2, <2>5, <2>6, <2>7, <2>8 DEF Linked
  <2> QED BY <2>9 DEF Phase
<1>12. CASE OtherMsg(e)
  <2>1. PICK m \in {"pairing_fail", "encrypt_info", "encrypt_error"} : Got(e, m)
    BY <1>12 DEF OtherMsg
  <2>2. /\ Linked(e, n) /\ "enc" \in dev[e].rdist
        /\ Tail(rx[n]) = <<"master_ident">> \o KeysOf(dev[e].rdist \ {"enc"})
    BY <1>10, <2>1
  <2>3. /\ rx'[n] = Tail(rx[n]) /\ dev' = dev /\ peer' = peer /\ dist' = dist
        /\ randq' = randq /\ encryptq' = encryptq
    BY <1>5, <1>12 DEF OtherMsg, queues, hist
  <2>4. Linked(e, n)'
    BY <1>1, <2>2, <2>3 DEF Linked
  <2> QED BY <2>4 DEF Phase
<1>13. CASE EncryptChange(e)
  <2>1. Linked(e, n) /\ Tail(rx[n]) = KeysOf(dev[e].rdist)
    BY <1>10, <1>13 DEF EncryptChange
  <2>2. /\ rx'[n] = Tail(rx[n]) /\ peer' = peer /\ dist' = dist
        /\ randq' = randq /\ encryptq' = encryptq
    BY <1>5, <1>13 DEF EncryptChange, queues, hist
  <2>3. dev'[e].rdist = dev[e].rdist
    BY <1>0, <1>13, MsgWrites
  <2>4. Linked(e, n)'
    BY <1>1, <2>1, <2>2, <2>3 DEF Linked
  <2> QED BY <2>4 DEF Phase
<1> QED BY <1>7, <1>8, <1>9, <1>11, <1>12, <1>13 DEF HostMsg

(* A step about slot e that leaves the connections and the failures alone.  *)
(* What is left to show is that the entries of the other slots stay, and    *)
(* that the pairing of e itself stays in a phase.                           *)
LEMMA SlotStep ==
    ASSUME PairInv, SmpInv', NEW e \in Slot, Wrote(e),
           conns' = conns, zero' = zero, lost' = lost, odd \subseteq odd',
           \A m \in Conn : \/ Serves(e, m)
                           \/ m \in odd' /\ \E d \in Slot : Serves(d, m)
                           \/ peer'[m] = peer[m] /\ rx'[m] = rx[m],
           \A m \in Conn : Serves(e, m) \/ dist'[m] = dist[m],
           \A d \in Slot, m \in Conn : d # e /\ ~Disturbed(m) =>
               /\ Steady(randq, randCmd, randq', randCmd', d)
               /\ Steady(encryptq, encryptCmd, encryptq', encryptCmd', d),
           \A n \in Conn : Serves(e, n) /\ ~Disturbed(n) /\ Phase(e, n) => Phase(e, n)'
    PROVE  PairInv'
<1>1. Links'
  <2>1. SmpInv /\ Links
    BY DEF PairInv
  <2>2. \A d \in Slot : dev'[d].st = dev[d].st /\ dev'[d].conn = dev[d].conn
    BY DEF Wrote
  <2>3. \A n \in Conn : \/ peer'[n] = peer[n] /\ dist'[n] = dist[n]
                        \/ \E d \in Slot : Serves(d, n)
    OBVIOUS
  <2> QED BY <2>1, <2>2, <2>3, LinksStay
<1>2. ASSUME NEW d \in Slot, NEW m \in Conn, Serves(d, m)', ~Disturbed(m)'
      PROVE  Phase(d, m)'
  <2>1. Serves(d, m) /\ ~Disturbed(m) /\ m \notin odd'
    BY <1>2 DEF Serves, Disturbed, Wrote
  <2>2. Phase(d, m)
    BY <2>1 DEF PairInv, InPhase
  <2>3. CASE d = e
    BY <2>1, <2>2, <2>3
  <2>4. CASE d # e
    <3>1. ~Serves(e, m)
      BY <2>1, <2>4 DEF PairInv, Links
    <3>2. peer'[m] = peer[m] /\ rx'[m] = rx[m] /\ dist'[m] = dist[m]
      BY <2>1, <3>1
    <3>3. dev'[d] = dev[d]
      BY <2>4 DEF Wrote
    <3>4. /\ Steady(randq, randCmd, randq', randCmd', d)
          /\ Steady(encryptq, encryptCmd, encryptq', encryptCmd', d)
      BY <2>1, <2>4
    <3> QED BY <2>2, <3>2, <3>3, <3>4, PhaseStays
  <2> QED BY <2>3, <2>4
<1> QED BY <1>1, <1>2 DEF PairInv, InPhase

(* A message from the peer: bt_smp_hdlr takes the pairing of its slot on.   *)
LEMMA MsgPair ==
    ASSUME PairInv, NEW e \in Slot, HostMsg(e)
    PROVE  PairInv'
<1>1. SmpInv /\ SmpInv'
  BY MsgSteps DEF PairInv
<1>2. /\ dev[e].st = "up" /\ dev[e].conn \in Conn /\ Wrote(e)
      /\ conns' = conns /\ zero' = zero /\ lost' = lost /\ odd' = odd
      /\ \A m \in Conn : m # dev[e].conn =>
            peer'[m] = peer[m] /\ rx'[m] = rx[m] /\ dist'[m] = dist[m]
      /\ \A d \in Slot, m \in Conn : d # e /\ ~Disturbed(m) =>
            /\ Steady(randq, randCmd, randq', randCmd', d)
            /\ Steady(encryptq, encryptCmd, encryptq', encryptCmd', d)
  BY <1>1, MsgFrame
<1>3. \A m \in Conn : ~Serves(e, m) =>
          peer'[m] = peer[m] /\ rx'[m] = rx[m] /\ dist'[m] = dist[m]
  BY <1>2 DEF Serves
<1>4. \A n \in Conn : Serves(e, n) /\ ~Disturbed(n) /\ Phase(e, n) => Phase(e, n)'
  BY <1>1, MsgPhase
<1> QED BY <1>1, <1>2, <1>3, <1>4, SlotStep

-----------------------------------------------------------------------------
(* The answers of the controller. *)

(* What an answer to LE_RAND writes. *)
LEMMA RandWrites ==
    ASSUME SmpInv, RandAnswer
    PROVE  LET e == Head(randq).slot
               v == [f |-> "p1", r |-> dev'[e].rand, of |-> dev[e].pres]
           IN  /\ e \in Slot /\ randq # <<>> /\ Wrote(e)
               /\ dev'[e].pres = dev[e].pres /\ dev'[e].rdist = dev[e].rdist
               /\ randq' = Tail(randq) /\ randCmd' = Tail(randCmd)
               /\ UNCHANGED <<conns, zero, peer, rx, lost, odd, dist>>
               /\ \/ encryptq' = encryptq /\ encryptCmd' = encryptCmd
                  \/ /\ Head(randq).cb = "mrand_complete" /\ v \in Value
                     /\ GetEncrypt(encryptq, encryptCmd, e, "confirm_half", v)
<1> DEFINE e == Head(randq).slot
           h == Head(randCmd).val
           w == [f |-> "p1", r |-> dev'[e].rand, of |-> dev[e].pres]
<1>0. lost["rand"] \in Nat
  BY InvParts, SmpAssumption DEF LostTyped
<1>1. randCmd # <<>> /\ randq \in Seq(RandEntry) /\ randCmd \in Seq(RandRec)
      /\ Matched(randq, randCmd, lost["rand"])
  BY InvParts DEF RandAnswer, RandsOk, RandOk
<1>2. randq # <<>>
  BY <1>0, <1>1, PopMatched
<1>3. Head(randq) \in RandEntry /\ Head(randCmd) \in RandRec
  BY <1>1, <1>2
<1>4. e \in Slot /\ h \in Half
  BY <1>3 DEF RandEntry, RandRec
<1>5. /\ randq' = Tail(randq) /\ randCmd' = Tail(randCmd)
      /\ UNCHANGED <<conns, zero, peer, rx, lost, odd, dist>>
      /\ \/ MrandHalf(e, h)
         \/ Head(randq).cb = "mrand_complete" /\ MrandComplete(e, h)
  BY <1>2 DEF RandAnswer
<1>6. dev[e] \in Device
  BY <1>4, InvParts DEF DevTyped
<1> HIDE DEF e, h
<1>7. CASE MrandHalf(e, h)
  <2> DEFINE x == [dev[e] EXCEPT !.rand = <<h, dev[e].rand[2]>>]
  <2>1. /\ x.st = dev[e].st /\ x.conn = dev[e].conn /\ x.pres = dev[e].pres
        /\ x.rdist = dev[e].rdist
    BY <1>6 DEF Device
  <2>2. dev' = [dev EXCEPT ![e] = x]
    BY <1>7 DEF MrandHalf
  <2> HIDE DEF x
  <2>3. Wrote(e) /\ dev'[e] = x
    BY <1>4, <2>1, <2>2, SlotWrite
  <2>4. encryptq' = encryptq /\ encryptCmd' = encryptCmd
    BY <1>7 DEF MrandHalf
  <2> QED BY <1>2, <1>4, <1>5, <2>1, <2>3, <2>4 DEF e
<1>8. CASE Head(randq).cb = "mrand_complete" /\ MrandComplete(e, h)
  <2> DEFINE r == <<dev[e].rand[1], h>>
             x == [dev[e] EXCEPT !.rand = r, !.ltk = C1Input(e, r)]
  <2>1. r \in Half \X Half
    BY <1>4, InvParts, ValuesTyped
  <2>2. C1Input(e, r) \in Value
    BY <1>4, <2>1, InvParts, ValuesTyped
  <2>3. GetEncrypt(encryptq, encryptCmd, e, "confirm_half", C1Input(e, r))
        /\ dev' = [dev EXCEPT ![e] = x]
    BY <1>8 DEF MrandComplete
  <2> HIDE DEF r
  <2>4. /\ x.st = dev[e].st /\ x.conn = dev[e].conn /\ x.pres = dev[e].pres
        /\ x.rdist = dev[e].rdist /\ x.rand = r
    BY <1>6, <2>1, <2>2 DEF Device
  <2> HIDE DEF x
  <2>5. Wrote(e) /\ dev'[e] = x
    BY <1>4, <2>3, <2>4, SlotWrite
  <2>6. C1Input(e, r) = w
    BY <2>4, <2>5 DEF C1Input
  <2> QED BY <1>2, <1>4, <1>5, <1>8, <2>2, <2>3, <2>4, <2>5, <2>6 DEF e
<1> QED BY <1>5, <1>7, <1>8

(* LE_RAND complete: the half goes to the slot that asked for it.           *)
LEMMA RandPair ==
    ASSUME PairInv, RandAnswer
    PROVE  PairInv'
<1>1. SmpInv /\ SmpInv'
  BY RandStep DEF PairInv
<1>0. PICK e \in Slot : e = Head(randq).slot
  BY <1>1, RandWrites
<1> DEFINE v == [f |-> "p1", r |-> dev'[e].rand, of |-> dev[e].pres]
<1>2. /\ e \in Slot /\ randq # <<>> /\ Wrote(e)
      /\ dev'[e].pres = dev[e].pres /\ dev'[e].rdist = dev[e].rdist
      /\ randq' = Tail(randq) /\ randCmd' = Tail(randCmd)
      /\ UNCHANGED <<conns, zero, peer, rx, lost, odd, dist>>
      /\ \/ encryptq' = encryptq /\ encryptCmd' = encryptCmd
         \/ /\ Head(randq).cb = "mrand_complete" /\ v \in Value
            /\ GetEncrypt(encryptq, encryptCmd, e, "confirm_half", v)
  BY <1>0, <1>1, RandWrites
<1>3. "confirm_half" \in EncryptCb
  BY DEF EncryptCb
<1>4. ASSUME NEW d \in Slot, NEW m \in Conn, d # e, ~Disturbed(m)
      PROVE  /\ Steady(randq, randCmd, randq', randCmd', d)
             /\ Steady(encryptq, encryptCmd, encryptq', encryptCmd', d)
  <2>1. /\ randq \in Seq(RandEntry) /\ randCmd \in Seq(RandRec)
        /\ encryptq \in Seq(EncryptEntry) /\ encryptCmd \in Seq(EncryptRec)
        /\ Len(randq) = Len(randCmd) /\ Len(encryptq) = Len(encryptCmd)
    BY <1>1, <1>4, Undisturbed
  <2>2. Head(randq).slot # d
    BY <1>0, <1>4
  <2> HIDE DEF v
  <2>3. Steady(randq, randCmd, randq', randCmd', d)
    BY <1>2, <2>1, <2>2, SteadyTail
  <2>4. Steady(encryptq, encryptCmd, encryptq', encryptCmd', d)
    BY <1>2, <1>3, <1>4, <2>1, GetEncryptEntries, SteadySame
  <2> QED BY <2>3, <2>4
<1>5. ASSUME NEW n \in Conn, Serves(e, n), ~Disturbed(n), Phase(e, n)
      PROVE  Phase(e, n)'
  <2>1. /\ randq \in Seq(RandEntry) /\ randCmd \in Seq(RandRec)
        /\ encryptq \in Seq(EncryptEntry) /\ encryptCmd \in Seq(EncryptRec)
        /\ Len(randq) = Len(randCmd) /\ Len(encryptq) = Len(encryptCmd)
    BY <1>1, <1>5, Undisturbed
  <2>2. ~NoEntry(randq, e)
    <3>1. 1 \in 1 .. Len(randq) /\ randq[1].slot = e
      BY <1>0, <1>2, <2>1
    <3> QED BY <3>1 DEF NoEntry
  <2>3. Rolling(e, n)
    BY <1>5, <2>2 DEF Phase, Asked, Confirming, Confirmed, Exchanged, Keyed, Linked
  <2>4. /\ NoEntry(randq, e)' <=> NoEntry(randq', e)
        /\ HalfFirst(randq, e)' <=> HalfFirst(randq', e)
        /\ NoEntry(encryptq, e)' <=> NoEntry(encryptq', e)
    BY DEF NoEntry, HalfFirst
  <2>5. HalfFirst(randq', e)
    BY <1>2, <2>1, <2>3, EntryTail DEF Rolling
  <2>6. ASSUME NoEntry(encryptq', e) PROVE Phase(e, n)'
    <3>1. Rolling(e, n)'
      BY <1>2, <2>3, <2>4, <2>5, <2>6 DEF Rolling
    <3> QED BY <3>1 DEF Phase
  <2>7. CASE encryptq' = encryptq
    BY <2>3, <2>6, <2>7 DEF Rolling
  <2>8. CASE /\ Head(randq).cb = "mrand_complete" /\ v \in Value
             /\ GetEncrypt(encryptq, encryptCmd, e, "confirm_half", v)
    <3>1. NoEntry(randq', e)
      <4>1. Head(randq).slot = e
        BY <1>0
      <4> QED BY <1>2, <2>1, <2>3, <2>8, <4>1, EntryTail DEF Rolling
    <3>2. \/ NoEntry(encryptq', e) \/ OneEntry(encryptq', encryptCmd', e, "confirm_half", v)
      <4>1. NoEntry(encryptq, e)
        BY <2>3 DEF Rolling
      <4> HIDE DEF v
      <4> QED BY <1>2, <1>3, <2>1, <2>8, <4>1, GetEncryptEntries
    <3>3. Of(e, "p1")' = v
      BY <1>2, <1>5, <2>3 DEF Of, Rolling, Serves, Wrote
    <3>4. OneEntry(encryptq, encryptCmd, e, "confirm_half", Of(e, "p1"))'
              <=> OneEntry(encryptq', encryptCmd', e, "confirm_half", v)
      BY <3>3 DEF OneEntry
    <3>5. ASSUME OneEntry(encryptq', encryptCmd', e, "confirm_half", v)
          PROVE  Confirming(e, n)'
      BY <1>2, <2>3, <2>4, <3>1, <3>4, <3>5 DEF Rolling, Confirming
    <3> QED BY <2>6, <3>2, <3>5 DEF Phase
  <2> QED BY <1>2, <2>7, <2>8
<1> HIDE DEF v
<1>6. \A m \in Conn : peer'[m] = peer[m] /\ rx'[m] = rx[m] /\ dist'[m] = dist[m]
  BY <1>2
<1> QED BY <1>1, <1>2, <1>4, <1>5, <1>6, SlotStep

(* A message to one peer does not reach another. *)
LEMMA PeerFrame ==
    ASSUME SmpInv, NEW n \in Conn, NEW v, PeerConfirm(n, v) \/ PeerEncrypt(n, v)
    PROVE  \A m \in Conn : m # n => peer'[m] = peer[m] /\ rx'[m] = rx[m]
<1>1. peer \in [Conn -> Peer] /\ rx \in [Conn -> Seq(Message)]
  BY InvParts DEF PeersTyped
<1> QED BY <1>1 DEF PeerConfirm, PeerEncrypt, Fails

(* What an answer to LE_ENCRYPT writes. *)
LEMMA EncryptWrites ==
    ASSUME SmpInv, EncryptAnswer
    PROVE  LET e == Head(encryptq).slot
               cb == Head(encryptq).cb
               v == Encrypted(Head(encryptCmd).val)
           IN  /\ e \in Slot /\ encryptq # <<>> /\ v \in Value /\ Wrote(e)
               /\ dev'[e].rand = dev[e].rand /\ dev'[e].pres = dev[e].pres
               /\ dev'[e].rdist = dev[e].rdist
               /\ UNCHANGED <<conns, zero, randq, randCmd, lost, dist>>
               /\ \/ /\ cb = "confirm_half" /\ UNCHANGED <<peer, rx, odd>>
                     /\ GetEncrypt(Tail(encryptq), Tail(encryptCmd), e, "confirm_complete",
                                   C2Input(e, v))
                  \/ /\ cb = "confirm_complete" \/ cb = "stk_complete"
                     /\ encryptq' = Tail(encryptq) /\ encryptCmd' = Tail(encryptCmd)
                     /\ odd' = Stray(e)
                     /\ Target(e) = NoConn => UNCHANGED <<peer, rx>>
                     /\ Target(e) # NoConn /\ cb = "confirm_complete"
                            => PeerConfirm(Target(e), v)
                     /\ Target(e) # NoConn /\ cb = "stk_complete" => PeerEncrypt(Target(e), v)
<1> DEFINE cb == Head(encryptq).cb
           v == Encrypted(Head(encryptCmd).val)
<1>0. lost["encrypt"] \in Nat
  BY InvParts, SmpAssumption DEF LostTyped
<1>1. encryptCmd # <<>> /\ encryptq \in Seq(EncryptEntry) /\ encryptCmd \in Seq(EncryptRec)
      /\ Matched(encryptq, encryptCmd, lost["encrypt"])
  BY InvParts DEF EncryptAnswer, EncryptsOk, EncryptOk
<1>2. encryptq # <<>>
  BY <1>0, <1>1, PopMatched
<1>3. Head(encryptq) \in EncryptEntry /\ Head(encryptCmd) \in EncryptRec
  BY <1>1, <1>2
<1>4. Head(encryptq).slot \in Slot /\ Head(encryptCmd).val \in Value
  BY <1>3 DEF EncryptEntry, EncryptRec
<1>5. PICK e \in Slot : e = Head(encryptq).slot
  BY <1>4
<1>6. v \in Value /\ C2Input(e, v) \in Value
  BY <1>4, InvParts, ValuesTyped
<1>7. dev[e] \in Device
  BY InvParts DEF DevTyped
<1>8. ASSUME NEW w \in Value, dev' = [dev EXCEPT ![e].ltk = w]
      PROVE  /\ Wrote(e) /\ dev'[e].rand = dev[e].rand /\ dev'[e].pres = dev[e].pres
             /\ dev'[e].rdist = dev[e].rdist
  <2> DEFINE x == [dev[e] EXCEPT !.ltk = w]
  <2>1. /\ x.st = dev[e].st /\ x.conn = dev[e].conn /\ x.pres = dev[e].pres
        /\ x.rdist = dev[e].rdist /\ x.rand = dev[e].rand
    BY <1>7 DEF Device
  <2>2. dev' = [dev EXCEPT ![e] = x]
    BY <1>8
  <2> HIDE DEF x
  <2> QED BY <2>1, <2>2, SlotWrite
<1>9. /\ UNCHANGED <<conns, zero, randq, randCmd, lost, dist>>
      /\ \/ cb = "confirm_half" /\ ConfirmHalf(e, v, Tail(encryptq), Tail(encryptCmd))
         \/ cb = "confirm_complete" /\ ConfirmComplete(e, v, Tail(encryptq), Tail(encryptCmd))
         \/ cb = "stk_complete" /\ StkComplete(e, v, Tail(encryptq), Tail(encryptCmd))
  BY <1>2, <1>5 DEF EncryptAnswer
<1> HIDE DEF v, cb
<1>10. CASE cb = "confirm_half" /\ ConfirmHalf(e, v, Tail(encryptq), Tail(encryptCmd))
  <2>1. /\ dev' = [dev EXCEPT ![e].ltk = C2Input(e, v)] /\ UNCHANGED <<peer, rx, odd>>
        /\ GetEncrypt(Tail(encryptq), Tail(encryptCmd), e, "confirm_complete", C2Input(e, v))
    BY <1>10 DEF ConfirmHalf
  <2>2. /\ Wrote(e) /\ dev'[e].rand = dev[e].rand /\ dev'[e].pres = dev[e].pres
        /\ dev'[e].rdist = dev[e].rdist
    BY <1>6, <1>8, <2>1
  <2> QED BY <1>2, <1>5, <1>6, <1>9, <1>10, <2>1, <2>2 DEF v, cb
<1>11. CASE cb = "confirm_complete" /\ ConfirmComplete(e, v, Tail(encryptq), Tail(encryptCmd))
  <2>1. /\ dev' = [dev EXCEPT ![e].ltk = v] /\ odd' = Stray(e)
        /\ encryptq' = Tail(encryptq) /\ encryptCmd' = Tail(encryptCmd)
        /\ Target(e) = NoConn => UNCHANGED <<peer, rx>>
        /\ Target(e) # NoConn => PeerConfirm(Target(e), v)
    BY <1>11 DEF ConfirmComplete
  <2>2. /\ Wrote(e) /\ dev'[e].rand = dev[e].rand /\ dev'[e].pres = dev[e].pres
        /\ dev'[e].rdist = dev[e].rdist
    BY <1>6, <1>8, <2>1
  <2> QED BY <1>2, <1>5, <1>6, <1>9, <1>11, <2>1, <2>2 DEF v, cb
<1>12. CASE cb = "stk_complete" /\ StkComplete(e, v, Tail(encryptq), Tail(encryptCmd))
  <2>1. /\ dev' = [dev EXCEPT ![e].ltk = v] /\ odd' = Stray(e)
        /\ encryptq' = Tail(encryptq) /\ encryptCmd' = Tail(encryptCmd)
        /\ Target(e) = NoConn => UNCHANGED <<peer, rx>>
        /\ Target(e) # NoConn => PeerEncrypt(Target(e), v)
    BY <1>12 DEF StkComplete
  <2>2. /\ Wrote(e) /\ dev'[e].rand = dev[e].rand /\ dev'[e].pres = dev[e].pres
        /\ dev'[e].rdist = dev[e].rdist
    BY <1>6, <1>8, <2>1
  <2> QED BY <1>2, <1>5, <1>6, <1>9, <1>12, <2>1, <2>2 DEF v, cb
<1> QED BY <1>9, <1>10, <1>11, <1>12

(* An answer to LE_ENCRYPT takes the pairing of its slot to the next phase. *)
LEMMA EncryptPhase ==
    ASSUME SmpInv, EncryptAnswer, NEW e \in Slot, e = Head(encryptq).slot, NEW n \in Conn,
           Serves(e, n), ~Disturbed(n), Phase(e, n)
    PROVE  Phase(e, n)'
<1> DEFINE cb == Head(encryptq).cb
           v == Encrypted(Head(encryptCmd).val)
<1>1. /\ encryptq # <<>> /\ v \in Value /\ Wrote(e)
      /\ dev'[e].rand = dev[e].rand /\ dev'[e].pres = dev[e].pres
      /\ dev'[e].rdist = dev[e].rdist
      /\ UNCHANGED <<conns, zero, randq, randCmd, lost, dist>>
      /\ \/ /\ cb = "confirm_half" /\ UNCHANGED <<peer, rx, odd>>
            /\ GetEncrypt(Tail(encryptq), Tail(encryptCmd), e, "confirm_complete", C2Input(e, v))
         \/ /\ cb = "confirm_complete" \/ cb = "stk_complete"
            /\ encryptq' = Tail(encryptq) /\ encryptCmd' = Tail(encryptCmd)
            /\ Target(e) # NoConn /\ cb = "confirm_complete" => PeerConfirm(Target(e), v)
            /\ Target(e) # NoConn /\ cb = "stk_complete" => PeerEncrypt(Target(e), v)
  BY EncryptWrites
<1>2. /\ encryptq \in Seq(EncryptEntry) /\ encryptCmd \in Seq(EncryptRec)
      /\ Len(encryptq) = Len(encryptCmd)
  BY Undisturbed
<1>3. ~NoEntry(encryptq, e)
  <2>1. 1 \in 1 .. Len(encryptq) /\ encryptq[1].slot = e
    BY <1>1, <1>2
  <2> QED BY <2>1 DEF NoEntry
<1>4. /\ dev[e].conn = n /\ dev[e].st = "up" /\ Target(e) = n /\ n # NoConn
      /\ peer \in [Conn -> Peer] /\ rx \in [Conn -> Seq(Message)] /\ peer[n] \in Peer
  BY InvParts, SmpAssumption DEF Serves, Target, PeersTyped, NoConn, Conn
<1>5. \A f : Of(e, f)' = Of(e, f)
  BY <1>1, <1>4 DEF Of, Wrote
<1>6. /\ NoEntry(randq, e)' <=> NoEntry(randq', e)
      /\ HalfFirst(randq, e)' <=> HalfFirst(randq', e)
      /\ NoEntry(encryptq, e)' <=> NoEntry(encryptq', e)
  BY DEF NoEntry, HalfFirst
<1>7. Encrypted(Of(e, "p1")) = Of(e, "half") /\ Encrypted(Of(e, "p2")) = Of(e, "confirm")
      /\ Encrypted(Of(e, "r")) = Of(e, "stk") /\ C2Input(e, Of(e, "half")) = Of(e, "p2")
  <2>1. Encrypted(Of(e, "p1")) = Of(e, "half")
    BY DEF Encrypted, Of
  <2>2. Encrypted(Of(e, "p2")) = Of(e, "confirm")
    BY DEF Encrypted, Of
  <2>3. Encrypted(Of(e, "r")) = Of(e, "stk")
    BY DEF Encrypted, Of
  <2>4. C2Input(e, Of(e, "half")) = Of(e, "p2")
    BY DEF C2Input, Of
  <2> QED BY <2>1, <2>2, <2>3, <2>4
<1>8. ASSUME NEW k, NEW w, OneEntry(encryptq, encryptCmd, e, k, w)
      PROVE  cb = k /\ v = Encrypted(w) /\ NoEntry(Tail(encryptq), e)
  <2>1. /\ Head(encryptq).slot = e => /\ Head(encryptq).cb = k /\ Head(encryptCmd).val = w
                                      /\ NoEntry(Tail(encryptq), e)
    BY <1>1, <1>2, <1>8, OneTail
  <2> QED BY <2>1
<1> HIDE DEF cb, v
<1>9. CASE Confirming(e, n) /\ OneEntry(encryptq, encryptCmd, e, "confirm_half", Of(e, "p1"))
  <2>1. cb = "confirm_half" /\ v = Of(e, "half") /\ NoEntry(Tail(encryptq), e)
    BY <1>7, <1>8, <1>9
  <2>2. /\ UNCHANGED <<peer, rx>>
        /\ GetEncrypt(Tail(encryptq), Tail(encryptCmd), e, "confirm_complete", Of(e, "p2"))
    BY <1>1, <1>7, <2>1
  <2>3. /\ Tail(encryptq) \in Seq(EncryptEntry) /\ Tail(encryptCmd) \in Seq(EncryptRec)
        /\ Len(Tail(encryptq)) = Len(Tail(encryptCmd))
    <3>1. encryptCmd # <<>>
      BY DEF EncryptAnswer
    <3> QED BY <1>1, <1>2, <3>1, HeadTailProperties
  <2>4. Of(e, "p2") \in Value /\ "confirm_complete" \in EncryptCb
    BY <1>1, <1>7, <2>1, InvParts, ValuesTyped DEF EncryptCb
  <2>5. \/ NoEntry(encryptq', e)
        \/ OneEntry(encryptq', encryptCmd', e, "confirm_complete", Of(e, "p2"))
    BY <2>1, <2>2, <2>3, <2>4, GetEncryptEntries
  <2>6. OneEntry(encryptq, encryptCmd, e, "confirm_complete", Of(e, "p2"))'
            <=> OneEntry(encryptq', encryptCmd', e, "confirm_complete", Of(e, "p2"))
    BY <1>5 DEF OneEntry
  <2>7. CASE NoEntry(encryptq', e)
    <3>1. HalfFirst(randq', e)
      BY <1>1, <1>9 DEF Confirming, NoEntry, HalfFirst
    <3>2. Rolling(e, n)'
      BY <1>1, <1>6, <1>9, <2>2, <2>7, <3>1 DEF Confirming, Rolling
    <3> QED BY <3>2 DEF Phase
  <2>8. CASE OneEntry(encryptq', encryptCmd', e, "confirm_complete", Of(e, "p2"))
    <3>1. Confirming(e, n)'
      BY <1>1, <1>6, <1>9, <2>2, <2>6, <2>8 DEF Confirming
    <3> QED BY <3>1 DEF Phase
  <2> QED BY <2>5, <2>7, <2>8
<1>10. CASE Confirming(e, n) /\ OneEntry(encryptq, encryptCmd, e, "confirm_complete", Of(e, "p2"))
  <2>1. cb = "confirm_complete" /\ v = Of(e, "confirm") /\ NoEntry(Tail(encryptq), e)
    BY <1>7, <1>8, <1>10
  <2>2. encryptq' = Tail(encryptq) /\ PeerConfirm(n, v)
    BY <1>1, <1>4, <2>1
  <2>3. /\ peer' = [peer EXCEPT ![n].st = "random", ![n].confirm = v]
        /\ rx' = [rx EXCEPT ![n] = Append(@, "pairing_confirm")]
    BY <1>10, <2>2 DEF PeerConfirm, Confirming
  <2>4. rx'[n] = <<"pairing_confirm">>
    BY <1>4, <1>10, <2>3 DEF Confirming
  <2> DEFINE p == [peer[n] EXCEPT !.st = "random", !.confirm = v]
  <2>5. p.st = "random" /\ p.confirm = v /\ p.dist = peer[n].dist
    BY <1>4 DEF Peer
  <2>6. peer'[n] = p
    BY <1>4, <2>3
  <2> HIDE DEF p
  <2>7. Confirmed(e, n)'
    BY <1>1, <1>5, <1>6, <1>10, <2>1, <2>2, <2>4, <2>5, <2>6 DEF Confirming, Confirmed
  <2> QED BY <2>7 DEF Phase
<1>11. CASE Keyed(e, n) /\ OneEntry(encryptq, encryptCmd, e, "stk_complete", Of(e, "r"))
  <2>1. cb = "stk_complete" /\ v = Of(e, "stk") /\ NoEntry(Tail(encryptq), e)
    BY <1>7, <1>8, <1>11
  <2>2. encryptq' = Tail(encryptq) /\ PeerEncrypt(n, v)
    BY <1>1, <1>4, <2>1
  <2>3. /\ peer' = [peer EXCEPT ![n].st = "up"]
        /\ rx' = [rx EXCEPT ![n] = @ \o <<"encrypt_change">> \o KeysOf(peer[n].dist)]
    BY <1>11, <2>1, <2>2 DEF PeerEncrypt, Keyed
  <2>4. rx'[n] = <<"encrypt_change">> \o KeysOf(dev'[e].rdist) /\ dev'[e].rdist = peer[n].dist
    <3> DEFINE k == KeysOf(peer[n].dist)
    <3>1. dev'[e].rdist = peer[n].dist /\ rx[n] = <<>>
      BY <1>1, <1>11 DEF Keyed
    <3>2. <<>> \o <<"encrypt_change">> = <<"encrypt_change">>
      OBVIOUS
    <3>3. rx'[n] = (rx[n] \o <<"encrypt_change">>) \o k
      BY <1>4, <2>3
    <3> HIDE DEF k
    <3>4. rx'[n] = <<"encrypt_change">> \o k
      BY <3>1, <3>2, <3>3
    <3> QED BY <3>1, <3>4 DEF k
  <2> DEFINE p == [peer[n] EXCEPT !.st = "up"]
  <2>5. p.st = "up" /\ p.dist = peer[n].dist
    BY <1>4 DEF Peer
  <2>6. peer'[n] = p
    BY <1>4, <2>3
  <2> HIDE DEF p
  <2>7. Linked(e, n)'
    BY <1>1, <1>6, <1>11, <2>1, <2>2, <2>4, <2>5, <2>6 DEF Keyed, Linked
  <2> QED BY <2>7 DEF Phase
<1>12. \/ Confirming(e, n) /\ OneEntry(encryptq, encryptCmd, e, "confirm_half", Of(e, "p1"))
       \/ Confirming(e, n) /\ OneEntry(encryptq, encryptCmd, e, "confirm_complete", Of(e, "p2"))
       \/ Keyed(e, n) /\ OneEntry(encryptq, encryptCmd, e, "stk_complete", Of(e, "r"))
  BY <1>3 DEF Phase, Asked, Rolling, Confirming, Confirmed, Exchanged, Keyed, Linked
<1> QED BY <1>9, <1>10, <1>11, <1>12

(* LE_ENCRYPT complete: the value goes to the slot that asked for it.       *)
LEMMA EncryptPair ==
    ASSUME PairInv, EncryptAnswer
    PROVE  PairInv'
<1>1. SmpInv /\ SmpInv'
  BY EncryptStep DEF PairInv
<1>2. PICK e \in Slot : e = Head(encryptq).slot
  BY <1>1, EncryptWrites
<1> DEFINE cb == Head(encryptq).cb
           v == Encrypted(Head(encryptCmd).val)
<1>3. /\ encryptq # <<>> /\ v \in Value /\ Wrote(e)
      /\ UNCHANGED <<conns, zero, randq, randCmd, lost, dist>>
      /\ \/ /\ cb = "confirm_half" /\ UNCHANGED <<peer, rx, odd>>
            /\ GetEncrypt(Tail(encryptq), Tail(encryptCmd), e, "confirm_complete", C2Input(e, v))
         \/ /\ encryptq' = Tail(encryptq) /\ encryptCmd' = Tail(encryptCmd)
            /\ odd' = Stray(e)
            /\ \/ UNCHANGED <<peer, rx>>
               \/ /\ Target(e) # NoConn
                  /\ PeerConfirm(Target(e), v) \/ PeerEncrypt(Target(e), v)
  BY <1>1, <1>2, EncryptWrites
<1> HIDE DEF cb, v
<1>4. "confirm_complete" \in EncryptCb /\ C2Input(e, v) \in Value
  BY <1>1, <1>3, InvParts, ValuesTyped DEF EncryptCb
<1>5. ASSUME NEW d \in Slot, NEW m \in Conn, d # e, ~Disturbed(m)
      PROVE  /\ Steady(randq, randCmd, randq', randCmd', d)
             /\ Steady(encryptq, encryptCmd, encryptq', encryptCmd', d)
  <2>1. /\ encryptq \in Seq(EncryptEntry) /\ encryptCmd \in Seq(EncryptRec)
        /\ Len(encryptq) = Len(encryptCmd) /\ encryptCmd # <<>>
    BY <1>1, <1>5, Undisturbed DEF EncryptAnswer
  <2>2. /\ Tail(encryptq) \in Seq(EncryptEntry) /\ Tail(encryptCmd) \in Seq(EncryptRec)
        /\ Len(Tail(encryptq)) = Len(Tail(encryptCmd))
    BY <1>3, <2>1, HeadTailProperties
  <2>3. Steady(encryptq, encryptCmd, Tail(encryptq), Tail(encryptCmd), d)
    BY <1>2, <1>3, <1>5, <2>1, SteadyTail
  <2>4. ASSUME GetEncrypt(Tail(encryptq), Tail(encryptCmd), e, "confirm_complete", C2Input(e, v))
        PROVE  Steady(encryptq, encryptCmd, encryptq', encryptCmd', d)
    <3>1. Steady(Tail(encryptq), Tail(encryptCmd), encryptq', encryptCmd', d)
      BY <1>4, <1>5, <2>2, <2>4, GetEncryptEntries
    <3> QED BY <2>3, <3>1, SteadyTrans
  <2>5. randq' = randq /\ randCmd' = randCmd
    BY <1>3
  <2> QED BY <1>3, <2>3, <2>4, <2>5, SteadySame
<1>6. ASSUME NEW n \in Conn, Serves(e, n), ~Disturbed(n), Phase(e, n)
      PROVE  Phase(e, n)'
  BY <1>1, <1>2, <1>6, EncryptPhase
<1>7. odd \subseteq odd'
  BY <1>3 DEF Stray
<1>8. ASSUME NEW m \in Conn
      PROVE  \/ Serves(e, m)
             \/ m \in odd' /\ \E d \in Slot : Serves(d, m)
             \/ peer'[m] = peer[m] /\ rx'[m] = rx[m]
  <2>1. CASE UNCHANGED <<peer, rx>>
    BY <2>1
  <2>2. CASE /\ Target(e) # NoConn /\ odd' = Stray(e)
             /\ PeerConfirm(Target(e), v) \/ PeerEncrypt(Target(e), v)
    <3>1. Target(e) \in Conn
      BY <1>1, <2>2, InvParts, TargetTyped
    <3>2. m # Target(e) => peer'[m] = peer[m] /\ rx'[m] = rx[m]
      BY <1>1, <2>2, <3>1, PeerFrame
    <3>3. CASE m = Target(e) /\ dev[e].st = "up"
      BY <3>3 DEF Target, Serves
    <3>4. CASE m = Target(e) /\ dev[e].st # "up"
      <4>1. m = zero /\ m # NoConn
        BY <2>2, <3>4 DEF Target
      <4>2. m \in odd'
        BY <2>2, <3>4, <4>1 DEF Stray
      <4>3. \E d \in Slot : Serves(d, m)
        BY <4>1 DEF PairInv, Links
      <4> QED BY <4>2, <4>3
    <3> QED BY <3>2, <3>3, <3>4
  <2> QED BY <1>3, <2>1, <2>2
<1>9. conns' = conns /\ zero' = zero /\ lost' = lost /\ dist' = dist
  BY <1>3
<1>10. \A m \in Conn : dist'[m] = dist[m]
  BY <1>9
<1> QED BY <1>1, <1>3, <1>5, <1>6, <1>7, <1>8, <1>9, <1>10, SlotStep

(* A command that fails disturbs every pairing. *)
LEMMA ErrorPair ==
    ASSUME PairInv, RandError \/ EncryptError
    PROVE  PairInv'
<1>1. SmpInv /\ Links /\ SmpInv'
  BY ErrorSteps DEF PairInv
<1>2. UNCHANGED <<dev, conns, zero, peer, dist>>
  BY DEF RandError, EncryptError
<1>3. Links'
  BY <1>1, <1>2, LinksStay
<1>4. ASSUME NEW n \in Conn PROVE Disturbed(n)'
  <2>1. lost \in [{"rand", "encrypt"} -> 0 .. MaxFail]
    BY <1>1, InvParts DEF LostTyped
  <2>2. lost["rand"] \in Nat /\ lost["encrypt"] \in Nat
    BY <2>1, SmpAssumption
  <2>3. \/ lost'["rand"] = lost["rand"] + 1 /\ lost'["encrypt"] = lost["encrypt"]
        \/ lost'["rand"] = lost["rand"] /\ lost'["encrypt"] = lost["encrypt"] + 1
    BY <2>1 DEF RandError, EncryptError
  <2> QED BY <2>2, <2>3 DEF Disturbed
<1> QED BY <1>1, <1>3, <1>4 DEF PairInv, InPhase

-----------------------------------------------------------------------------
(* Connections that come and go. *)

(* The pairings in the slots other than d. *)
LEMMA OtherSlots ==
    ASSUME PairInv, NEW d \in Slot, UNCHANGED <<queues, lost, dist>>, odd \subseteq odd',
           \A x \in Slot : x # d => dev'[x] = dev[x],
           \A x \in Slot, m \in Conn : x # d /\ Serves(x, m) =>
               peer'[m] = peer[m] /\ rx'[m] = rx[m]
    PROVE  \A x \in Slot, m \in Conn : x # d /\ Serves(x, m)' /\ ~Disturbed(m)' => Phase(x, m)'
<1> SUFFICES ASSUME NEW x \in Slot, NEW m \in Conn, x # d, Serves(x, m)', ~Disturbed(m)'
             PROVE  Phase(x, m)'
  OBVIOUS
<1>1. Serves(x, m) /\ ~Disturbed(m)
  BY DEF Serves, Disturbed
<1>2. Phase(x, m)
  BY <1>1 DEF PairInv, InPhase
<1>3. /\ dev'[x] = dev[x] /\ peer'[m] = peer[m] /\ rx'[m] = rx[m] /\ dist'[m] = dist[m]
      /\ randq' = randq /\ randCmd' = randCmd /\ encryptq' = encryptq
      /\ encryptCmd' = encryptCmd
  BY <1>1 DEF queues
<1>4. /\ Steady(randq, randCmd, randq', randCmd', x)
      /\ Steady(encryptq, encryptCmd, encryptq', encryptCmd', x)
  BY <1>3, SteadySame
<1> QED BY <1>2, <1>3, <1>4, PhaseStays

(* A slot that was not up is found or given up. *)
LEMMA FoundPair ==
    ASSUME PairInv, NEW d \in Slot, Found(d) \/ ConnFailed(d)
    PROVE  PairInv'
<1>1. SmpInv /\ Links /\ SmpInv'
  BY LinkSteps DEF PairInv
<1>2. dev \in [Slot -> Device]
  BY <1>1, InvParts DEF DevTyped
<1>3. /\ dev[d].st # "up" /\ dev'[d].st # "up"
      /\ \A x \in Slot : x # d => dev'[x] = dev[x]
  <2>1. Reset.st = "free" /\ [Reset EXCEPT !.st = "found"].st = "found"
    BY DEF Reset
  <2>2. CASE Found(d)
    BY <1>2, <2>1, <2>2 DEF Found
  <2>3. CASE ConnFailed(d)
    BY <1>2, <2>1, <2>3 DEF ConnFailed
  <2> QED BY <2>2, <2>3
<1>4. UNCHANGED <<conns, zero, queues, peer, rx, lost, odd, dist>>
  BY DEF Found, ConnFailed, hist
<1>5. \A x \in Slot : \A n : Serves(x, n)' <=> Serves(x, n)
  BY <1>3 DEF Serves
<1>6. Links'
  <2>1. \A x, y \in Slot, n \in Conn : Serves(x, n)' /\ Serves(y, n)' => x = y
    BY <1>1, <1>5 DEF Links
  <2>2. \A x \in Slot : dev'[x].st = "up" => dev'[x].conn <= conns'
    BY <1>1, <1>3, <1>4 DEF Links
  <2>3. zero' # NoConn => \E x \in Slot : Serves(x, zero)'
    <3>1. ASSUME zero # NoConn PROVE \E x \in Slot : Serves(x, zero)'
      <4>1. PICK x \in Slot : Serves(x, zero)
        BY <1>1, <3>1 DEF Links
      <4>2. Serves(x, zero)'
        BY <1>3, <1>4, <4>1 DEF Serves
      <4> QED BY <4>2
    <3> QED BY <1>4, <3>1
  <2>4. \A n \in Conn : peer'[n].st # "off" => \E x \in Slot : Serves(x, n)'
    BY <1>1, <1>4, <1>5 DEF Links
  <2>5. \A n \in Conn : n > conns' => dist'[n] = 0
    BY <1>1, <1>4 DEF Links
  <2> QED BY <2>1, <2>2, <2>3, <2>4, <2>5 DEF Links
<1>7. \A x \in Slot, m \in Conn : x # d /\ Serves(x, m)' /\ ~Disturbed(m)' => Phase(x, m)'
  BY <1>3, <1>4, OtherSlots
<1>8. \A m \in Conn : ~Serves(d, m)'
  BY <1>3 DEF Serves
<1> QED BY <1>1, <1>6, <1>7, <1>8 DEF PairInv, InPhase

(* DISCONN_COMPLETE ends the pairing of the slot.                           *)
LEMMA DisconnPair ==
    ASSUME PairInv, NEW d \in Slot, DisconnComplete(d)
    PROVE  PairInv'
<1>1. SmpInv /\ Links /\ SmpInv'
  BY LinkSteps DEF PairInv
<1>2. PICK n \in Conn : n = dev[d].conn
  BY <1>1 DEF SmpInv, SlotConn, DisconnComplete
<1>3. dev \in [Slot -> Device] /\ peer \in [Conn -> Peer] /\ rx \in [Conn -> Seq(Message)]
  BY <1>1, InvParts DEF DevTyped, PeersTyped
<1>4. /\ dev[d].st = "up" /\ dev' = [dev EXCEPT ![d] = Reset]
      /\ zero' = (IF zero = n THEN NoConn ELSE zero)
      /\ peer' = [peer EXCEPT ![n] = PeerOff] /\ rx' = [rx EXCEPT ![n] = <<>>]
      /\ UNCHANGED <<conns, queues, lost, odd, dist>>
  BY <1>2 DEF DisconnComplete, hist
<1>5. dev'[d].st # "up" /\ \A x \in Slot : x # d => dev'[x] = dev[x]
  <2>1. Reset.st = "free"
    BY DEF Reset
  <2> QED BY <1>3, <1>4, <2>1
<1>6. peer'[n].st = "off" /\ \A m \in Conn : m # n => peer'[m] = peer[m] /\ rx'[m] = rx[m]
  <2>1. PeerOff.st = "off"
    BY DEF PeerOff
  <2> QED BY <1>3, <1>4, <2>1
<1>7. Serves(d, n) /\ \A x \in Slot, m \in Conn : Serves(x, m) => (x = d <=> m = n)
  <2>1. Serves(d, n)
    BY <1>2, <1>4 DEF Serves
  <2>2. \A m \in Conn : Serves(d, m) => m = n
    BY <1>2 DEF Serves
  <2> QED BY <1>1, <2>1, <2>2 DEF Links
<1>8. \A x \in Slot : \A m : Serves(x, m)' <=> Serves(x, m) /\ x # d
  BY <1>5 DEF Serves
<1>9. Links'
  <2>1. \A x, y \in Slot, m \in Conn : Serves(x, m)' /\ Serves(y, m)' => x = y
    BY <1>1, <1>8 DEF Links
  <2>2. \A x \in Slot : dev'[x].st = "up" => dev'[x].conn <= conns'
    BY <1>1, <1>4, <1>5 DEF Links
  <2>3. ASSUME zero' # NoConn PROVE \E x \in Slot : Serves(x, zero)'
    <3>1. zero' = zero /\ zero # n /\ zero # NoConn
      BY <1>4, <2>3
    <3>2. PICK x \in Slot : Serves(x, zero)
      BY <1>1, <3>1 DEF Links
    <3>3. x # d
      BY <1>2, <3>1, <3>2 DEF Serves
    <3>4. Serves(x, zero)'
      BY <1>5, <3>1, <3>2, <3>3 DEF Serves
    <3> QED BY <3>4
  <2>4. ASSUME NEW m \in Conn, peer'[m].st # "off" PROVE \E x \in Slot : Serves(x, m)'
    <3>1. m # n /\ peer[m].st # "off"
      BY <1>6, <2>4
    <3> QED BY <1>1, <1>7, <1>8, <3>1 DEF Links
  <2>5. \A m \in Conn : m > conns' => dist'[m] = 0
    BY <1>1, <1>4 DEF Links
  <2> QED BY <2>1, <2>2, <2>3, <2>4, <2>5 DEF Links
<1>10. \A x \in Slot, m \in Conn : x # d /\ Serves(x, m)' /\ ~Disturbed(m)' => Phase(x, m)'
  <2>1. \A x \in Slot, m \in Conn : x # d /\ Serves(x, m) => peer'[m] = peer[m] /\ rx'[m] = rx[m]
    BY <1>6, <1>7
  <2> QED BY <1>4, <1>5, <2>1, OtherSlots
<1>11. \A m \in Conn : ~Serves(d, m)'
  BY <1>8
<1> QED BY <1>1, <1>9, <1>10, <1>11 DEF PairInv, InPhase

(* The pairing of a new connection starts. *)
LEMMA ConnPair ==
    ASSUME PairInv, NEW d \in Slot, NEW z \in BOOLEAN, NEW ks \in Dists, ConnComplete(d, z, ks)
    PROVE  PairInv'
<1>1. SmpInv /\ Links /\ SmpInv'
  BY LinkSteps DEF PairInv
<1>2. conns \in Nat /\ conns + 1 \in Conn
  BY <1>1, InvParts, SmpAssumption DEF CountTyped, ConnComplete, Conn
<1>3. PICK n \in Conn : n = conns + 1
  BY <1>2
<1>4. /\ dev \in [Slot -> Device] /\ dev[d] \in Device /\ peer \in [Conn -> Peer]
      /\ rx \in [Conn -> Seq(Message)]
  BY <1>1, InvParts DEF DevTyped, PeersTyped
<1>5. /\ dev[d].st = "found" /\ conns' = n /\ zero' = (IF z THEN n ELSE zero)
      /\ dev' = [dev EXCEPT ![d].st = "up", ![d].conn = n]
      /\ peer' = [peer EXCEPT ![n] = [@ EXCEPT !.st = "confirm", !.dist = ks]]
      /\ rx' = [rx EXCEPT ![n] = <<"pairing_rsp">>]
      /\ odd' = (IF \/ \E i \in 1 .. Len(randq) : randq[i].slot = d
                    \/ \E i \in 1 .. Len(encryptq) : encryptq[i].slot = d
                 THEN odd \cup {n} ELSE odd)
      /\ UNCHANGED <<queues, lost, dist>>
  BY <1>3 DEF ConnComplete
<1>6. /\ dev'[d].st = "up" /\ dev'[d].conn = n
      /\ \A x \in Slot : x # d => dev'[x] = dev[x]
  <2> DEFINE y == [dev[d] EXCEPT !.st = "up", !.conn = n]
  <2>1. y.st = "up" /\ y.conn = n
    BY <1>4 DEF Device
  <2>2. dev' = [dev EXCEPT ![d] = y]
    BY <1>5
  <2> HIDE DEF y
  <2> QED BY <1>4, <2>1, <2>2
<1>7. /\ peer'[n].st = "confirm" /\ rx'[n] = <<"pairing_rsp">>
      /\ \A m \in Conn : m # n => peer'[m] = peer[m] /\ rx'[m] = rx[m]
  <2> DEFINE p == [peer[n] EXCEPT !.st = "confirm", !.dist = ks]
  <2>1. p.st = "confirm"
    BY <1>4 DEF Peer
  <2>2. peer' = [peer EXCEPT ![n] = p]
    BY <1>5
  <2> HIDE DEF p
  <2> QED BY <1>4, <1>5, <2>1, <2>2
<1>8. \A x \in Slot : \A m : x # d => (Serves(x, m)' <=> Serves(x, m))
  BY <1>6 DEF Serves
<1>9. (\A m : Serves(d, m)' <=> m = n) /\ \A m : ~Serves(d, m)
  BY <1>5, <1>6 DEF Serves
<1>10. \A x \in Slot : ~Serves(x, n)
  BY <1>1, <1>2, <1>3 DEF Links, Serves
<1>11. Links'
  <2>1. \A x, y \in Slot, m \in Conn : Serves(x, m)' /\ Serves(y, m)' => x = y
    BY <1>1, <1>8, <1>9, <1>10 DEF Links
  <2>2. ASSUME NEW x \in Slot, dev'[x].st = "up" PROVE dev'[x].conn <= conns'
    <3>1. CASE x = d
      BY <1>2, <1>3, <1>5, <1>6, <3>1
    <3>2. CASE x # d
      <4>1. dev[x].conn <= conns /\ dev[x].conn \in 0 .. MaxConn /\ dev'[x].conn = dev[x].conn
        BY <1>1, <1>4, <1>6, <2>2, <3>2 DEF Links, Device
      <4>2. dev[x].conn \in Int
        BY <4>1, SmpAssumption
      <4> QED BY <1>2, <1>3, <1>5, <4>1, <4>2
    <3> QED BY <3>1, <3>2
  <2>3. ASSUME zero' # NoConn PROVE \E x \in Slot : Serves(x, zero)'
    <3>1. CASE zero' = n
      <4>1. Serves(d, zero)'
        BY <1>6, <3>1 DEF Serves
      <4> QED BY <4>1
    <3>2. CASE zero' # n
      <4>1. zero' = zero /\ zero # NoConn
        BY <1>5, <2>3, <3>2
      <4>2. PICK x \in Slot : Serves(x, zero)
        BY <1>1, <4>1 DEF Links
      <4>3. x # d
        BY <1>9, <4>2
      <4>4. Serves(x, zero)'
        BY <1>6, <4>1, <4>2, <4>3 DEF Serves
      <4> QED BY <4>4
    <3> QED BY <3>1, <3>2
  <2>4. ASSUME NEW m \in Conn, peer'[m].st # "off" PROVE \E x \in Slot : Serves(x, m)'
    <3>1. CASE m = n
      BY <1>9, <3>1
    <3>2. CASE m # n
      <4>1. PICK x \in Slot : Serves(x, m)
        BY <1>1, <1>7, <2>4, <3>2 DEF Links
      <4>2. x # d
        BY <1>9, <4>1
      <4> QED BY <1>8, <4>1, <4>2
    <3> QED BY <3>1, <3>2
  <2>5. ASSUME NEW m \in Conn, m > conns' PROVE dist'[m] = 0
    <3>1. m \in Int
      BY DEF Conn
    <3>2. m > conns
      BY <1>2, <1>3, <1>5, <2>5, <3>1
    <3> QED BY <1>1, <1>5, <3>2 DEF Links
  <2> QED BY <2>1, <2>2, <2>3, <2>4, <2>5 DEF Links
<1>12. \A x \in Slot, m \in Conn : x # d /\ Serves(x, m)' /\ ~Disturbed(m)' => Phase(x, m)'
  <2>1. \A x \in Slot, m \in Conn : x # d /\ Serves(x, m) => peer'[m] = peer[m] /\ rx'[m] = rx[m]
    BY <1>7, <1>10
  <2>2. odd \subseteq odd'
    BY <1>5
  <2> QED BY <1>5, <1>6, <2>1, <2>2, OtherSlots
<1>13. ASSUME ~Disturbed(n)' PROVE Phase(d, n)'
  <2>1. n \notin odd'
    BY <1>13 DEF Disturbed
  <2>2. NoEntry(randq, d) /\ NoEntry(encryptq, d)
    BY <1>5, <2>1 DEF NoEntry
  <2>3. randq' = randq /\ encryptq' = encryptq /\ dist' = dist
    BY <1>5 DEF queues
  <2>4. NoEntry(randq, d)' /\ NoEntry(encryptq, d)'
    BY <2>2, <2>3 DEF NoEntry
  <2>5. dist[n] = 0
    <3>1. n > conns
      BY <1>2, <1>3
    <3> QED BY <1>1, <3>1 DEF Links
  <2>6. Asked(d, n)'
    BY <1>7, <2>3, <2>4, <2>5 DEF Asked
  <2> QED BY <2>6 DEF Phase
<1>14. \A m \in Conn : Serves(d, m)' /\ ~Disturbed(m)' => Phase(d, m)'
  BY <1>9, <1>13
<1> QED BY <1>1, <1>11, <1>12, <1>14 DEF PairInv, InPhase

-----------------------------------------------------------------------------
(* No device is paired with.                                                *)
LEMMA PairInit == Init => PairInv
<1> SUFFICES ASSUME Init PROVE PairInv
  OBVIOUS
<1>1. SmpInv
  BY SmpInit
<1>2. \A d \in Slot : dev[d].st = "free"
  BY DEF Init, Reset
<1>3. \A n \in Conn : peer[n].st = "off" /\ dist[n] = 0
  BY DEF Init, PeerOff
<1>4. \A d \in Slot : \A n : ~Serves(d, n)
  BY <1>2 DEF Serves
<1>5. Links
  <2>1. zero = NoConn
    BY DEF Init
  <2> QED BY <1>2, <1>3, <1>4, <2>1 DEF Links
<1> QED BY <1>1, <1>4, <1>5 DEF PairInv, InPhase

(* Every step preserves PairInv.                                            *)
LEMMA PairStep ==
    ASSUME PairInv, [Next]_vars
    PROVE  PairInv'
<1>1. CASE Next
  <2>1. ASSUME NEW d \in Slot, Found(d) \/ ConnFailed(d) PROVE PairInv'
    BY <2>1, FoundPair
  <2>2. ASSUME NEW d \in Slot, DisconnComplete(d) PROVE PairInv'
    BY <2>2, DisconnPair
  <2>3. ASSUME NEW d \in Slot, HostMsg(d) PROVE PairInv'
    BY <2>3, MsgPair
  <2>4. ASSUME NEW d \in Slot, \E z \in BOOLEAN, ks \in Dists : ConnComplete(d, z, ks)
        PROVE  PairInv'
    BY <2>4, ConnPair
  <2>5. ASSUME Answer PROVE PairInv'
    BY <2>5, RandPair, EncryptPair, ErrorPair DEF Answer
  <2> QED BY <1>1, <2>1, <2>2, <2>3, <2>4, <2>5, Zenon DEF Next
<1>2. CASE UNCHANGED vars
  <2>1. SmpInv /\ Links /\ SmpInv'
    BY SmpStep DEF PairInv
  <2>2. UNCHANGED <<dev, conns, zero, peer, rx, lost, odd, dist, randq, randCmd, encryptq,
                    encryptCmd>>
    BY <1>2 DEF vars, queues, hist
  <2>3. Links'
    BY <2>1, <2>2, LinksStay
  <2>4. ASSUME NEW d \in Slot, NEW n \in Conn, Serves(d, n)', ~Disturbed(n)'
        PROVE  Phase(d, n)'
    <3>1. Serves(d, n) /\ ~Disturbed(n)
      BY <2>2, <2>4 DEF Serves, Disturbed
    <3>2. Phase(d, n)
      BY <3>1 DEF PairInv, InPhase
    <3> QED BY <2>2, <3>2, SteadySame, PhaseStays
  <2> QED BY <2>1, <2>3, <2>4 DEF PairInv, InPhase
<1> QED BY <1>1, <1>2

(* A peer that is not off is served by a slot, in a phase of its pairing.   *)
LEMMA PeerPhase ==
    ASSUME PairInv, NEW n \in Conn, peer[n].st # "off", ~Disturbed(n)
    PROVE  \E d \in Slot : Phase(d, n) /\ dev[d].rdist \in SUBSET Key
<1>1. PICK d \in Slot : Serves(d, n)
  BY DEF PairInv, Links
<1>2. Phase(d, n)
  BY <1>1 DEF PairInv, InPhase
<1>3. dev[d].rdist \in SUBSET Key
  BY InvParts DEF PairInv, DevTyped, Device
<1> QED BY <1>2, <1>3

(* bt_smp_hdlr and the callbacks of bt_hci_get_random and                   *)
(* bt_hci_get_encrypt pair each device with what belongs to it, however     *)
(* many pairings share the queues: no peer refuses a confirm value or a key *)
(* unless a command failed or its slot was taken over with answers to come. *)
THEOREM PairingCorrect == Spec => []PairingSound
<1>1. Init => PairInv
  BY PairInit
<1>2. PairInv /\ [Next]_vars => PairInv'
  BY PairStep
<1>3. PairInv => PairingSound
  <2> SUFFICES ASSUME PairInv, NEW n \in Conn, peer[n].st = "failed", ~Disturbed(n)
               PROVE  FALSE
    BY DEF PairingSound
  <2>1. PICK d \in Slot : Phase(d, n)
    BY PeerPhase
  <2> QED BY <2>1 DEF Phase, Asked, Rolling, Confirming, Confirmed, Exchanged, Keyed, Linked
<1> QED BY <1>1, <1>2, <1>3, PTL DEF Spec

(* bt_smp_key_distribution runs once, after the last key of the peer: when  *)
(* the peer has keys to send, they were all received.                       *)
THEOREM KeysAfterPeer == Spec => []DistributedLast
<1>1. Init => PairInv
  BY PairInit
<1>2. PairInv /\ [Next]_vars => PairInv'
  BY PairStep
<1>3. PairInv => DistributedLast
  <2> SUFFICES ASSUME PairInv, NEW n \in Conn, ~Disturbed(n), dist[n] > 0, peer[n].st # "off"
               PROVE  /\ dist[n] = 1
                      /\ peer[n].dist # {} => peer[n].st = "up" /\ rx[n] = <<>>
    BY DEF DistributedLast
  <2>1. PICK d \in Slot : Phase(d, n) /\ dev[d].rdist \in SUBSET Key
    BY PeerPhase
  <2>2. Keyed(d, n) \/ Linked(d, n)
    BY <2>1 DEF Phase, Asked, Rolling, Confirming, Confirmed, Exchanged
  <2>3. dev[d].rdist = {} /\ dist[n] = 1
    BY <2>2 DEF Keyed, Linked
  <2>4. CASE Keyed(d, n)
    BY <2>3, <2>4 DEF Keyed
  <2>5. CASE Linked(d, n)
    <3>1. KeysOf({}) = <<>>
      BY KeysNext
    <3> QED BY <2>3, <2>5, <3>1 DEF Linked
  <2> QED BY <2>2, <2>3, <2>4, <2>5
<1> QED BY <1>1, <1>2, <1>3, PTL DEF Spec
=============================================================================
