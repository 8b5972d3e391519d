--------------------------- MODULE HidSetupProofs ---------------------------
(***************************************************************************)
(* Proofs about HidSetup: that the task is given complete records, that     *)
(* each response is appended to the record of its search, and that a PIN    *)
(* code is that of a type that is known, for every size of the records and  *)
(* of the responses.                                                        *)
(***************************************************************************)
EXTENDS HidSetup, FiniteSetTheorems, SequenceTheorems, TLAPS

(* The messages either end sends. *)
Ops == {"conn_req", "conn_rsp", "conn_pend", "conn_refused", "conf_req", "conf_rsp",
        "sdp_req", "sdp_rsp", "disconn_req", "disconn_rsp"}
RxMsg == [op : Ops \ {"sdp_rsp"}, ch : Chan]
         \cup [op : {"sdp_rsp"}, ch : {"sdp"}, search : Search, n : 0 .. MaxChunk, more : BOOLEAN]
TxMsg == [op : Ops \ {"sdp_req"}, ch : Chan]
         \cup [op : {"sdp_req"}, ch : {"sdp"}, search : Search]

Typed == TypeOK /\ rx \in Seq(RxMsg) /\ tx \in Seq(TxMsg)

(* The messages under way, and how many of a kind there are for a channel.  *)
Elems(s) == {s[i] : i \in 1 .. Len(s)}
Is(m, op, c) == m.op = op /\ m.ch = c
Cnt(s, op, c) == Cardinality({i \in 1 .. Len(s) : Is(s[i], op, c)})

(* The channels that L2CAP and SDP configuration goes through in turn.      *)
OwnChan == {"sdp", "ctrl", "intr"}

(* What is under way of the opening of a channel: our request for it, the   *)
(* steps between a request and the answer to our configuration of it, and   *)
(* the configuration the controller still has to ask for or was not heard   *)
(* with.                                                                    *)
Calls(c) == Cnt(tx, "conn_req", c)
Legs(c) == Cnt(tx, "conf_req", c) + Cnt(rx, "conn_req", c)
           + Cnt(rx, "conn_rsp", c) + Cnt(rx, "conf_rsp", c)
Owed(c) == Cnt(rx, "conf_req", c) + (IF peer[c].conf THEN 0 ELSE 1)
Acks(c) == Cnt(tx, "conn_rsp", c)
Opened(c) == peer[c].st # "closed"
Begun(c) == Calls(c) > 0 \/ Opened(c)

(* How many of its two configuration messages the host has handled.         *)
Handled(c) == IF Opened(c) THEN 2 - (Legs(c) + Owed(c)) ELSE 0

(* A channel is opened once, whoever opens it, and its flag tells that the  *)
(* first configuration message was handled.                                 *)
ChanInv(c) ==
    /\ Calls(c) + Legs(c) <= 1 /\ Owed(c) <= 1
    /\ Calls(c) > 0 => ~Opened(c)
    /\ Legs(c) > 0 \/ Acks(c) > 0 \/ peer[c].conf => Opened(c)
    /\ page /\ c # "sdp" => Calls(c) = 0
    /\ Advances(c) => (Pending(c) \in flags <=> Handled(c) > 0)

Channels == \A c \in OwnChan : ChanInv(c)

(* How many searches are asked for or answered. *)
Asked == Cnt(tx, "sdp_req", "sdp") + Cnt(rx, "sdp_rsp", "sdp")

(* A channel we open, and the search, wait for the one before.              *)
Order ==
    /\ ~page /\ auth \notin {"done", "encrypted"} => ~Begun("ctrl")
    /\ ~page /\ Handled("ctrl") < 2 => ~Begun("intr")
    /\ Handled("intr") < 2 => ~Begun("sdp")
    /\ Handled("sdp") < 2 => Asked = 0 /\ sdp = 0 /\ "sdp_data" \notin flags

(* There is one search at a time, the one of sdp_state, and none any more   *)
(* when the data was handed over.                                           *)
Searching ==
    /\ Asked <= 1
    /\ \A m \in Elems(tx) : m.op = "sdp_req" => m.search = sdp
    /\ \A m \in Elems(rx) : m.op = "sdp_rsp" => m.search = sdp
    /\ "sdp_data" \in flags => Asked = 0 /\ sdp = 1

(* The first record is there while the second is searched for, and both     *)
(* until the task has parsed them.                                          *)
Kept ==
    ~raced => /\ sdp = 1 /\ Asked > 0 => 0 \in have
              /\ task.at # "idle" => "sdp_data" \in flags
              /\ "sdp_data" \in flags /\ task.at # "check" => have = Search

(* Nothing is left of a connection that is gone. *)
Clear == ~up => /\ ~page /\ ~named /\ auth = "no" /\ asks = {} /\ flags = {} /\ have = {}
                /\ rx = <<>> /\ tx = <<>> /\ sdp = 0
                /\ peer = [c \in Chan |-> Closed]

(* A controller we connected to pairs when its name is known. *)
NameFirst == auth # "no" => page \/ named

SetupInv == Typed /\ Channels /\ Order /\ Searching /\ Kept /\ Clear /\ NameFirst

-----------------------------------------------------------------------------
(* Queues. *)

(* The messages of an empty queue, behind one that is appended, and before  *)
(* one that is taken.                                                       *)
LEMMA ElemsOf ==
    ASSUME NEW S
    PROVE  /\ Elems(<<>>) = {}
           /\ \A s \in Seq(S) :
                 /\ Elems(s) \subseteq S
                 /\ \A p \in S : Elems(Append(s, p)) = Elems(s) \cup {p}
                 /\ s # <<>> => /\ Tail(s) \in Seq(S) /\ Elems(Tail(s)) \subseteq Elems(s)
                                /\ Head(s) \in Elems(s)
<1>1. Elems(<<>>) = {}
  BY DEF Elems
<1>2. ASSUME NEW s \in Seq(S), NEW p \in S
      PROVE  Elems(Append(s, p)) = Elems(s) \cup {p}
  <2>1. /\ Len(Append(s, p)) = Len(s) + 1 /\ Len(s) \in Nat
        /\ \A i \in 1 .. Len(s) : Append(s, p)[i] = s[i]
        /\ Append(s, p)[Len(s) + 1] = p
    BY AppendProperties
  <2>2. \A i \in 1 .. Len(s) + 1 : i \in 1 .. Len(s) \/ i = Len(s) + 1
    BY <2>1
  <2>3. Len(s) + 1 \in 1 .. Len(s) + 1 /\ \A i \in 1 .. Len(s) : i \in 1 .. Len(s) + 1
    BY <2>1
  <2>4. ASSUME NEW x PROVE x \in Elems(Append(s, p)) <=> x \in Elems(s) \cup {p}
    BY <2>1, <2>2, <2>3 DEF Elems
  <2> QED BY <2>4
<1>3. ASSUME NEW s \in Seq(S) PROVE Elems(s) \subseteq S
  BY DEF Elems
<1>4. ASSUME NEW s \in Seq(S), s # <<>>
      PROVE  Tail(s) \in Seq(S) /\ Elems(Tail(s)) \subseteq Elems(s) /\ Head(s) \in Elems(s)
  <2>1. /\ Tail(s) \in Seq(S) /\ Len(Tail(s)) = Len(s) - 1
        /\ \A i \in 1 .. Len(Tail(s)) : Tail(s)[i] = s[i + 1]
    BY <1>4, HeadTailProperties
  <2>2. Len(s) \in Nat /\ Len(s) >= 1 /\ Head(s) = s[1] /\ 1 \in 1 .. Len(s)
    BY <1>4
  <2>3. \A i \in 1 .. Len(Tail(s)) : i + 1 \in 1 .. Len(s)
    BY <2>1, <2>2
  <2> QED BY <2>1, <2>2, <2>3 DEF Elems
<1> QED BY <1>1, <1>2, <1>3, <1>4

One(m, op, c) == IF Is(m, op, c) THEN 1 ELSE 0

(* The number of messages of a kind: of an empty queue, behind one that is  *)
(* appended, and before one that is taken.                                  *)
LEMMA CntOf ==
    ASSUME NEW S, NEW s \in Seq(S), NEW op, NEW c
    PROVE  /\ Cnt(s, op, c) \in Nat
           /\ \A p \in S : Cnt(Append(s, p), op, c) = Cnt(s, op, c) + One(p, op, c)
           /\ s # <<>> => /\ Cnt(Tail(s), op, c) \in Nat
                          /\ Cnt(s, op, c) = Cnt(Tail(s), op, c) + One(Head(s), op, c)
           /\ Cnt(<<>>, op, c) = 0
           /\ Cnt(s, op, c) = 0 => \A m \in Elems(s) : ~Is(m, op, c)
<1> DEFINE R(z) == {i \in 1 .. Len(z) : Is(z[i], op, c)}
<1>1. Len(s) \in Nat /\ IsFiniteSet(1 .. Len(s))
  BY FS_Interval
<1>2. IsFiniteSet(R(s)) /\ Cnt(s, op, c) \in Nat
  <2>1. R(s) \subseteq 1 .. Len(s)
    OBVIOUS
  <2>2. IsFiniteSet(R(s))
    BY <1>1, <2>1, FS_Subset
  <2> QED BY <2>2, FS_CardinalityType DEF Cnt
<1>3. ASSUME NEW p \in S
      PROVE  Cnt(Append(s, p), op, c) = Cnt(s, op, c) + One(p, op, c)
  <2>1. /\ Len(Append(s, p)) = Len(s) + 1
        /\ \A i \in 1 .. Len(s) : Append(s, p)[i] = s[i]
        /\ Append(s, p)[Len(s) + 1] = p
    BY AppendProperties
  <2>2. \A i : i \in 1 .. Len(s) + 1 <=> i \in 1 .. Len(s) \/ i = Len(s) + 1
    BY <1>1
  <2>3. R(Append(s, p)) = R(s) \cup (IF Is(p, op, c) THEN {Len(s) + 1} ELSE {})
    BY <2>1, <2>2
  <2>4. Len(s) + 1 \notin R(s)
    BY <1>1
  <2>5. Cardinality(R(s) \cup {Len(s) + 1}) = Cardinality(R(s)) + 1
    <3> HIDE DEF R
    <3> QED BY <1>2, <2>4, FS_AddElement
  <2>6. Cnt(Append(s, p), op, c) = Cardinality(R(Append(s, p)))
        /\ Cnt(s, op, c) = Cardinality(R(s))
    BY DEF Cnt
  <2> HIDE DEF R
  <2>7. CASE Is(p, op, c)
    <3>1. R(Append(s, p)) = R(s) \cup {Len(s) + 1}
      BY <2>3, <2>7
    <3> QED BY <2>5, <2>6, <2>7, <3>1 DEF One
  <2>8. CASE ~Is(p, op, c)
    <3>1. R(Append(s, p)) = R(s)
      BY <2>3, <2>8
    <3> QED BY <1>2, <2>6, <2>8, <3>1 DEF One
  <2> QED BY <2>7, <2>8
<1>4. ASSUME s # <<>>
      PROVE  /\ Cnt(Tail(s), op, c) \in Nat
             /\ Cnt(s, op, c) = Cnt(Tail(s), op, c) + One(Head(s), op, c)
  <2>1. /\ Len(Tail(s)) = Len(s) - 1
        /\ \A i \in 1 .. Len(Tail(s)) : Tail(s)[i] = s[i + 1]
    BY <1>4, HeadTailProperties
  <2>2. Len(s) >= 1 /\ Head(s) = s[1]
    BY <1>4
  <2> DEFINE Q == R(s) \ {1}
             f == [i \in R(Tail(s)) |-> i + 1]
  <2>3. \A i : i \in R(Tail(s)) => i \in Nat /\ i + 1 \in Q
    BY <1>1, <2>1, <2>2
  <2>4. \A j \in Q : j - 1 \in R(Tail(s)) /\ (j - 1) + 1 = j
    BY <1>1, <2>1, <2>2
  <2>5. f \in Bijection(R(Tail(s)), Q)
    <3>1. f \in [R(Tail(s)) -> Q]
      BY <2>3
    <3>2. \A i, j \in R(Tail(s)) : f[i] = f[j] => i = j
      BY <2>3
    <3>3. \A j \in Q : \E i \in R(Tail(s)) : f[i] = j
      BY <2>4
    <3> HIDE DEF f, Q, R
    <3> QED BY <3>1, <3>2, <3>3 DEF Bijection, Injection, Surjection, IsInjective
  <2>6. IsFiniteSet(Q)
    BY <1>2, FS_RemoveElement
  <2>7. IsFiniteSet(R(Tail(s)))
    <3>1. R(Tail(s)) \subseteq 1 .. Len(s)
      BY <1>1, <2>1, <2>2
    <3> QED BY <1>1, <3>1, FS_Subset
  <2>8. Cardinality(R(Tail(s))) = Cardinality(Q) /\ Cardinality(Q) \in Nat
    <3> HIDE DEF f, Q, R
    <3>1. ExistsBijection(R(Tail(s)), Q)
      BY <2>5 DEF ExistsBijection
    <3> QED BY <2>6, <2>7, <3>1, FS_Bijection, FS_CardinalityType
  <2>9. Cnt(Tail(s), op, c) = Cardinality(Q) /\ Cnt(s, op, c) = Cardinality(R(s))
    BY <2>8 DEF Cnt
  <2>10. CASE Is(Head(s), op, c)
    <3>1. 1 \in R(s)
      BY <1>1, <2>2, <2>10
    <3>2. Cardinality(R(s)) = Cardinality(Q) + 1
      <4>1. Cardinality(Q) = Cardinality(R(s)) - 1 /\ Cardinality(R(s)) \in Nat
        <5> HIDE DEF R
        <5> QED BY <1>2, <3>1, FS_RemoveElement, FS_CardinalityType
      <4> HIDE DEF R, Q
      <4> QED BY <2>8, <4>1
    <3> QED BY <2>8, <2>9, <2>10, <3>2 DEF One
  <2>11. CASE ~Is(Head(s), op, c)
    <3>1. 1 \notin R(s)
      BY <2>2, <2>11
    <3>2. Q = R(s)
      <4> HIDE DEF R
      <4>1. \A x : x \in Q <=> x \in R(s)
        BY <3>1
      <4> QED BY <4>1, Zenon
    <3> HIDE DEF Q, R
    <3> QED BY <2>8, <2>9, <2>11, <3>2 DEF One
  <2> QED BY <2>10, <2>11
<1>5. Cnt(<<>>, op, c) = 0
  <2>1. {i \in 1 .. Len(<<>>) : Is(<<>>[i], op, c)} = {}
    OBVIOUS
  <2> QED BY <2>1, FS_EmptySet DEF Cnt
<1>6. ASSUME Cnt(s, op, c) = 0, NEW m \in Elems(s) PROVE ~Is(m, op, c)
  <2>1. R(s) = {}
    <3> HIDE DEF R
    <3> QED BY <1>2, <1>6, FS_EmptySet DEF Cnt, R
  <2>2. PICK i \in 1 .. Len(s) : m = s[i]
    BY DEF Elems
  <2> QED BY <2>1, <2>2
<1> QED BY <1>2, <1>3, <1>4, <1>5, <1>6

(* The numbers of messages are numbers. *)
LEMMA Numbers ==
    ASSUME Typed
    PROVE  \A op, c : Cnt(rx, op, c) \in Nat /\ Cnt(tx, op, c) \in Nat
BY CntOf DEF Typed

(* The numbers after a step. *)
LEMMA Later ==
    /\ \A c : /\ Calls(c)' = Cnt(tx', "conn_req", c)
              /\ Legs(c)' = Cnt(tx', "conf_req", c) + Cnt(rx', "conn_req", c)
                            + Cnt(rx', "conn_rsp", c) + Cnt(rx', "conf_rsp", c)
              /\ Owed(c)' = Cnt(rx', "conf_req", c) + (IF peer'[c].conf THEN 0 ELSE 1)
              /\ Acks(c)' = Cnt(tx', "conn_rsp", c)
              /\ Opened(c)' <=> peer'[c].st # "closed"
    /\ Asked' = Cnt(tx', "sdp_req", "sdp") + Cnt(rx', "sdp_rsp", "sdp")
BY DEF Calls, Legs, Owed, Acks, Opened, Asked, Cnt, Is

(* Messages are typed by what they are. *)
LEMMA MsgTyped ==
    \A c \in Chan :
        /\ \A op \in Ops \ {"sdp_rsp"} : Msg(op, c) \in RxMsg
        /\ \A op \in Ops \ {"sdp_req"} : Msg(op, c) \in TxMsg
        /\ \A op : Msg(op, c).op = op /\ Msg(op, c).ch = c
BY DEF Msg, RxMsg, TxMsg

(* A request of search k. *)
LEMMA ReqTyped ==
    \A k \in Search : LET x == [op |-> "sdp_req", ch |-> "sdp", search |-> k]
                      IN  x \in TxMsg /\ x.op = "sdp_req" /\ x.ch = "sdp" /\ x.search = k
BY DEF TxMsg

(* The queue to the host when its first message is taken. *)
LEMMA RxTaken ==
    ASSUME Typed, rx # <<>>, rx' = Tail(rx)
    PROVE  /\ rx' \in Seq(RxMsg) /\ Elems(rx') \subseteq Elems(rx)
           /\ Head(rx) \in RxMsg /\ Head(rx) \in Elems(rx)
           /\ \A op, c : /\ Cnt(rx', op, c) \in Nat
                         /\ Cnt(rx, op, c) = Cnt(rx', op, c)
                              + IF Head(rx).op = op /\ Head(rx).ch = c THEN 1 ELSE 0
<1>1. rx \in Seq(RxMsg)
  BY DEF Typed
<1>2. /\ rx' \in Seq(RxMsg) /\ Elems(rx') \subseteq Elems(rx)
      /\ Head(rx) \in RxMsg /\ Head(rx) \in Elems(rx)
  BY <1>1, ElemsOf
<1>3. ASSUME NEW op, NEW c
      PROVE  /\ Cnt(rx', op, c) \in Nat
             /\ Cnt(rx, op, c) = Cnt(rx', op, c)
                              + IF Head(rx).op = op /\ Head(rx).ch = c THEN 1 ELSE 0
  BY <1>1, CntOf DEF One, Is
<1> QED BY <1>2, <1>3

(* The queue to the controller when its first message is taken. *)
LEMMA TxTaken ==
    ASSUME Typed, tx # <<>>, tx' = Tail(tx)
    PROVE  /\ tx' \in Seq(TxMsg) /\ Elems(tx') \subseteq Elems(tx)
           /\ Head(tx) \in TxMsg /\ Head(tx) \in Elems(tx)
           /\ \A op, c : /\ Cnt(tx', op, c) \in Nat
                         /\ Cnt(tx, op, c) = Cnt(tx', op, c)
                              + IF Head(tx).op = op /\ Head(tx).ch = c THEN 1 ELSE 0
<1>1. tx \in Seq(TxMsg)
  BY DEF Typed
<1>2. /\ tx' \in Seq(TxMsg) /\ Elems(tx') \subseteq Elems(tx)
      /\ Head(tx) \in TxMsg /\ Head(tx) \in Elems(tx)
  BY <1>1, ElemsOf
<1>3. ASSUME NEW op, NEW c
      PROVE  /\ Cnt(tx', op, c) \in Nat
             /\ Cnt(tx, op, c) = Cnt(tx', op, c)
                              + IF Head(tx).op = op /\ Head(tx).ch = c THEN 1 ELSE 0
  BY <1>1, CntOf DEF One, Is
<1> QED BY <1>2, <1>3

(* A queue with one message more. *)
LEMMA Put ==
    ASSUME NEW S, NEW s \in Seq(S), NEW m \in S
    PROVE  /\ Append(s, m) \in Seq(S) /\ Elems(Append(s, m)) = Elems(s) \cup {m}
           /\ \A op, c : /\ Cnt(s, op, c) \in Nat
                         /\ Cnt(Append(s, m), op, c) = Cnt(s, op, c)
                              + IF m.op = op /\ m.ch = c THEN 1 ELSE 0
<1>1. Append(s, m) \in Seq(S) /\ Elems(Append(s, m)) = Elems(s) \cup {m}
  BY ElemsOf
<1>2. ASSUME NEW op, NEW c
      PROVE  /\ Cnt(s, op, c) \in Nat
             /\ Cnt(Append(s, m), op, c) = Cnt(s, op, c)
                              + IF m.op = op /\ m.ch = c THEN 1 ELSE 0
  BY CntOf DEF One, Is
<1> QED BY <1>1, <1>2

(* Messages put behind a queue, as the handlers write it.                   *)
LEMMA Joined ==
    ASSUME NEW S, NEW s \in Seq(S)
    PROVE  /\ s \o <<>> = s
           /\ \A a \in S : s \o <<a>> = Append(s, a)
           /\ \A a, b \in S : s \o <<a, b>> = Append(Append(s, a), b)
<1>1. s \o <<>> = s
  OBVIOUS
<1>2. ASSUME NEW a \in S PROVE s \o <<a>> = Append(s, a)
  OBVIOUS
<1>3. ASSUME NEW a \in S, NEW b \in S
      PROVE  s \o <<a, b>> = Append(Append(s, a), b)
  OBVIOUS
<1> QED BY <1>1, <1>2, <1>3

-----------------------------------------------------------------------------
(* Steps that leave the channels where they were. *)

(* Nothing of the opening of channel c goes on. *)
Same(c) ==
    /\ Calls(c)' = Calls(c) /\ Legs(c)' = Legs(c) /\ Owed(c)' = Owed(c)
    /\ Opened(c)' <=> Opened(c)
    /\ Acks(c)' > 0 \/ peer'[c].conf => Opened(c)

(* Channel c is begun by nobody, and none of its configuration is handled.  *)
Unmoved(c) == ChanInv(c)' /\ Handled(c)' = Handled(c) /\ (Begun(c)' => Begun(c))

(* A channel of which nothing goes on keeps its invariant, if its flag and  *)
(* BT_DEV_PAGE stay.                                                        *)
LEMMA ChanKept ==
    ASSUME NEW c \in OwnChan, ChanInv(c), Same(c), page' = page,
           Pending(c) \in flags' <=> Pending(c) \in flags
    PROVE  Unmoved(c)
<1>1. Handled(c)' = Handled(c) /\ (Begun(c)' <=> Begun(c))
  BY DEF Same, Handled, Begun
<1>2. Advances(c)' <=> Advances(c)
  BY DEF Advances
<1>3. Pending(c)' = Pending(c)
  BY DEF Pending
<1> QED BY <1>1, <1>2, <1>3 DEF ChanInv, Same, Unmoved

Pendings == {"sdp_tx_pending", "ctrl_pending", "intr_pending"}

(* A step that opens no channel and starts no search. *)
Steady ==
    /\ \A c \in OwnChan : Same(c) \/ Unmoved(c)
    /\ page' = page /\ sdp' = sdp
    /\ \A f \in Pendings : f \in flags' <=> f \in flags
    /\ "sdp_data" \in flags' => "sdp_data" \in flags
    /\ Asked' = Asked
    /\ auth \in {"done", "encrypted"} => auth' \in {"done", "encrypted"}
    /\ \A m \in Elems(tx') : m.op = "sdp_req" => m.search = sdp
    /\ \A m \in Elems(rx') : m.op = "sdp_rsp" => m.search = sdp

(* Such a step keeps what is said of channels and searches. *)
LEMMA SteadyKeeps ==
    ASSUME SetupInv, Steady
    PROVE  Channels' /\ Order' /\ Searching'
<1>1. ASSUME NEW c \in OwnChan PROVE Unmoved(c)
  <2>1. Pending(c) \in Pendings
    BY DEF OwnChan, Pending, Pendings
  <2>2. ChanInv(c) /\ (Same(c) \/ Unmoved(c)) /\ page' = page
        /\ (Pending(c) \in flags' <=> Pending(c) \in flags)
    BY <2>1 DEF SetupInv, Channels, Steady
  <2> QED BY <2>2, ChanKept
<1>2. Channels'
  BY <1>1 DEF Channels, Unmoved
<1>3. /\ Handled("ctrl")' = Handled("ctrl") /\ (Begun("ctrl")' => Begun("ctrl"))
      /\ Handled("intr")' = Handled("intr") /\ (Begun("intr")' => Begun("intr"))
      /\ Handled("sdp")' = Handled("sdp") /\ (Begun("sdp")' => Begun("sdp"))
  BY <1>1 DEF OwnChan, Unmoved
<1>4. Order'
  BY <1>3 DEF SetupInv, Order, Steady
<1>5. Searching'
  <2>1. Elems(tx)' = Elems(tx') /\ Elems(rx)' = Elems(rx')
    BY DEF Elems
  <2> QED BY <2>1 DEF SetupInv, Searching, Steady
<1> QED BY <1>2, <1>4, <1>5

(* A step that leaves the queues and the controller alone. *)
LEMMA QueuesSame ==
    ASSUME SetupInv, rx' = rx, tx' = tx, peer' = peer
    PROVE  /\ \A c \in OwnChan : Same(c)
           /\ Asked' = Asked
           /\ \A m \in Elems(tx') : m.op = "sdp_req" => m.search = sdp
           /\ \A m \in Elems(rx') : m.op = "sdp_rsp" => m.search = sdp
<1>1. \A c : /\ Calls(c)' = Calls(c) /\ Legs(c)' = Legs(c) /\ Owed(c)' = Owed(c)
             /\ Acks(c)' = Acks(c) /\ (Opened(c)' <=> Opened(c))
  BY Later DEF Calls, Legs, Owed, Acks, Opened
<1>2. Asked' = Asked
  BY Later DEF Asked
<1>3. \A c \in OwnChan : Same(c)
  BY <1>1 DEF Same, SetupInv, Channels, ChanInv
<1> QED BY <1>2, <1>3 DEF SetupInv, Searching

(* A step that leaves the records and the task alone. *)
LEMMA KeptSame ==
    ASSUME SetupInv, sdp' = sdp, Asked' = Asked, have' = have, task' = task, raced' = raced,
           "sdp_data" \in flags' <=> "sdp_data" \in flags
    PROVE  Kept'
BY DEF SetupInv, Kept

(* Only a link that is up has messages, questions or a configuration.       *)
LEMMA UpWhen ==
    ASSUME SetupInv,
           \/ rx # <<>> \/ tx # <<>> \/ asks # {} \/ flags # {} \/ have # {} \/ auth # "no"
           \/ \E c \in Chan : peer[c].st # "closed" \/ peer[c].conf
    PROVE  up
BY DEF SetupInv, Clear, Closed

-----------------------------------------------------------------------------
(* HCI events. *)

(* Name, features and the questions of pairing. *)
LEMMA PairingSteps ==
    ASSUME SetupInv,
           \/ NameComplete \/ RemoteFeatures \/ PeerPairs
           \/ LinkKeyReq \/ PinCodeReq \/ IoCapaReq \/ UserConfirmReq
    PROVE  SetupInv'
<1>1. /\ rx' = rx /\ tx' = tx /\ peer' = peer /\ page' = page /\ sdp' = sdp /\ have' = have
      /\ task' = task /\ raced' = raced /\ up' = up /\ len' = len /\ dcid' = dcid
      /\ init' = init /\ stalled' = stalled /\ parsed' = parsed
  BY DEF NameComplete, RemoteFeatures, PeerPairs, LinkKeyReq, PinCodeReq, IoCapaReq,
         UserConfirmReq, unchangedByPairing, hist
<1>2. /\ flags' \subseteq Flag
      /\ \A f \in Pendings \cup {"sdp_data"} : f \in flags' <=> f \in flags
  <2>1. flags' = flags \/ \E f \in SUBSET {"encryption"} : flags' = flags \cup f
    BY DEF NameComplete, RemoteFeatures, PeerPairs, LinkKeyReq, PinCodeReq, IoCapaReq,
           UserConfirmReq, unchangedByPairing
  <2> QED BY <2>1 DEF SetupInv, Typed, TypeOK, Pendings, Flag
<1>3. /\ auth' \in Phase /\ asks' \subseteq Ask /\ named' \in BOOLEAN
      /\ auth \in {"done", "encrypted"} => auth' \in {"done", "encrypted"}
      /\ NameFirst'
  BY DEF NameComplete, RemoteFeatures, PeerPairs, LinkKeyReq, PinCodeReq, IoCapaReq,
         UserConfirmReq, unchangedByPairing, SetupInv, Typed, TypeOK, NameFirst, Phase, Ask
<1>4. up
  <2>1. CASE NameComplete \/ PeerPairs
    BY <2>1 DEF NameComplete, PeerPairs
  <2>2. CASE RemoteFeatures
    BY <2>2, UpWhen DEF RemoteFeatures
  <2>3. CASE LinkKeyReq \/ PinCodeReq \/ IoCapaReq \/ UserConfirmReq
    BY <2>3, UpWhen DEF LinkKeyReq, PinCodeReq, IoCapaReq, UserConfirmReq
  <2> QED BY <2>1, <2>2, <2>3
<1>5. Typed'
  BY <1>1, <1>2, <1>3 DEF SetupInv, Typed, TypeOK
<1>6. Steady
  BY <1>1, <1>2, <1>3, QueuesSame DEF Steady
<1>7. Channels' /\ Order' /\ Searching'
  BY <1>6, SteadyKeeps
<1>8. Kept'
  BY <1>1, <1>2, <1>6, KeptSame DEF Steady
<1>9. Clear'
  BY <1>1, <1>4 DEF Clear
<1> QED BY <1>3, <1>5, <1>7, <1>8, <1>9 DEF SetupInv

-----------------------------------------------------------------------------
(* Messages that open no channel and start no search. *)

(* A handler that leaves flags, records and pairing alone keeps the          *)
(* invariant, if it leaves the channels where they were.                    *)
LEMMA HandlerKeeps ==
    ASSUME SetupInv, up, up' = up, rx' \in Seq(RxMsg), tx' \in Seq(TxMsg), TypeOK',
           \A c \in OwnChan : Same(c) \/ Unmoved(c),
           Asked' = Asked,
           \A m \in Elems(tx') : m.op = "sdp_req" => m.search = sdp,
           \A m \in Elems(rx') : m.op = "sdp_rsp" => m.search = sdp,
           page' = page, named' = named, auth' = auth, flags' = flags, sdp' = sdp,
           have' = have, task' = task, raced' = raced
    PROVE  SetupInv'
<1>1. Typed' /\ NameFirst' /\ Clear'
  BY DEF Typed, NameFirst, Clear, SetupInv
<1>2. Steady
  BY DEF Steady
<1>3. Kept'
  BY KeptSame
<1> QED BY <1>1, <1>2, <1>3, SteadyKeeps DEF SetupInv

(* Queue t is queue s with m put behind it, or s is t with m taken from it. *)
Plus(s, t, m) ==
    /\ Elems(s) \subseteq Elems(t) /\ Elems(t) = Elems(s) \cup {m}
    /\ \A op, c : /\ Cnt(s, op, c) \in Nat /\ Cnt(t, op, c) \in Nat
                  /\ m.op # op \/ m.ch # c => Cnt(t, op, c) = Cnt(s, op, c)
                  /\ m.op = op /\ m.ch = c => Cnt(t, op, c) = Cnt(s, op, c) + 1

(* A message is sent. *)
LEMMA Sends ==
    ASSUME NEW S, NEW s \in Seq(S), NEW m \in S
    PROVE  Append(s, m) \in Seq(S) /\ Plus(s, Append(s, m), m)
<1>1. Append(s, m) \in Seq(S) /\ Elems(Append(s, m)) = Elems(s) \cup {m}
  BY Put
<1>2. ASSUME NEW op, NEW c
      PROVE  /\ Cnt(s, op, c) \in Nat /\ Cnt(Append(s, m), op, c) \in Nat
             /\ m.op # op \/ m.ch # c => Cnt(Append(s, m), op, c) = Cnt(s, op, c)
             /\ m.op = op /\ m.ch = c => Cnt(Append(s, m), op, c) = Cnt(s, op, c) + 1
  <2>1. /\ Cnt(s, op, c) \in Nat
        /\ Cnt(Append(s, m), op, c) = Cnt(s, op, c) + IF m.op = op /\ m.ch = c THEN 1 ELSE 0
    BY Put
  <2> QED BY <2>1
<1> QED BY <1>1, <1>2 DEF Plus

(* A message is taken. *)
LEMMA Takes ==
    ASSUME NEW S, NEW s \in Seq(S), s # <<>>
    PROVE  Tail(s) \in Seq(S) /\ Head(s) \in S /\ Plus(Tail(s), s, Head(s))
<1>1. /\ Tail(s) \in Seq(S) /\ Elems(Tail(s)) \subseteq Elems(s)
      /\ Head(s) \in S /\ Head(s) \in Elems(s)
  BY ElemsOf
<1>2. Elems(s) = Elems(Tail(s)) \cup {Head(s)}
  <2>1. ASSUME NEW x \in Elems(s) PROVE x \in Elems(Tail(s)) \/ x = Head(s)
    <3>1. PICK i \in 1 .. Len(s) : x = s[i]
      BY DEF Elems
    <3>2. /\ Len(Tail(s)) = Len(s) - 1 /\ Len(s) \in Nat
          /\ \A j \in 1 .. Len(Tail(s)) : Tail(s)[j] = s[j + 1]
          /\ Head(s) = s[1]
      BY HeadTailProperties
    <3>3. i # 1 => i - 1 \in 1 .. Len(Tail(s)) /\ (i - 1) + 1 = i
      BY <3>2
    <3> QED BY <3>1, <3>2, <3>3 DEF Elems
  <2> QED BY <1>1, <2>1
<1>3. ASSUME NEW op, NEW c
      PROVE  /\ Cnt(s, op, c) \in Nat /\ Cnt(Tail(s), op, c) \in Nat
             /\ Head(s).op # op \/ Head(s).ch # c => Cnt(s, op, c) = Cnt(Tail(s), op, c)
             /\ Head(s).op = op /\ Head(s).ch = c => Cnt(s, op, c) = Cnt(Tail(s), op, c) + 1
  <2>1. /\ Cnt(s, op, c) \in Nat /\ Cnt(Tail(s), op, c) \in Nat
        /\ Cnt(s, op, c) = Cnt(Tail(s), op, c) + One(Head(s), op, c)
    BY CntOf
  <2> QED BY <2>1 DEF One, Is
<1> QED BY <1>1, <1>2, <1>3 DEF Plus

(* A handler takes the first message. *)
LEMMA Received ==
    ASSUME SetupInv, rx # <<>>, rx' = Tail(rx)
    PROVE  /\ up /\ Typed /\ tx \in Seq(TxMsg)
           /\ rx' \in Seq(RxMsg) /\ Head(rx) \in RxMsg /\ Head(rx).ch \in Chan
           /\ Plus(rx', rx, Head(rx))
<1>1. Typed /\ tx \in Seq(TxMsg) /\ rx \in Seq(RxMsg)
  BY DEF SetupInv, Typed
<1>2. rx' \in Seq(RxMsg) /\ Head(rx) \in RxMsg /\ Plus(rx', rx, Head(rx))
  BY <1>1, Takes
<1>3. Head(rx).ch \in Chan
  BY <1>2 DEF RxMsg, Chan
<1> QED BY <1>1, <1>2, <1>3, UpWhen

(* The searches of the messages under way are those of sdp_state, if those  *)
(* of the new messages are.                                                 *)
LEMMA SearchOf ==
    ASSUME SetupInv,
           \A x \in Elems(tx') \ Elems(tx) : x.op = "sdp_req" => x.search = sdp,
           \A x \in Elems(rx') \ Elems(rx) : x.op = "sdp_rsp" => x.search = sdp
    PROVE  /\ \A x \in Elems(tx') : x.op = "sdp_req" => x.search = sdp
           /\ \A x \in Elems(rx') : x.op = "sdp_rsp" => x.search = sdp
BY DEF SetupInv, Searching

(* The types after a step that changes messages and channels only.          *)
LEMMA TypesKept ==
    ASSUME SetupInv, rx' \in Seq(RxMsg), tx' \in Seq(TxMsg), dcid' \subseteq Chan,
           peer' \in [Chan -> [st : {"closed", "asked", "open", "done"}, conf : BOOLEAN,
                               got : BOOLEAN, chunks : 0 .. MaxChunks]],
           stalled' \subseteq {"auth", "refused", "alloc"},
           UNCHANGED <<up, page, named, auth, asks, task, flags, sdp, len, have, init, parsed,
                       raced>>
    PROVE  TypeOK'
<1>1. \A i \in 1 .. Len(rx') : rx'[i].ch \in Chan
  BY DEF RxMsg, Chan
<1>2. \A i \in 1 .. Len(tx') : tx'[i].ch \in Chan
  BY DEF TxMsg, Chan
<1> QED BY <1>1, <1>2 DEF SetupInv, Typed, TypeOK

(* BT_L2CAP_CONN_REQ: our answer to it opens nothing, our configuration     *)
(* takes its place.                                                         *)
LEMMA ConnReqKeeps == ASSUME SetupInv, L2capConnReq PROVE SetupInv'
<1>1. PICK m : m = Head(rx)
  OBVIOUS
<1>2. /\ rx # <<>> /\ rx' = Tail(rx) /\ m.op = "conn_req"
      /\ tx' = tx \o <<Msg("conn_rsp", m.ch), Msg("conf_req", m.ch)>>
      /\ dcid' = dcid \cup {m.ch}
  BY <1>1 DEF L2capConnReq, Got, Ch
<1>3. /\ up /\ Typed /\ tx \in Seq(TxMsg)
      /\ rx' \in Seq(RxMsg) /\ m \in RxMsg /\ m.ch \in Chan
      /\ Plus(rx', rx, m)
  BY <1>1, <1>2, Received
<1>4. PICK a, b \in TxMsg : /\ a = Msg("conn_rsp", m.ch) /\ b = Msg("conf_req", m.ch)
                            /\ a.op = "conn_rsp" /\ b.op = "conf_req"
                            /\ a.ch = m.ch /\ b.ch = m.ch
  BY <1>3, MsgTyped DEF Ops
<1>5. PICK s : s = Append(tx, a)
  OBVIOUS
<1>6. tx' = Append(s, b)
  BY <1>2, <1>3, <1>4, <1>5, Joined
<1>7. s \in Seq(TxMsg) /\ Plus(tx, s, a)
  BY <1>3, <1>5, Sends
<1>8. tx' \in Seq(TxMsg) /\ Plus(s, tx', b)
  BY <1>6, <1>7, Sends
<1>9. UNCHANGED <<up, page, named, auth, asks, peer, task, flags, sdp, len, have, init, hist>>
  BY DEF L2capConnReq, unchangedByMsg
<1>10. ASSUME NEW c \in OwnChan PROVE Same(c)
  <2>1. /\ Cnt(rx', "conf_req", c) = Cnt(rx, "conf_req", c)
        /\ Cnt(rx', "conn_rsp", c) = Cnt(rx, "conn_rsp", c)
        /\ Cnt(rx', "conf_rsp", c) = Cnt(rx, "conf_rsp", c)
        /\ m.ch # c => Cnt(rx', "conn_req", c) = Cnt(rx, "conn_req", c)
        /\ m.ch = c => Cnt(rx, "conn_req", c) = Cnt(rx', "conn_req", c) + 1
    BY <1>2, <1>3 DEF Plus
  <2>2. /\ Cnt(s, "conn_req", c) = Cnt(tx, "conn_req", c)
        /\ Cnt(s, "conf_req", c) = Cnt(tx, "conf_req", c)
        /\ m.ch # c => Cnt(s, "conn_rsp", c) = Cnt(tx, "conn_rsp", c)
    BY <1>4, <1>7 DEF Plus
  <2>3. /\ Cnt(tx', "conn_req", c) = Cnt(s, "conn_req", c)
        /\ Cnt(tx', "conn_rsp", c) = Cnt(s, "conn_rsp", c)
        /\ m.ch # c => Cnt(tx', "conf_req", c) = Cnt(s, "conf_req", c)
        /\ m.ch = c => Cnt(tx', "conf_req", c) = Cnt(s, "conf_req", c) + 1
    BY <1>4, <1>8 DEF Plus
  <2>4. /\ Calls(c)' = Calls(c) /\ Owed(c)' = Owed(c) /\ (Opened(c)' <=> Opened(c))
        /\ m.ch # c => Acks(c)' = Acks(c)
    BY <1>9, <2>1, <2>2, <2>3, Later DEF Calls, Owed, Opened, Acks
  <2>5. Legs(c)' = Legs(c) /\ (m.ch = c => Legs(c) > 0)
    <3>1. Cnt(rx', "conn_req", c) \in Nat /\ Cnt(tx, "conf_req", c) \in Nat
          /\ Cnt(rx, "conn_rsp", c) \in Nat /\ Cnt(rx, "conf_rsp", c) \in Nat
      BY <1>3, Numbers DEF Plus
    <3> QED BY <2>1, <2>2, <2>3, <3>1, Later DEF Legs
  <2> QED BY <1>9, <2>4, <2>5 DEF Same, SetupInv, Channels, ChanInv
<1>11. Asked' = Asked
  <2>1. Cnt(s, "sdp_req", "sdp") = Cnt(tx, "sdp_req", "sdp")
    BY <1>4, <1>7 DEF Plus
  <2>2. Cnt(tx', "sdp_req", "sdp") = Cnt(s, "sdp_req", "sdp")
    BY <1>4, <1>8 DEF Plus
  <2>3. Cnt(rx', "sdp_rsp", "sdp") = Cnt(rx, "sdp_rsp", "sdp")
    BY <1>2, <1>3 DEF Plus
  <2> QED BY <2>1, <2>2, <2>3, Later DEF Asked
<1>12. TypeOK'
  BY <1>2, <1>3, <1>8, <1>9, TypesKept DEF SetupInv, Typed, TypeOK, hist
<1>13. /\ \A x \in Elems(tx') : x.op = "sdp_req" => x.search = sdp
       /\ \A x \in Elems(rx') : x.op = "sdp_rsp" => x.search = sdp
  BY <1>3, <1>4, <1>7, <1>8, SearchOf DEF Plus
<1> QED BY <1>3, <1>8, <1>9, <1>10, <1>11, <1>12, <1>13, HandlerKeeps DEF hist

(* The kinds of messages that count, in each direction.                     *)
RxKinds == {"conn_req", "conn_rsp", "conf_req", "conf_rsp", "sdp_rsp"}
TxKinds == {"conn_req", "conf_req", "sdp_req"}

(* A message that does not count, or for a channel that does not. *)
LEMMA Uncounted ==
    ASSUME NEW s, NEW t, NEW m, Plus(s, t, m)
    PROVE  /\ m.op \notin RxKinds \/ m.ch \notin OwnChan
              => \A op \in RxKinds, c \in OwnChan : Cnt(t, op, c) = Cnt(s, op, c)
           /\ m.op \notin TxKinds \/ m.ch \notin OwnChan
              => \A op \in TxKinds, c \in OwnChan : Cnt(t, op, c) = Cnt(s, op, c)
BY DEF Plus

(* A step after which as many messages of each kind that counts are under   *)
(* way, and the controller has opened and configured the same channels.     *)
LEMMA CountsSame ==
    ASSUME SetupInv,
           \A op \in RxKinds, c \in OwnChan : Cnt(rx', op, c) = Cnt(rx, op, c),
           \A op \in TxKinds, c \in OwnChan : Cnt(tx', op, c) = Cnt(tx, op, c),
           \A c \in OwnChan : /\ Cnt(tx', "conn_rsp", c) > 0 => Cnt(tx, "conn_rsp", c) > 0
                              /\ peer'[c].st # "closed" <=> peer[c].st # "closed"
                              /\ peer'[c].conf <=> peer[c].conf
    PROVE  (\A c \in OwnChan : Same(c)) /\ Asked' = Asked
<1>1. ASSUME NEW c \in OwnChan PROVE Same(c)
  <2>1. Calls(c)' = Calls(c) /\ (Opened(c)' <=> Opened(c))
    BY Later DEF Calls, Opened, TxKinds
  <2>2. Legs(c)' = Legs(c)
    BY Later DEF Legs, RxKinds, TxKinds
  <2>3. Owed(c)' = Owed(c)
    BY Later DEF Owed, RxKinds
  <2>4. Acks(c)' > 0 => Acks(c) > 0
    BY Later DEF Acks
  <2> QED BY <2>1, <2>2, <2>3, <2>4 DEF Same, SetupInv, Channels, ChanInv
<1>2. Asked' = Asked
  BY Later DEF Asked, RxKinds, TxKinds, OwnChan
<1> QED BY <1>1, <1>2

(* Messages that are ignored, or answered with one that is. *)
LEMMA IgnoredKeeps ==
    ASSUME SetupInv, L2capIgnored \/ L2capDisconnReq \/ SdpRequest
    PROVE  SetupInv'
<1>1. PICK m : m = Head(rx)
  OBVIOUS
<1>2. /\ rx # <<>> /\ rx' = Tail(rx)
      /\ m.op \in {"conn_pend", "conn_refused", "disconn_rsp", "disconn_req", "sdp_req"}
  BY <1>1 DEF L2capIgnored, L2capDisconnReq, SdpRequest, Got
<1>3. /\ up /\ Typed /\ tx \in Seq(TxMsg)
      /\ rx' \in Seq(RxMsg) /\ m \in RxMsg /\ m.ch \in Chan
      /\ Plus(rx', rx, m)
  BY <1>1, <1>2, Received
<1>4. \/ tx' = tx
      \/ \E a \in TxMsg : a.op \in {"disconn_rsp", "sdp_rsp"} /\ tx' = Append(tx, a)
  <2>1. CASE L2capIgnored
    BY <2>1 DEF L2capIgnored
  <2>2. CASE L2capDisconnReq
    <3>1. tx' = Append(tx, Msg("disconn_rsp", m.ch))
      BY <1>1, <2>2 DEF L2capDisconnReq, Ch
    <3> QED BY <1>3, <3>1, MsgTyped DEF Ops
  <2>3. CASE SdpRequest
    <3>1. tx' = Append(tx, Msg("sdp_rsp", "sdp_rx"))
      BY <2>3 DEF SdpRequest
    <3> QED BY <3>1, MsgTyped DEF Ops, Chan
  <2> QED BY <2>1, <2>2, <2>3
<1>5. /\ UNCHANGED <<up, page, named, auth, asks, peer, task, flags, dcid, sdp, len, have, init,
                     parsed, raced>>
      /\ stalled' \subseteq stalled \cup {"refused"}
  BY DEF L2capIgnored, L2capDisconnReq, SdpRequest, unchangedByMsg, hist
<1> DEFINE Quiet == /\ tx' \in Seq(TxMsg)
                    /\ \A op \in TxKinds, c \in OwnChan : Cnt(tx', op, c) = Cnt(tx, op, c)
                    /\ \A c \in OwnChan : Cnt(tx', "conn_rsp", c) = Cnt(tx, "conn_rsp", c)
                    /\ \A x \in Elems(tx') \ Elems(tx) : x.op # "sdp_req"
<1>6. Quiet
  <2>1. CASE tx' = tx
    BY <1>3, <2>1
  <2>2. ASSUME NEW a \in TxMsg, a.op \in {"disconn_rsp", "sdp_rsp"}, tx' = Append(tx, a)
        PROVE  Quiet
    <3>1. tx' \in Seq(TxMsg) /\ Plus(tx, tx', a)
      BY <1>3, <2>2, Sends
    <3>2. a.op \notin TxKinds /\ a.op # "conn_rsp" /\ a.op # "sdp_req"
      BY <2>2 DEF TxKinds
    <3>3. \A op \in TxKinds, c \in OwnChan : Cnt(tx', op, c) = Cnt(tx, op, c)
      BY <3>1, <3>2, Uncounted
    <3>4. \A c \in OwnChan : Cnt(tx', "conn_rsp", c) = Cnt(tx, "conn_rsp", c)
      BY <3>1, <3>2 DEF Plus
    <3>5. \A x \in Elems(tx') \ Elems(tx) : x.op # "sdp_req"
      BY <3>1, <3>2 DEF Plus
    <3> QED BY <3>1, <3>3, <3>4, <3>5
  <2> HIDE DEF Quiet
  <2> QED BY <1>4, <2>1, <2>2
<1>7. \A op \in RxKinds, c \in OwnChan : Cnt(rx', op, c) = Cnt(rx, op, c)
  <2>1. m.op \notin RxKinds
    BY <1>2 DEF RxKinds
  <2> QED BY <1>3, <2>1, Uncounted
<1>8. (\A c \in OwnChan : Same(c)) /\ Asked' = Asked
  BY <1>5, <1>6, <1>7, CountsSame
<1>9. TypeOK'
  BY <1>3, <1>5, <1>6, TypesKept DEF SetupInv, Typed, TypeOK
<1>10. /\ \A x \in Elems(tx') : x.op = "sdp_req" => x.search = sdp
       /\ \A x \in Elems(rx') : x.op = "sdp_rsp" => x.search = sdp
  BY <1>3, <1>6, SearchOf DEF Plus
<1> QED BY <1>3, <1>5, <1>6, <1>8, <1>9, <1>10, HandlerKeeps

(* BT_L2CAP_CONN_RSP: our configuration takes the place of the response. *)
LEMMA ConnRspKeeps == ASSUME SetupInv, L2capConnRsp PROVE SetupInv'
<1>1. PICK m : m = Head(rx)
  OBVIOUS
<1>2. /\ rx # <<>> /\ rx' = Tail(rx) /\ m.op = "conn_rsp"
      /\ tx' = Append(tx, Msg("conf_req", m.ch))
      /\ dcid' = dcid \cup {m.ch}
  BY <1>1 DEF L2capConnRsp, Got, Ch
<1>3. /\ up /\ Typed /\ tx \in Seq(TxMsg)
      /\ rx' \in Seq(RxMsg) /\ m \in RxMsg /\ m.ch \in Chan
      /\ Plus(rx', rx, m)
  BY <1>1, <1>2, Received
<1>4. PICK a \in TxMsg : a = Msg("conf_req", m.ch) /\ a.op = "conf_req" /\ a.ch = m.ch
  BY <1>3, MsgTyped DEF Ops
<1>5. tx' \in Seq(TxMsg) /\ Plus(tx, tx', a)
  BY <1>2, <1>3, <1>4, Sends
<1>6. UNCHANGED <<up, page, named, auth, asks, peer, task, flags, sdp, len, have, init, hist>>
  BY DEF L2capConnRsp, unchangedByMsg
<1>7. ASSUME NEW c \in OwnChan PROVE Same(c)
  <2>1. /\ Cnt(rx', "conf_req", c) = Cnt(rx, "conf_req", c)
        /\ Cnt(rx', "conn_req", c) = Cnt(rx, "conn_req", c)
        /\ Cnt(rx', "conf_rsp", c) = Cnt(rx, "conf_rsp", c)
        /\ m.ch # c => Cnt(rx', "conn_rsp", c) = Cnt(rx, "conn_rsp", c)
        /\ m.ch = c => Cnt(rx, "conn_rsp", c) = Cnt(rx', "conn_rsp", c) + 1
    BY <1>2, <1>3 DEF Plus
  <2>2. /\ Cnt(tx', "conn_req", c) = Cnt(tx, "conn_req", c)
        /\ Cnt(tx', "conn_rsp", c) = Cnt(tx, "conn_rsp", c)
        /\ m.ch # c => Cnt(tx', "conf_req", c) = Cnt(tx, "conf_req", c)
        /\ m.ch = c => Cnt(tx', "conf_req", c) = Cnt(tx, "conf_req", c) + 1
    BY <1>4, <1>5 DEF Plus
  <2>3. /\ Calls(c)' = Calls(c) /\ Owed(c)' = Owed(c) /\ (Opened(c)' <=> Opened(c))
        /\ Acks(c)' = Acks(c)
    BY <1>6, <2>1, <2>2, Later DEF Calls, Owed, Opened, Acks
  <2>4. Legs(c)' = Legs(c)
    <3>1. Cnt(rx', "conn_rsp", c) \in Nat /\ Cnt(tx, "conf_req", c) \in Nat
          /\ Cnt(rx, "conn_req", c) \in Nat /\ Cnt(rx, "conf_rsp", c) \in Nat
      BY <1>3, Numbers DEF Plus
    <3> QED BY <2>1, <2>2, <3>1, Later DEF Legs
  <2> QED BY <1>6, <2>3, <2>4 DEF Same, SetupInv, Channels, ChanInv
<1>8. Asked' = Asked
  <2>1. Cnt(tx', "sdp_req", "sdp") = Cnt(tx, "sdp_req", "sdp")
    BY <1>4, <1>5 DEF Plus
  <2>2. Cnt(rx', "sdp_rsp", "sdp") = Cnt(rx, "sdp_rsp", "sdp")
    BY <1>2, <1>3 DEF Plus
  <2> QED BY <2>1, <2>2, Later DEF Asked
<1>9. TypeOK'
  BY <1>2, <1>3, <1>5, <1>6, TypesKept DEF SetupInv, Typed, TypeOK, hist
<1>10. /\ \A x \in Elems(tx') : x.op = "sdp_req" => x.search = sdp
       /\ \A x \in Elems(rx') : x.op = "sdp_rsp" => x.search = sdp
  BY <1>3, <1>4, <1>5, SearchOf DEF Plus
<1> QED BY <1>3, <1>5, <1>6, <1>7, <1>8, <1>9, <1>10, HandlerKeeps DEF hist

-----------------------------------------------------------------------------
(* The controller. *)

(* Its end of a channel changes. *)
PeerState == [st : {"closed", "asked", "open", "done"}, conf : BOOLEAN, got : BOOLEAN,
              chunks : 0 .. MaxChunks]

(* It makes a request, or says goodbye, on a channel of its own. *)
LEMMA PeerOwnKeeps ==
    ASSUME SetupInv, PeerAsk \/ PeerClose \/ PeerOpen("sdp_rx")
    PROVE  SetupInv'
<1>1. /\ peer \in [Chan -> PeerState] /\ rx \in Seq(RxMsg) /\ tx \in Seq(TxMsg) /\ Typed
  BY DEF SetupInv, Typed, TypeOK, PeerState
<1>2. PICK a \in RxMsg : /\ rx' = Append(rx, a) /\ a.ch = "sdp_rx" /\ a.op # "sdp_rsp"
  <2>1. \E op \in {"sdp_req", "disconn_req", "conn_req"} : rx' = Append(rx, Msg(op, "sdp_rx"))
    BY DEF PeerAsk, PeerClose, PeerOpen
  <2> QED BY <2>1, MsgTyped DEF Ops, Chan
<1>3. /\ UNCHANGED <<up, page, named, auth, asks, tx, task, flags, dcid, sdp, len, have, init, hist>>
  BY DEF PeerAsk, PeerClose, PeerOpen, hostVars
<1>4. rx' \in Seq(RxMsg) /\ Plus(rx, rx', a)
  BY <1>1, <1>2, Sends
<1>5. /\ peer' \in [Chan -> PeerState]
      /\ \A c \in OwnChan : peer'[c] = peer[c]
      /\ up
  <2>1. OwnChan \subseteq Chan \ {"sdp_rx"} /\ "sdp_rx" \in Chan /\ 1 \in 0 .. MaxChunks
    BY SetupAssumption DEF OwnChan, Chan
  <2>2. CASE PeerAsk
    <3>1. up
      BY <2>1, <2>2, UpWhen DEF PeerAsk, Configured
    <3> QED BY <1>1, <2>1, <2>2, <3>1 DEF PeerAsk, PeerState
  <2>3. CASE PeerClose
    <3>1. up
      BY <2>1, <2>3, UpWhen DEF PeerClose
    <3> QED BY <1>1, <2>1, <2>3, <3>1 DEF PeerClose, PeerState
  <2>4. CASE PeerOpen("sdp_rx")
    BY <1>1, <2>1, <2>4 DEF PeerOpen, PeerState
  <2> QED BY <2>2, <2>3, <2>4
<1>6. \A op \in RxKinds, c \in OwnChan : Cnt(rx', op, c) = Cnt(rx, op, c)
  <2>1. a.ch \notin OwnChan
    BY <1>2 DEF OwnChan
  <2> QED BY <1>4, <2>1, Uncounted
<1>7. (\A c \in OwnChan : Same(c)) /\ Asked' = Asked
  BY <1>3, <1>5, <1>6, CountsSame
<1>8. TypeOK'
  BY <1>1, <1>3, <1>4, <1>5, TypesKept DEF SetupInv, Typed, TypeOK, hist, PeerState
<1>9. /\ \A x \in Elems(tx') : x.op = "sdp_req" => x.search = sdp
      /\ \A x \in Elems(rx') : x.op = "sdp_rsp" => x.search = sdp
  BY <1>2, <1>3, <1>4, SearchOf DEF Plus
<1> QED BY <1>1, <1>3, <1>4, <1>5, <1>7, <1>8, <1>9, HandlerKeeps DEF hist

(* It asks for its configuration: what it owed is under way.                *)
LEMMA PeerConfKeeps == ASSUME SetupInv, NEW d \in Chan, PeerConf(d) PROVE SetupInv'
<1>1. /\ peer \in [Chan -> PeerState] /\ rx \in Seq(RxMsg) /\ tx \in Seq(TxMsg) /\ Typed
  BY DEF SetupInv, Typed, TypeOK, PeerState
<1>2. PICK a \in RxMsg : rx' = Append(rx, a) /\ a.op = "conf_req" /\ a.ch = d
  BY MsgTyped DEF PeerConf, Ops
<1>3. UNCHANGED <<up, page, named, auth, asks, tx, task, flags, dcid, sdp, len, have, init, hist>>
  BY DEF PeerConf, hostVars
<1>4. rx' \in Seq(RxMsg) /\ Plus(rx, rx', a)
  BY <1>1, <1>2, Sends
<1>5. /\ peer' \in [Chan -> PeerState] /\ peer[d].st = "open" /\ ~peer[d].conf
      /\ peer'[d].conf /\ peer'[d].st = "open"
      /\ \A c \in Chan \ {d} : peer'[c] = peer[c]
  BY <1>1 DEF PeerConf, PeerState
<1>6. up
  BY <1>5, UpWhen
<1>7. ASSUME NEW c \in OwnChan PROVE Same(c)
  <2>1. /\ Cnt(rx', "conn_req", c) = Cnt(rx, "conn_req", c)
        /\ Cnt(rx', "conn_rsp", c) = Cnt(rx, "conn_rsp", c)
        /\ Cnt(rx', "conf_rsp", c) = Cnt(rx, "conf_rsp", c)
        /\ d # c => Cnt(rx', "conf_req", c) = Cnt(rx, "conf_req", c)
        /\ d = c => Cnt(rx', "conf_req", c) = Cnt(rx, "conf_req", c) + 1
        /\ Cnt(rx, "conf_req", c) \in Nat
    BY <1>2, <1>4 DEF Plus
  <2>2. c \in Chan
    BY DEF OwnChan, Chan
  <2>3. /\ Calls(c)' = Calls(c) /\ Legs(c)' = Legs(c) /\ Acks(c)' = Acks(c)
        /\ (Opened(c)' <=> Opened(c))
    BY <1>3, <1>5, <2>1, <2>2, Later DEF Calls, Legs, Acks, Opened
  <2>4. Owed(c)' = Owed(c) /\ (d = c => Opened(c))
    BY <1>5, <2>1, <2>2, Later DEF Owed, Opened
  <2>5. d # c => peer'[c].conf = peer[c].conf
    BY <1>5, <2>2
  <2> QED BY <2>3, <2>4, <2>5 DEF Same, SetupInv, Channels, ChanInv
<1>8. Asked' = Asked
  <2>1. Cnt(rx', "sdp_rsp", "sdp") = Cnt(rx, "sdp_rsp", "sdp")
    BY <1>2, <1>4 DEF Plus
  <2> QED BY <1>3, <2>1, Later DEF Asked
<1>9. TypeOK'
  BY <1>1, <1>3, <1>4, <1>5, TypesKept DEF SetupInv, Typed, TypeOK, hist, PeerState
<1>10. /\ \A x \in Elems(tx') : x.op = "sdp_req" => x.search = sdp
       /\ \A x \in Elems(rx') : x.op = "sdp_rsp" => x.search = sdp
  BY <1>2, <1>3, <1>4, SearchOf DEF Plus
<1> QED BY <1>1, <1>3, <1>4, <1>6, <1>7, <1>8, <1>9, <1>10, HandlerKeeps DEF hist

(* It takes the first message, and answers with the message b or not at all.*)
LEMMA PeerTakes ==
    ASSUME SetupInv, PeerRecv
    PROVE  /\ tx # <<>> /\ tx' = Tail(tx)
           /\ UNCHANGED <<up, page, named, auth, asks, task, flags, dcid, sdp, len, have, init, hist>>
           /\ up /\ Typed /\ rx \in Seq(RxMsg) /\ peer \in [Chan -> PeerState]
           /\ tx' \in Seq(TxMsg) /\ Head(tx) \in TxMsg /\ Head(tx).ch \in Chan
           /\ Plus(tx', tx, Head(tx))
<1>1. /\ tx # <<>> /\ tx' = Tail(tx)
      /\ UNCHANGED <<up, page, named, auth, asks, task, flags, dcid, sdp, len, have, init, hist>>
  BY DEF PeerRecv, hostVars
<1>2. Typed /\ tx \in Seq(TxMsg) /\ rx \in Seq(RxMsg) /\ peer \in [Chan -> PeerState]
  BY DEF SetupInv, Typed, TypeOK, PeerState
<1>3. tx' \in Seq(TxMsg) /\ Head(tx) \in TxMsg /\ Plus(tx', tx, Head(tx))
  BY <1>1, <1>2, Takes
<1>4. Head(tx).ch \in Chan
  BY <1>3 DEF TxMsg, Chan
<1> QED BY <1>1, <1>2, <1>3, <1>4, UpWhen

(* What is left to show of a message the controller takes.                  *)
LEMMA PeerKeeps ==
    ASSUME SetupInv, PeerRecv,
           rx' \in Seq(RxMsg), peer' \in [Chan -> PeerState],
           \A c \in OwnChan : Same(c) \/ Unmoved(c),
           Asked' = Asked,
           \A x \in Elems(rx') \ Elems(rx) : x.op = "sdp_rsp" => x.search = sdp
    PROVE  SetupInv'
<1>1. /\ UNCHANGED <<up, page, named, auth, asks, task, flags, dcid, sdp, len, have, init, hist>>
      /\ up /\ tx' \in Seq(TxMsg) /\ Plus(tx', tx, Head(tx))
  BY PeerTakes
<1>2. TypeOK'
  BY <1>1, TypesKept DEF SetupInv, Typed, TypeOK, hist, PeerState
<1>3. /\ \A x \in Elems(tx') : x.op = "sdp_req" => x.search = sdp
      /\ \A x \in Elems(rx') : x.op = "sdp_rsp" => x.search = sdp
  BY <1>1, SearchOf DEF Plus
<1> QED BY <1>1, <1>2, <1>3, HandlerKeeps DEF hist

(* A message that the controller answers with none that counts.             *)
LEMMA PeerQuiet ==
    ASSUME SetupInv, PeerRecv,
           Head(tx).op \in {"conn_rsp", "conf_rsp", "disconn_req", "sdp_rsp", "disconn_rsp"}
    PROVE  SetupInv'
<1>1. PICK m : m = Head(tx)
  OBVIOUS
<1>2. m.op \in {"conn_rsp", "conf_rsp", "disconn_req", "sdp_rsp", "disconn_rsp"}
  BY <1>1
<1>3. /\ Typed /\ rx \in Seq(RxMsg) /\ peer \in [Chan -> PeerState]
      /\ m.ch \in Chan /\ Plus(tx', tx, m)
  BY <1>1, PeerTakes
<1> DEFINE Quiet == /\ rx' \in Seq(RxMsg)
                    /\ \A op \in RxKinds, c \in OwnChan : Cnt(rx', op, c) = Cnt(rx, op, c)
                    /\ \A x \in Elems(rx') \ Elems(rx) : x.op # "sdp_rsp"
<1>4. Quiet
  <2>1. rx' = rx \/ rx' = Append(rx, Msg("disconn_rsp", m.ch))
    BY <1>1, <1>2 DEF PeerRecv
  <2>2. CASE rx' = rx
    BY <1>3, <2>2
  <2>3. CASE rx' = Append(rx, Msg("disconn_rsp", m.ch))
    <3>1. PICK a \in RxMsg : a = Msg("disconn_rsp", m.ch) /\ a.op = "disconn_rsp"
      BY <1>3, MsgTyped DEF Ops
    <3>2. rx' \in Seq(RxMsg) /\ Plus(rx, rx', a)
      BY <1>3, <2>3, <3>1, Sends
    <3>3. a.op \notin RxKinds /\ a.op # "sdp_rsp"
      BY <3>1 DEF RxKinds
    <3>4. \A op \in RxKinds, c \in OwnChan : Cnt(rx', op, c) = Cnt(rx, op, c)
      BY <3>2, <3>3, Uncounted
    <3>5. \A x \in Elems(rx') \ Elems(rx) : x.op # "sdp_rsp"
      BY <3>2, <3>3 DEF Plus
    <3> QED BY <3>2, <3>4, <3>5
  <2> QED BY <2>1, <2>2, <2>3
<1> HIDE DEF Quiet
<1>5. \A op \in TxKinds, c \in OwnChan : Cnt(tx', op, c) = Cnt(tx, op, c)
  <2>1. m.op \notin TxKinds
    BY <1>2 DEF TxKinds
  <2>2. \A op \in TxKinds, c \in OwnChan : Cnt(tx, op, c) = Cnt(tx', op, c)
    BY <1>3, <2>1, Uncounted
  <2> QED BY <2>2
<1>6. ASSUME NEW c \in OwnChan
      PROVE  /\ Cnt(tx', "conn_rsp", c) > 0 => Cnt(tx, "conn_rsp", c) > 0
             /\ m.op = "conn_rsp" /\ m.ch = c => Opened(c)
  <2>1. /\ Cnt(tx, "conn_rsp", c) \in Nat /\ Cnt(tx', "conn_rsp", c) \in Nat
        /\ m.op # "conn_rsp" \/ m.ch # c => Cnt(tx, "conn_rsp", c) = Cnt(tx', "conn_rsp", c)
        /\ m.op = "conn_rsp" /\ m.ch = c => Cnt(tx, "conn_rsp", c) = Cnt(tx', "conn_rsp", c) + 1
    BY <1>3 DEF Plus
  <2>2. Cnt(tx, "conn_rsp", c) > 0 => Opened(c)
    BY DEF SetupInv, Channels, ChanInv, Acks
  <2> QED BY <2>1, <2>2
<1>7. /\ peer' \in [Chan -> PeerState]
      /\ \A c \in Chan : peer'[c].conf = peer[c].conf
      /\ \A c \in Chan : \/ peer'[c].st = peer[c].st
                         \/ peer'[c].st = "open" /\ m.op = "conn_rsp" /\ m.ch = c
  <2>1. \/ peer' = peer
        \/ m.op = "conn_rsp" /\ peer' = [peer EXCEPT ![m.ch].st = "open"]
        \/ peer' = [peer EXCEPT ![m.ch].got = TRUE]
    BY <1>1, <1>2 DEF PeerRecv
  <2>2. CASE m.op = "conn_rsp" /\ peer' = [peer EXCEPT ![m.ch].st = "open"]
    <3>1. /\ peer' \in [Chan -> PeerState]
          /\ peer'[m.ch].st = "open" /\ peer'[m.ch].conf = peer[m.ch].conf
          /\ \A c \in Chan \ {m.ch} : peer'[c] = peer[c]
      BY <1>3, <2>2 DEF PeerState
    <3> QED BY <2>2, <3>1
  <2>3. CASE peer' = [peer EXCEPT ![m.ch].got = TRUE]
    <3>1. /\ peer' \in [Chan -> PeerState]
          /\ peer'[m.ch].st = peer[m.ch].st /\ peer'[m.ch].conf = peer[m.ch].conf
          /\ \A c \in Chan \ {m.ch} : peer'[c] = peer[c]
      BY <1>3, <2>3 DEF PeerState
    <3> QED BY <3>1
  <2> QED BY <1>3, <2>1, <2>2, <2>3
<1>8. (\A c \in OwnChan : Same(c)) /\ Asked' = Asked
  <2>1. \A c \in OwnChan : c \in Chan
    BY DEF OwnChan, Chan
  <2>2. \A c \in OwnChan : /\ Cnt(tx', "conn_rsp", c) > 0 => Cnt(tx, "conn_rsp", c) > 0
                           /\ peer'[c].st # "closed" <=> peer[c].st # "closed"
                           /\ peer'[c].conf <=> peer[c].conf
    BY <1>6, <1>7, <2>1 DEF Opened
  <2> QED BY <1>4, <1>5, <2>2, CountsSame DEF Quiet
<1> QED BY <1>4, <1>7, <1>8, PeerKeeps DEF Quiet

(* Our configuration of a channel is answered.                              *)
LEMMA PeerConfigured ==
    ASSUME SetupInv, PeerRecv, Head(tx).op = "conf_req" PROVE SetupInv'
<1>1. PICK m : m = Head(tx)
  OBVIOUS
<1>2. /\ m.op = "conf_req" /\ Typed /\ rx \in Seq(RxMsg) /\ peer \in [Chan -> PeerState]
      /\ m.ch \in Chan /\ Plus(tx', tx, m)
  BY <1>1, PeerTakes
<1>3. rx' = Append(rx, Msg("conf_rsp", m.ch)) /\ peer' = peer
  BY <1>1, <1>2 DEF PeerRecv
<1>4. PICK a \in RxMsg : a = Msg("conf_rsp", m.ch) /\ a.op = "conf_rsp" /\ a.ch = m.ch
  BY <1>2, MsgTyped DEF Ops
<1>5. rx' \in Seq(RxMsg) /\ Plus(rx, rx', a)
  BY <1>2, <1>3, <1>4, Sends
<1>6. ASSUME NEW c \in OwnChan PROVE Same(c)
  <2>1. /\ Cnt(rx', "conf_req", c) = Cnt(rx, "conf_req", c)
        /\ Cnt(rx', "conn_req", c) = Cnt(rx, "conn_req", c)
        /\ Cnt(rx', "conn_rsp", c) = Cnt(rx, "conn_rsp", c)
        /\ m.ch # c => Cnt(rx', "conf_rsp", c) = Cnt(rx, "conf_rsp", c)
        /\ m.ch = c => Cnt(rx', "conf_rsp", c) = Cnt(rx, "conf_rsp", c) + 1
    BY <1>4, <1>5 DEF Plus
  <2>2. /\ Cnt(tx', "conn_req", c) = Cnt(tx, "conn_req", c)
        /\ Cnt(tx', "conn_rsp", c) = Cnt(tx, "conn_rsp", c)
        /\ m.ch # c => Cnt(tx', "conf_req", c) = Cnt(tx, "conf_req", c)
        /\ m.ch = c => Cnt(tx, "conf_req", c) = Cnt(tx', "conf_req", c) + 1
        /\ Cnt(tx', "conf_req", c) \in Nat
    BY <1>2 DEF Plus
  <2>3. /\ Calls(c)' = Calls(c) /\ Owed(c)' = Owed(c) /\ (Opened(c)' <=> Opened(c))
        /\ Acks(c)' = Acks(c)
    BY <1>3, <2>1, <2>2, Later DEF Calls, Owed, Opened, Acks
  <2>4. Legs(c)' = Legs(c)
    <3>1. Cnt(rx, "conn_rsp", c) \in Nat /\ Cnt(rx, "conn_req", c) \in Nat
          /\ Cnt(rx, "conf_rsp", c) \in Nat
      BY <1>2, Numbers
    <3> QED BY <2>1, <2>2, <3>1, Later DEF Legs
  <2> QED BY <1>3, <2>3, <2>4 DEF Same, SetupInv, Channels, ChanInv
<1>7. Asked' = Asked
  <2>1. Cnt(tx', "sdp_req", "sdp") = Cnt(tx, "sdp_req", "sdp")
    BY <1>2 DEF Plus
  <2>2. Cnt(rx', "sdp_rsp", "sdp") = Cnt(rx, "sdp_rsp", "sdp")
    BY <1>4, <1>5 DEF Plus
  <2> QED BY <2>1, <2>2, Later DEF Asked
<1>8. \A x \in Elems(rx') \ Elems(rx) : x.op = "sdp_rsp" => x.search = sdp
  BY <1>4, <1>5 DEF Plus
<1> QED BY <1>2, <1>3, <1>5, <1>6, <1>7, <1>8, PeerKeeps

(* A search is answered: the answer is of the search that asked.            *)
LEMMA PeerAnswers ==
    ASSUME SetupInv, PeerRecv, Head(tx).op = "sdp_req" PROVE SetupInv'
<1>1. PICK m : m = Head(tx)
  OBVIOUS
<1>2. /\ m.op = "sdp_req" /\ Typed /\ rx \in Seq(RxMsg) /\ peer \in [Chan -> PeerState]
      /\ m \in TxMsg /\ Plus(tx', tx, m)
  BY <1>1, PeerTakes
<1>3. m.ch = "sdp" /\ m.search \in Search /\ m.search = sdp
  <2>1. m.ch = "sdp" /\ m.search \in Search
    BY <1>2 DEF TxMsg
  <2>2. m \in Elems(tx)
    BY <1>2 DEF Plus
  <2> QED BY <1>2, <2>1, <2>2 DEF SetupInv, Searching
<1>4. PICK n \in 0 .. MaxChunk, more \in BOOLEAN :
        /\ more => peer["sdp"].chunks + 1 < MaxChunks
        /\ peer' = [peer EXCEPT !["sdp"].chunks = IF more THEN @ + 1 ELSE 0]
        /\ rx' = Append(rx, Response(m.search, n, more))
  BY <1>1, <1>2 DEF PeerRecv, PeerSearch
<1>5. PICK a \in RxMsg : /\ a = Response(m.search, n, more)
                         /\ a.op = "sdp_rsp" /\ a.ch = "sdp" /\ a.search = sdp
  <2>1. [op |-> "sdp_rsp", ch |-> "sdp", search |-> m.search, n |-> n, more |-> more]
          \in [op : {"sdp_rsp"}, ch : {"sdp"}, search : Search, n : 0 .. MaxChunk,
              more : BOOLEAN]
    BY <1>3, Zenon
  <2>2. Response(m.search, n, more) \in RxMsg
    BY <2>1, Zenon DEF Response, RxMsg
  <2>3. /\ Response(m.search, n, more).op = "sdp_rsp" /\ Response(m.search, n, more).ch = "sdp"
        /\ Response(m.search, n, more).search = m.search
    BY Zenon DEF Response
  <2> QED BY <1>3, <2>2, <2>3
<1>6. rx' \in Seq(RxMsg) /\ Plus(rx, rx', a)
  BY <1>2, <1>4, <1>5, Sends
<1>7. peer' \in [Chan -> PeerState]
      /\ \A c \in Chan : peer'[c].conf = peer[c].conf /\ peer'[c].st = peer[c].st
  <2>1. "sdp" \in Chan /\ peer["sdp"].chunks \in 0 .. MaxChunks
    BY <1>2 DEF PeerState, Chan
  <2>2. (IF more THEN peer["sdp"].chunks + 1 ELSE 0) \in 0 .. MaxChunks
    BY <1>4, <2>1, SetupAssumption
  <2> QED BY <1>2, <1>4, <2>1, <2>2 DEF PeerState
<1>8. ASSUME NEW c \in OwnChan PROVE Same(c)
  <2>1. /\ Cnt(rx', "conf_req", c) = Cnt(rx, "conf_req", c)
        /\ Cnt(rx', "conn_req", c) = Cnt(rx, "conn_req", c)
        /\ Cnt(rx', "conn_rsp", c) = Cnt(rx, "conn_rsp", c)
        /\ Cnt(rx', "conf_rsp", c) = Cnt(rx, "conf_rsp", c)
    BY <1>5, <1>6 DEF Plus
  <2>2. /\ Cnt(tx', "conn_req", c) = Cnt(tx, "conn_req", c)
        /\ Cnt(tx', "conn_rsp", c) = Cnt(tx, "conn_rsp", c)
        /\ Cnt(tx', "conf_req", c) = Cnt(tx, "conf_req", c)
    BY <1>2 DEF Plus
  <2>3. c \in Chan
    BY DEF OwnChan, Chan
  <2>4. /\ Calls(c)' = Calls(c) /\ Owed(c)' = Owed(c) /\ (Opened(c)' <=> Opened(c))
        /\ Acks(c)' = Acks(c) /\ Legs(c)' = Legs(c)
    BY <1>7, <2>1, <2>2, <2>3, Later DEF Calls, Owed, Opened, Acks, Legs
  <2> QED BY <1>7, <2>3, <2>4 DEF Same, SetupInv, Channels, ChanInv
<1>9. Asked' = Asked
  <2>1. Cnt(tx, "sdp_req", "sdp") = Cnt(tx', "sdp_req", "sdp") + 1
        /\ Cnt(tx', "sdp_req", "sdp") \in Nat
    BY <1>2, <1>3 DEF Plus
  <2>2. Cnt(rx', "sdp_rsp", "sdp") = Cnt(rx, "sdp_rsp", "sdp") + 1
        /\ Cnt(rx, "sdp_rsp", "sdp") \in Nat
    BY <1>5, <1>6 DEF Plus
  <2> QED BY <2>1, <2>2, Later DEF Asked
<1>10. \A x \in Elems(rx') \ Elems(rx) : x.op = "sdp_rsp" => x.search = sdp
  BY <1>5, <1>6 DEF Plus
<1> QED BY <1>6, <1>7, <1>8, <1>9, <1>10, PeerKeeps

(* Our request to open a channel is accepted, at once or after "pending",   *)
(* or refused.                                                              *)
LEMMA PeerDecides ==
    ASSUME SetupInv, PeerRecv, Head(tx).op = "conn_req" PROVE SetupInv'
<1>1. PICK m : m = Head(tx)
  OBVIOUS
<1>2. /\ m.op = "conn_req" /\ Typed /\ rx \in Seq(RxMsg) /\ peer \in [Chan -> PeerState]
      /\ m.ch \in Chan /\ Plus(tx', tx, m) /\ page' = page /\ flags' = flags
  BY <1>1, PeerTakes
<1>3. PICK a, b, e \in RxMsg : /\ a = Msg("conn_pend", m.ch) /\ a.op = "conn_pend"
                               /\ b = Msg("conn_rsp", m.ch) /\ b.op = "conn_rsp" /\ b.ch = m.ch
                               /\ e = Msg("conn_refused", m.ch) /\ e.op = "conn_refused"
  BY <1>2, MsgTyped DEF Ops
<1>4. ASSUME NEW c \in OwnChan
      PROVE  /\ Cnt(tx', "conn_rsp", c) = Cnt(tx, "conn_rsp", c)
             /\ Cnt(tx', "conf_req", c) = Cnt(tx, "conf_req", c)
             /\ m.ch # c => Cnt(tx', "conn_req", c) = Cnt(tx, "conn_req", c)
             /\ m.ch = c => Cnt(tx, "conn_req", c) = Cnt(tx', "conn_req", c) + 1
             /\ Cnt(tx', "conn_req", c) \in Nat
  BY <1>2 DEF Plus
<1>5. Cnt(tx', "sdp_req", "sdp") = Cnt(tx, "sdp_req", "sdp")
  BY <1>2 DEF Plus
<1>6. \A c \in OwnChan : c \in Chan /\ ChanInv(c)
  BY DEF OwnChan, Chan, SetupInv, Channels
<1>7. m.ch \in OwnChan => /\ Calls(m.ch) = 1 /\ Legs(m.ch) = 0 /\ Calls(m.ch)' = 0
                          /\ ~Opened(m.ch) /\ ~peer[m.ch].conf
                          /\ Acks(m.ch) = 0 /\ Acks(m.ch)' = 0
  <2>1. ASSUME m.ch \in OwnChan
        PROVE  /\ Calls(m.ch) = 1 /\ Legs(m.ch) = 0 /\ Calls(m.ch)' = 0
               /\ ~Opened(m.ch) /\ ~peer[m.ch].conf
               /\ Acks(m.ch) = 0 /\ Acks(m.ch)' = 0
    <3>1. Calls(m.ch) \in Nat /\ Legs(m.ch) \in Nat /\ Acks(m.ch) \in Nat
      BY <1>2, Numbers DEF Calls, Legs, Acks
    <3>2. /\ Calls(m.ch) = Calls(m.ch)' + 1 /\ Calls(m.ch)' \in Nat
          /\ Acks(m.ch)' = Acks(m.ch)
      BY <1>4, <2>1, Later DEF Calls, Acks
    <3>3. ChanInv(m.ch)
      BY <1>6, <2>1
    <3>4. Calls(m.ch) = 1 /\ Legs(m.ch) = 0 /\ Calls(m.ch)' = 0
      BY <3>1, <3>2, <3>3 DEF ChanInv
    <3> QED BY <3>1, <3>2, <3>3, <3>4 DEF ChanInv
  <2> QED BY <2>1
<1>8. CASE rx' = Append(rx, e) /\ peer' = peer
  <2>1. rx' \in Seq(RxMsg) /\ Plus(rx, rx', e)
    BY <1>2, <1>3, <1>8, Sends
  <2>2. e.op \notin RxKinds
    BY <1>3 DEF RxKinds
  <2>3. \A op \in RxKinds, c \in OwnChan : Cnt(rx', op, c) = Cnt(rx, op, c)
    BY <2>1, <2>2, Uncounted
  <2>4. ASSUME NEW c \in OwnChan
        PROVE  /\ Legs(c)' = Legs(c) /\ Owed(c)' = Owed(c) /\ (Opened(c)' <=> Opened(c))
               /\ Acks(c)' = Acks(c) /\ (m.ch # c => Calls(c)' = Calls(c))
    <3>1. Calls(c)' = Calls(c) \/ m.ch = c
      BY <1>4, Later DEF Calls
    <3>2. Acks(c)' = Acks(c) /\ (Opened(c)' <=> Opened(c))
      BY <1>4, <1>8, Later DEF Acks, Opened
    <3>3. Owed(c)' = Owed(c)
      BY <1>8, <2>3, Later DEF Owed, RxKinds
    <3>4. Legs(c)' = Legs(c)
      BY <1>4, <2>3, Later DEF Legs, RxKinds
    <3> QED BY <3>1, <3>2, <3>3, <3>4
  <2>5. ASSUME NEW c \in OwnChan, m.ch # c PROVE Same(c)
    BY <1>6, <1>8, <2>4, <2>5 DEF Same, ChanInv
  <2>6. ASSUME NEW c \in OwnChan, m.ch = c PROVE Unmoved(c)
    <3>1. /\ ~Opened(c) /\ ~Opened(c)' /\ Calls(c)' = 0 /\ Legs(c)' = 0 /\ Acks(c)' = 0
          /\ Owed(c)' = Owed(c) /\ ~peer'[c].conf
      BY <1>7, <1>8, <2>4, <2>6
    <3>2. Handled(c) = 0 /\ Handled(c)' = 0 /\ ~Begun(c)'
      BY <3>1 DEF Handled, Begun
    <3>3. (Advances(c)' <=> Advances(c)) /\ Pending(c)' = Pending(c)
      BY <1>2 DEF Advances, Pending
    <3> QED BY <1>2, <1>6, <3>1, <3>2, <3>3 DEF Unmoved, ChanInv
  <2>7. Asked' = Asked
    BY <1>5, <2>3, Later DEF Asked, RxKinds, OwnChan
  <2>8. \A x \in Elems(rx') \ Elems(rx) : x.op = "sdp_rsp" => x.search = sdp
    BY <1>3, <2>1 DEF Plus
  <2> QED BY <1>2, <1>8, <2>1, <2>5, <2>6, <2>7, <2>8, PeerKeeps
<1>9. ASSUME NEW s \in Seq(RxMsg), s = rx \/ s = Append(rx, a), rx' = Append(s, b),
             peer' = [peer EXCEPT ![m.ch].st = "open"]
      PROVE  SetupInv'
  <2>1. /\ \A op \in RxKinds, c \in OwnChan : Cnt(s, op, c) = Cnt(rx, op, c)
        /\ \A x \in Elems(s) \ Elems(rx) : x.op # "sdp_rsp"
    <3>1. CASE s = rx
      BY <3>1
    <3>2. CASE s = Append(rx, a)
      <4>1. Plus(rx, s, a)
        BY <1>2, <1>3, <3>2, Sends
      <4>2. a.op \notin RxKinds /\ a.op # "sdp_rsp"
        BY <1>3 DEF RxKinds
      <4>3. \A op \in RxKinds, c \in OwnChan : Cnt(s, op, c) = Cnt(rx, op, c)
        BY <4>1, <4>2, Uncounted
      <4> QED BY <4>1, <4>2, <4>3 DEF Plus
    <3> QED BY <1>9, <3>1, <3>2
  <2>2. rx' \in Seq(RxMsg) /\ Plus(s, rx', b)
    BY <1>3, <1>9, Sends
  <2>3. ASSUME NEW c \in OwnChan
        PROVE  /\ Cnt(rx', "conf_req", c) = Cnt(rx, "conf_req", c)
               /\ Cnt(rx', "conn_req", c) = Cnt(rx, "conn_req", c)
               /\ Cnt(rx', "conf_rsp", c) = Cnt(rx, "conf_rsp", c)
               /\ Cnt(rx', "sdp_rsp", c) = Cnt(rx, "sdp_rsp", c)
               /\ m.ch # c => Cnt(rx', "conn_rsp", c) = Cnt(rx, "conn_rsp", c)
               /\ m.ch = c => Cnt(rx', "conn_rsp", c) = Cnt(rx, "conn_rsp", c) + 1
    <3>1. /\ Cnt(rx', "conf_req", c) = Cnt(s, "conf_req", c)
          /\ Cnt(rx', "conn_req", c) = Cnt(s, "conn_req", c)
          /\ Cnt(rx', "conf_rsp", c) = Cnt(s, "conf_rsp", c)
          /\ Cnt(rx', "sdp_rsp", c) = Cnt(s, "sdp_rsp", c)
          /\ m.ch # c => Cnt(rx', "conn_rsp", c) = Cnt(s, "conn_rsp", c)
          /\ m.ch = c => Cnt(rx', "conn_rsp", c) = Cnt(s, "conn_rsp", c) + 1
      BY <1>3, <2>2 DEF Plus
    <3> QED BY <2>1, <3>1 DEF RxKinds
  <2>4. /\ peer' \in [Chan -> PeerState]
        /\ peer'[m.ch].st = "open" /\ peer'[m.ch].conf = peer[m.ch].conf
        /\ \A c \in Chan \ {m.ch} : peer'[c] = peer[c]
    BY <1>2, <1>9 DEF PeerState
  <2>5. ASSUME NEW c \in OwnChan
        PROVE  /\ Acks(c)' = Acks(c) /\ Owed(c)' = Owed(c)
               /\ m.ch # c => /\ Legs(c)' = Legs(c) /\ Calls(c)' = Calls(c)
                              /\ (Opened(c)' <=> Opened(c))
               /\ m.ch = c => Legs(c)' = Legs(c) + 1
    <3>1. Acks(c)' = Acks(c) /\ (m.ch # c => Calls(c)' = Calls(c))
      BY <1>4, Later DEF Acks, Calls
    <3>2. m.ch # c => (Opened(c)' <=> Opened(c))
      BY <1>6, <2>4, Later DEF Opened
    <3>3. peer'[c].conf = peer[c].conf
      BY <1>6, <2>4
    <3>4. Owed(c)' = Owed(c)
      BY <2>3, <3>3, Later DEF Owed
    <3>5. /\ Cnt(tx, "conf_req", c) \in Nat /\ Cnt(rx, "conn_rsp", c) \in Nat
          /\ Cnt(rx, "conn_req", c) \in Nat /\ Cnt(rx, "conf_rsp", c) \in Nat
      BY <1>2, Numbers
    <3>6. (m.ch # c => Legs(c)' = Legs(c)) /\ (m.ch = c => Legs(c)' = Legs(c) + 1)
      BY <1>4, <2>3, <3>5, Later DEF Legs
    <3> QED BY <3>1, <3>2, <3>4, <3>6
  <2>6. ASSUME NEW c \in OwnChan, m.ch # c PROVE Same(c)
    BY <1>6, <2>4, <2>5, <2>6 DEF Same, ChanInv
  <2>7. ASSUME NEW c \in OwnChan, m.ch = c PROVE Unmoved(c)
    <3>1. /\ ~Opened(c) /\ Opened(c)' /\ Calls(c) = 1 /\ Calls(c)' = 0 /\ Legs(c)' = 1
          /\ Acks(c)' = 0 /\ Owed(c)' = Owed(c)
      BY <1>7, <2>4, <2>5, <2>7, Later
    <3>2. Owed(c) = 1
      <4>1. Owed(c) = Cnt(rx, "conf_req", c) + 1 /\ Cnt(rx, "conf_req", c) \in Nat
        BY <1>2, <1>7, <2>7, Numbers DEF Owed
      <4> QED BY <1>6, <4>1 DEF ChanInv
    <3>3. Handled(c) = 0 /\ Handled(c)' = 0 /\ Begun(c)
      BY <3>1, <3>2 DEF Handled, Begun
    <3>4. (Advances(c)' <=> Advances(c)) /\ Pending(c)' = Pending(c)
      BY <1>2 DEF Advances, Pending
    <3> QED BY <1>2, <1>6, <3>1, <3>2, <3>3, <3>4 DEF Unmoved, ChanInv
  <2>8. Asked' = Asked
    BY <1>5, <2>3, Later DEF Asked, OwnChan
  <2>9. \A x \in Elems(rx') \ Elems(rx) : x.op = "sdp_rsp" => x.search = sdp
    BY <1>3, <2>1, <2>2 DEF Plus
  <2> QED BY <2>2, <2>4, <2>6, <2>7, <2>8, <2>9, PeerKeeps
<1>10. PeerConnReq(m.ch)
  BY <1>1, <1>2 DEF PeerRecv
<1>11. CASE rx' = rx \o <<>> \o <<Msg("conn_rsp", m.ch)>> /\ peer' = [peer EXCEPT ![m.ch].st = "open"]
  <2>1. rx' = Append(rx, b)
    BY <1>2, <1>3, <1>11, Joined
  <2> QED BY <1>2, <1>9, <1>11, <2>1
<1>12. CASE /\ rx' = rx \o <<Msg("conn_pend", m.ch)>> \o <<Msg("conn_rsp", m.ch)>>
            /\ peer' = [peer EXCEPT ![m.ch].st = "open"]
  <2>1. rx \o <<a>> = Append(rx, a) /\ Append(rx, a) \in Seq(RxMsg)
    BY <1>2, <1>3, Joined, Sends
  <2>2. rx' = Append(Append(rx, a), b)
    BY <1>3, <1>12, <2>1, Joined
  <2> QED BY <1>9, <1>12, <2>1, <2>2
<1> QED BY <1>3, <1>8, <1>10, <1>11, <1>12 DEF PeerConnReq

(* A controller that connected by itself opens a channel, once. *)
LEMMA PeerOpens ==
    ASSUME SetupInv, NEW d \in Chan, d # "sdp_rx", PeerOpen(d) PROVE SetupInv'
<1>1. /\ peer \in [Chan -> PeerState] /\ rx \in Seq(RxMsg) /\ tx \in Seq(TxMsg) /\ Typed
  BY DEF SetupInv, Typed, TypeOK, PeerState
<1>2. PICK a \in RxMsg : rx' = Append(rx, a) /\ a.op = "conn_req" /\ a.ch = d
  BY MsgTyped DEF PeerOpen, Ops
<1>3. /\ UNCHANGED <<up, page, named, auth, asks, tx, task, flags, dcid, sdp, len, have, init, hist>>
      /\ up /\ page /\ d \in {"ctrl", "intr"} /\ peer[d].st = "closed"
  BY DEF PeerOpen, hostVars
<1>4. rx' \in Seq(RxMsg) /\ Plus(rx, rx', a)
  BY <1>1, <1>2, Sends
<1>5. /\ peer' \in [Chan -> PeerState]
      /\ peer'[d].conf = peer[d].conf /\ peer'[d].st = "asked"
      /\ \A c \in Chan \ {d} : peer'[c] = peer[c]
  <2>1. peer' = [peer EXCEPT ![d].st = "asked"]
    BY DEF PeerOpen
  <2> QED BY <1>1, <2>1 DEF PeerState
<1>6. ASSUME NEW c \in OwnChan
      PROVE  /\ c \in Chan /\ ChanInv(c)
             /\ Calls(c)' = Calls(c) /\ Acks(c)' = Acks(c) /\ Owed(c)' = Owed(c)
             /\ peer'[c].conf = peer[c].conf
             /\ d # c => Legs(c)' = Legs(c) /\ (Opened(c)' <=> Opened(c))
             /\ d = c => Legs(c)' = Legs(c) + 1
             /\ Calls(c) \in Nat /\ Legs(c) \in Nat /\ Acks(c) \in Nat
             /\ Cnt(rx, "conf_req", c) \in Nat
  <2>1. c \in Chan /\ ChanInv(c)
    BY DEF OwnChan, Chan, SetupInv, Channels
  <2>2. /\ Cnt(rx', "conf_req", c) = Cnt(rx, "conf_req", c)
        /\ Cnt(rx', "conn_rsp", c) = Cnt(rx, "conn_rsp", c)
        /\ Cnt(rx', "conf_rsp", c) = Cnt(rx, "conf_rsp", c)
        /\ d # c => Cnt(rx', "conn_req", c) = Cnt(rx, "conn_req", c)
        /\ d = c => Cnt(rx', "conn_req", c) = Cnt(rx, "conn_req", c) + 1
    BY <1>2, <1>4 DEF Plus
  <2>3. peer'[c].conf = peer[c].conf
    BY <1>5, <2>1
  <2>4. Calls(c)' = Calls(c) /\ Acks(c)' = Acks(c) /\ Owed(c)' = Owed(c)
    BY <1>3, <2>2, <2>3, Later DEF Calls, Acks, Owed
  <2>5. /\ Cnt(tx, "conf_req", c) \in Nat /\ Cnt(rx, "conn_rsp", c) \in Nat
        /\ Cnt(rx, "conn_req", c) \in Nat /\ Cnt(rx, "conf_rsp", c) \in Nat
        /\ Calls(c) \in Nat /\ Acks(c) \in Nat /\ Cnt(rx, "conf_req", c) \in Nat
    BY <1>1, Numbers DEF Calls, Acks
  <2>6. Legs(c) \in Nat /\ (d # c => Legs(c)' = Legs(c)) /\ (d = c => Legs(c)' = Legs(c) + 1)
    BY <1>3, <2>2, <2>5, Later DEF Legs
  <2>7. d # c => (Opened(c)' <=> Opened(c))
    BY <1>5, <2>1, Later DEF Opened
  <2> QED BY <2>1, <2>3, <2>4, <2>5, <2>6, <2>7
<1>7. ASSUME NEW c \in OwnChan, d # c PROVE Unmoved(c)
  <2>1. Same(c)
    BY <1>6, <1>7 DEF Same, ChanInv
  <2> QED BY <1>3, <1>6, <2>1, ChanKept
<1>8. ASSUME NEW c \in OwnChan, d = c
      PROVE  ChanInv(c)' /\ Handled(c)' = Handled(c)
  <2>1. ~Opened(c) /\ Opened(c)' /\ c # "sdp"
    BY <1>3, <1>5, <1>8, Later DEF Opened
  <2>2. Calls(c) = 0 /\ Legs(c) = 0 /\ ~peer[c].conf
    BY <1>3, <1>6, <2>1 DEF ChanInv
  <2>3. Owed(c) = 1
    <3>1. Owed(c) = Cnt(rx, "conf_req", c) + 1
      BY <2>2 DEF Owed
    <3> QED BY <1>6, <3>1 DEF ChanInv
  <2>4. Calls(c)' = 0 /\ Legs(c)' = 1 /\ Owed(c)' = 1
    BY <1>6, <1>8, <2>2, <2>3
  <2>5. Handled(c) = 0 /\ Handled(c)' = 0
    BY <2>1, <2>4 DEF Handled
  <2>6. (Advances(c)' <=> Advances(c)) /\ Pending(c)' = Pending(c)
    BY <1>3 DEF Advances, Pending
  <2> QED BY <1>3, <1>6, <2>1, <2>4, <2>5, <2>6 DEF ChanInv
<1>9. Channels'
  BY <1>7, <1>8 DEF Channels, Unmoved
<1>10. Asked' = Asked
  <2>1. Cnt(rx', "sdp_rsp", "sdp") = Cnt(rx, "sdp_rsp", "sdp")
    BY <1>2, <1>4 DEF Plus
  <2> QED BY <1>3, <2>1, Later DEF Asked
<1>11. Order'
  <2>1. /\ Handled("intr")' = Handled("intr")
        /\ Handled("sdp")' = Handled("sdp") /\ (Begun("sdp")' => Begun("sdp"))
    BY <1>3, <1>7, <1>8 DEF Unmoved, OwnChan
  <2> QED BY <1>3, <1>10, <2>1 DEF Order, SetupInv
<1>12. Searching'
  <2>1. /\ \A x \in Elems(tx') : x.op = "sdp_req" => x.search = sdp
        /\ \A x \in Elems(rx') : x.op = "sdp_rsp" => x.search = sdp
    BY <1>2, <1>3, <1>4, SearchOf DEF Plus
  <2>2. Elems(tx)' = Elems(tx') /\ Elems(rx)' = Elems(rx')
    BY DEF Elems
  <2> QED BY <1>3, <1>10, <2>1, <2>2 DEF Searching, SetupInv
<1>13. Kept'
  BY <1>3, <1>10, KeptSame DEF hist
<1>14. TypeOK'
  BY <1>1, <1>3, <1>4, <1>5, TypesKept DEF SetupInv, Typed, TypeOK, hist, PeerState
<1>15. Typed' /\ Clear' /\ NameFirst'
  BY <1>1, <1>3, <1>4, <1>14 DEF Typed, Clear, NameFirst, SetupInv
<1> QED BY <1>9, <1>11, <1>12, <1>13, <1>15 DEF SetupInv

(* AUTH_COMPLETE opens the control channel of a controller we connected to. *)
LEMMA AuthKeeps == ASSUME SetupInv, AuthComplete PROVE SetupInv'
<1>1. /\ rx \in Seq(RxMsg) /\ tx \in Seq(TxMsg) /\ Typed
  BY DEF SetupInv, Typed
<1>2. /\ UNCHANGED <<up, page, named, asks, flags, dcid, sdp, len, have, init, rx, peer, task,
                     parsed, raced>>
      /\ ~page /\ auth \notin {"no", "done", "encrypted"} /\ auth' \in {"done", "encrypted"}
      /\ stalled' \subseteq stalled \cup {"auth"} /\ up
  BY UpWhen DEF AuthComplete
<1>3. NameFirst' /\ Clear'
  BY <1>2 DEF SetupInv, NameFirst, Clear
<1>4. ASSUME tx' = tx PROVE SetupInv'
  <2>1. Typed'
    BY <1>2, <1>4 DEF SetupInv, Typed, TypeOK, Phase
  <2>2. Steady /\ Asked' = Asked
    BY <1>2, <1>4, QueuesSame DEF Steady
  <2>3. Kept'
    BY <1>2, <2>2, KeptSame
  <2> QED BY <1>3, <2>1, <2>2, <2>3, SteadyKeeps DEF SetupInv
<1>5. ASSUME tx' = Append(tx, Msg("conn_req", "ctrl")) PROVE SetupInv'
  <2>1. PICK a \in TxMsg : a = Msg("conn_req", "ctrl") /\ a.op = "conn_req" /\ a.ch = "ctrl"
    BY MsgTyped DEF Ops, Chan
  <2>2. tx' \in Seq(TxMsg) /\ Plus(tx, tx', a)
    BY <1>1, <1>5, <2>1, Sends
  <2>3. ASSUME NEW c \in OwnChan
        PROVE  /\ ChanInv(c)
               /\ Legs(c)' = Legs(c) /\ Acks(c)' = Acks(c) /\ Owed(c)' = Owed(c)
               /\ (Opened(c)' <=> Opened(c)) /\ peer'[c].conf = peer[c].conf
               /\ c # "ctrl" => Calls(c)' = Calls(c)
               /\ c = "ctrl" => Calls(c)' = Calls(c) + 1
               /\ Calls(c) \in Nat /\ Legs(c) \in Nat /\ Acks(c) \in Nat
    <3>1. /\ Cnt(tx', "conn_rsp", c) = Cnt(tx, "conn_rsp", c)
          /\ Cnt(tx', "conf_req", c) = Cnt(tx, "conf_req", c)
          /\ c # "ctrl" => Cnt(tx', "conn_req", c) = Cnt(tx, "conn_req", c)
          /\ c = "ctrl" => Cnt(tx', "conn_req", c) = Cnt(tx, "conn_req", c) + 1
      BY <2>1, <2>2 DEF Plus
    <3>2. Calls(c) \in Nat /\ Legs(c) \in Nat /\ Acks(c) \in Nat
      BY <1>1, Numbers DEF Calls, Legs, Acks
    <3>3. /\ Legs(c)' = Legs(c) /\ Acks(c)' = Acks(c) /\ Owed(c)' = Owed(c)
          /\ (Opened(c)' <=> Opened(c)) /\ peer'[c].conf = peer[c].conf
      BY <1>2, <3>1, Later DEF Legs, Acks, Owed, Opened
    <3>4. /\ c # "ctrl" => Calls(c)' = Calls(c)
          /\ c = "ctrl" => Calls(c)' = Calls(c) + 1
      BY <3>1, Later DEF Calls
    <3> QED BY <3>2, <3>3, <3>4 DEF SetupInv, Channels
  <2>4. ASSUME NEW c \in OwnChan, c # "ctrl" PROVE Unmoved(c)
    <3>1. Same(c)
      BY <2>3, <2>4 DEF Same, ChanInv
    <3> QED BY <1>2, <2>3, <3>1, ChanKept
  <2>5. ChanInv("ctrl")' /\ Handled("ctrl")' = 0 /\ ~Begun("intr")
    <3>1. ~Begun("ctrl") /\ "ctrl" \in OwnChan
      BY <1>2 DEF SetupInv, Order, OwnChan
    <3>2. Calls("ctrl") = 0 /\ ~Opened("ctrl") /\ Legs("ctrl") = 0
      BY <2>3, <3>1 DEF Begun, ChanInv
    <3>3. Calls("ctrl")' = 1 /\ ~Opened("ctrl")' /\ Legs("ctrl")' = 0
      BY <2>3, <3>1, <3>2
    <3>4. Handled("ctrl") = 0 /\ Handled("ctrl")' = 0
      BY <3>2, <3>3 DEF Handled
    <3>5. (Advances("ctrl")' <=> Advances("ctrl")) /\ Pending("ctrl")' = Pending("ctrl")
      BY <1>2 DEF Advances, Pending
    <3>6. ChanInv("ctrl")'
      BY <1>2, <2>3, <3>1, <3>3, <3>4, <3>5 DEF ChanInv
    <3>7. ~Begun("intr")
      BY <1>2, <3>4 DEF SetupInv, Order
    <3> QED BY <3>4, <3>6, <3>7
  <2>6. Channels'
    BY <2>4, <2>5 DEF Channels, Unmoved
  <2>7. Asked' = Asked
    <3>1. Cnt(tx', "sdp_req", "sdp") = Cnt(tx, "sdp_req", "sdp")
      BY <2>1, <2>2 DEF Plus
    <3> QED BY <1>2, <3>1, Later DEF Asked
  <2>8. Order'
    <3>1. /\ Handled("intr")' = Handled("intr") /\ (Begun("intr")' => Begun("intr"))
          /\ Handled("sdp")' = Handled("sdp") /\ (Begun("sdp")' => Begun("sdp"))
      BY <2>4 DEF Unmoved, OwnChan
    <3> QED BY <1>2, <2>5, <2>7, <3>1 DEF Order, SetupInv
  <2>9. Searching'
    <3>1. /\ \A x \in Elems(tx') : x.op = "sdp_req" => x.search = sdp
          /\ \A x \in Elems(rx') : x.op = "sdp_rsp" => x.search = sdp
      BY <1>2, <2>1, <2>2, SearchOf DEF Plus
    <3>2. Elems(tx)' = Elems(tx') /\ Elems(rx)' = Elems(rx')
      BY DEF Elems
    <3> QED BY <1>2, <2>7, <3>1, <3>2 DEF Searching, SetupInv
  <2>10. Kept'
    BY <1>2, <2>7, KeptSame
  <2>11. Typed'
    <3>1. \A i \in 1 .. Len(tx') : tx'[i].ch \in Chan
      BY <2>2 DEF TxMsg, Chan
    <3> QED BY <1>2, <2>2, <3>1 DEF SetupInv, Typed, TypeOK, Phase
  <2> QED BY <1>3, <2>6, <2>8, <2>9, <2>10, <2>11 DEF SetupInv
<1> QED BY <1>4, <1>5 DEF AuthComplete

-----------------------------------------------------------------------------
(* The configuration of a channel, and what it starts. *)

(* Queue t counts as the queue to the controller, and asks for nothing else.*)
Alike(t) ==
    /\ t \in Seq(TxMsg)
    /\ \A c \in OwnChan : /\ Cnt(t, "conn_req", c) = Cnt(tx, "conn_req", c)
                          /\ Cnt(t, "conf_req", c) = Cnt(tx, "conf_req", c)
                          /\ Cnt(t, "conn_rsp", c) = Cnt(tx, "conn_rsp", c)
    /\ Cnt(t, "sdp_req", "sdp") = Cnt(tx, "sdp_req", "sdp")
    /\ \A x \in Elems(t) : x.op = "sdp_req" => x.search = sdp

(* The first message of channel d was handled, or channel d starts nothing. *)
Waits(d, t) ==
    /\ tx' = t /\ init' = init
    /\ \/ ~Advances(d) /\ flags' = flags
       \/ Advances(d) /\ ~Ready(d) /\ flags' = flags \cup {Pending(d)}

(* The second message of channel d was handled. *)
Goes(d, t) ==
    /\ tx' = t \o Started(d) /\ Advances(d) /\ Ready(d)
    /\ flags' = IF d = "intr" THEN flags \cup {"intr_ready"} ELSE flags
    /\ init' = IF d = "intr" THEN init \cup {Typ} ELSE init

(* A configuration message is answered or not, and what follows. *)
LEMMA ConfTakes ==
    ASSUME SetupInv, L2capConfReq \/ L2capConfRsp, NEW d, d = Head(rx).ch
    PROVE  \E t : Alike(t) /\ (Waits(d, t) \/ Goes(d, t))
<1>1. /\ rx # <<>> /\ rx' = Tail(rx)
  BY DEF L2capConfReq, L2capConfRsp, Got
<1>2. tx \in Seq(TxMsg) /\ d \in Chan
  BY <1>1, Received
<1>3. Alike(tx)
  BY <1>2 DEF Alike, SetupInv, Searching
<1>4. ASSUME L2capConfReq
      PROVE  \E t : Alike(t) /\ (Waits(d, t) \/ Goes(d, t))
  <2>1. PICK a \in TxMsg : a = Msg("conf_rsp", d) /\ a.op = "conf_rsp"
    BY <1>2, MsgTyped DEF Ops
  <2>2. PICK t : t = Append(tx, a)
    OBVIOUS
  <2>3. t = tx \o <<Msg("conf_rsp", d)>>
    BY <1>2, <2>1, <2>2, Joined
  <2>4. t \in Seq(TxMsg) /\ Plus(tx, t, a)
    BY <1>2, <2>2, Sends
  <2>5. /\ \A c \in OwnChan : /\ Cnt(t, "conn_req", c) = Cnt(tx, "conn_req", c)
                              /\ Cnt(t, "conf_req", c) = Cnt(tx, "conf_req", c)
                              /\ Cnt(t, "conn_rsp", c) = Cnt(tx, "conn_rsp", c)
        /\ Cnt(t, "sdp_req", "sdp") = Cnt(tx, "sdp_req", "sdp")
    BY <2>1, <2>4 DEF Plus
  <2>6. \A x \in Elems(t) : x.op = "sdp_req" => x.search = sdp
    BY <1>3, <2>1, <2>4 DEF Plus, Alike
  <2>7. Alike(t)
    BY <2>4, <2>5, <2>6 DEF Alike
  <2>8. Advance(d, <<Msg("conf_rsp", d)>>)
    BY <1>4 DEF L2capConfReq, Ch
  <2>9. Waits(d, t) \/ Goes(d, t)
    BY <2>3, <2>8 DEF Advance, Waits, Goes
  <2> QED BY <2>7, <2>9
<1>5. ASSUME L2capConfRsp
      PROVE  \E t : Alike(t) /\ (Waits(d, t) \/ Goes(d, t))
  <2>1. tx = tx \o <<>>
    BY <1>2, Joined
  <2>2. Advance(d, <<>>)
    BY <1>5 DEF L2capConfRsp, Ch
  <2>3. Waits(d, tx) \/ Goes(d, tx)
    BY <2>1, <2>2 DEF Advance, Waits, Goes
  <2> QED BY <1>3, <2>3
<1> QED BY <1>4, <1>5

(* One configuration message less is missing, on the channel it is for.     *)
LEMMA ConfCounts ==
    ASSUME SetupInv, rx # <<>>, rx' = Tail(rx), Head(rx).op \in {"conf_req", "conf_rsp"},
           peer' = peer, NEW c \in OwnChan,
           Cnt(tx', "conf_req", c) = Cnt(tx, "conf_req", c),
           Cnt(tx', "conn_rsp", c) = Cnt(tx, "conn_rsp", c)
    PROVE  /\ Opened(c)' <=> Opened(c)
           /\ Acks(c)' = Acks(c)
           /\ Legs(c) \in Nat /\ Owed(c) \in Nat /\ Calls(c) \in Nat
           /\ Head(rx).ch # c => Legs(c)' = Legs(c) /\ Owed(c)' = Owed(c)
           /\ Head(rx).ch = c => /\ Opened(c) /\ Calls(c) = 0
                                 /\ Legs(c)' \in 0 .. 1 /\ Owed(c)' \in 0 .. 1
                                 /\ Legs(c)' + Owed(c)' = Legs(c) + Owed(c) - 1
<1>1. PICK m : m = Head(rx)
  OBVIOUS
<1>2. m.op \in {"conf_req", "conf_rsp"} /\ Typed /\ Plus(rx', rx, m)
  BY <1>1, Received
<1>3. /\ Cnt(rx', "conn_req", c) = Cnt(rx, "conn_req", c)
      /\ Cnt(rx', "conn_rsp", c) = Cnt(rx, "conn_rsp", c)
      /\ m.op # "conf_req" \/ m.ch # c => Cnt(rx', "conf_req", c) = Cnt(rx, "conf_req", c)
      /\ m.op # "conf_rsp" \/ m.ch # c => Cnt(rx', "conf_rsp", c) = Cnt(rx, "conf_rsp", c)
      /\ m.op = "conf_req" /\ m.ch = c => Cnt(rx, "conf_req", c) = Cnt(rx', "conf_req", c) + 1
      /\ m.op = "conf_rsp" /\ m.ch = c => Cnt(rx, "conf_rsp", c) = Cnt(rx', "conf_rsp", c) + 1
      /\ Cnt(rx', "conf_req", c) \in Nat /\ Cnt(rx', "conf_rsp", c) \in Nat
  BY <1>2 DEF Plus
<1>4. /\ Cnt(tx, "conf_req", c) \in Nat /\ Cnt(rx, "conn_rsp", c) \in Nat
      /\ Cnt(rx, "conn_req", c) \in Nat /\ Cnt(rx, "conf_rsp", c) \in Nat
      /\ Cnt(rx, "conf_req", c) \in Nat
      /\ Calls(c) \in Nat
  BY <1>2, Numbers DEF Calls
<1>5. (Opened(c)' <=> Opened(c)) /\ Acks(c)' = Acks(c)
  BY Later DEF Opened, Acks
<1>6. Legs(c) \in Nat /\ Owed(c) \in Nat
  BY <1>4 DEF Legs, Owed
<1>7. ASSUME m.ch # c PROVE Legs(c)' = Legs(c) /\ Owed(c)' = Owed(c)
  BY <1>3, <1>7, Later DEF Legs, Owed
<1>8. ASSUME m.ch = c
      PROVE  /\ Opened(c) /\ Calls(c) = 0
             /\ Legs(c)' \in 0 .. 1 /\ Owed(c)' \in 0 .. 1
             /\ Legs(c)' + Owed(c)' = Legs(c) + Owed(c) - 1
  <2>1. ChanInv(c)
    BY DEF SetupInv, Channels
  <2>2. Owed(c) = Cnt(rx, "conf_req", c) + (IF peer[c].conf THEN 0 ELSE 1)
        /\ Owed(c)' = Cnt(rx', "conf_req", c) + (IF peer[c].conf THEN 0 ELSE 1)
    BY Later DEF Owed
  <2>3. CASE m.op = "conf_req"
    <3>1. Owed(c) = Owed(c)' + 1 /\ Owed(c)' \in Nat /\ Cnt(rx, "conf_req", c) >= 1
      BY <1>3, <1>8, <2>2, <2>3
    <3>2. Legs(c)' = Legs(c)
      BY <1>3, <2>3, Later DEF Legs
    <3>3. Opened(c)
      <4>1. peer[c].conf
        BY <1>4, <2>1, <2>2, <3>1 DEF ChanInv
      <4> QED BY <2>1, <4>1 DEF ChanInv
    <3> QED BY <1>4, <1>6, <2>1, <3>1, <3>2, <3>3 DEF ChanInv
  <2>4. CASE m.op = "conf_rsp"
    <3>1. Owed(c)' = Owed(c)
      BY <1>3, <2>2, <2>4
    <3>2. Legs(c) = Legs(c)' + 1 /\ Legs(c)' \in Nat
      BY <1>3, <1>4, <1>8, <2>4, Later DEF Legs
    <3>3. Opened(c)
      BY <2>1, <3>2 DEF ChanInv
    <3> QED BY <1>4, <1>6, <2>1, <3>1, <3>2, <3>3 DEF ChanInv
  <2> QED BY <1>2, <2>3, <2>4
<1> QED BY <1>1, <1>4, <1>5, <1>6, <1>7, <1>8

(* The host has handled one message more of the channel it is for.          *)
LEMMA ConfHandled ==
    ASSUME SetupInv, rx # <<>>, rx' = Tail(rx), Head(rx).op \in {"conf_req", "conf_rsp"},
           peer' = peer, NEW c \in OwnChan,
           Cnt(tx', "conf_req", c) = Cnt(tx, "conf_req", c),
           Cnt(tx', "conn_rsp", c) = Cnt(tx, "conn_rsp", c)
    PROVE  /\ Handled(c) \in 0 .. 2
           /\ Head(rx).ch # c => Handled(c)' = Handled(c)
           /\ Head(rx).ch = c => Handled(c) \in 0 .. 1 /\ Handled(c)' = Handled(c) + 1
<1>1. PICK m : m = Head(rx)
  OBVIOUS
<1>2. /\ Opened(c)' <=> Opened(c)
      /\ Legs(c) \in Nat /\ Owed(c) \in Nat /\ Calls(c) \in Nat
      /\ m.ch # c => Legs(c)' = Legs(c) /\ Owed(c)' = Owed(c)
      /\ m.ch = c => /\ Opened(c) /\ Legs(c)' \in 0 .. 1 /\ Owed(c)' \in 0 .. 1
                     /\ Legs(c)' + Owed(c)' = Legs(c) + Owed(c) - 1
  BY <1>1, ConfCounts
<1>3. ChanInv(c)
  BY DEF SetupInv, Channels
<1>4. Legs(c) \in 0 .. 1 /\ Owed(c) \in 0 .. 1
  BY <1>2, <1>3 DEF ChanInv
<1>5. Handled(c) \in 0 .. 2
  BY <1>4 DEF Handled
<1>6. m.ch # c => Handled(c)' = Handled(c)
  BY <1>2 DEF Handled
<1>7. ASSUME m.ch = c PROVE Handled(c) \in 0 .. 1 /\ Handled(c)' = Handled(c) + 1
  <2>1. Handled(c) = 2 - (Legs(c) + Owed(c)) /\ Handled(c)' = 2 - (Legs(c)' + Owed(c)')
    BY <1>2, <1>7 DEF Handled
  <2> QED BY <1>2, <1>4, <1>7, <2>1
<1> QED BY <1>1, <1>5, <1>6, <1>7

(* What a configuration message leaves alone, and the message Started.      *)
LEMMA ConfFrame ==
    ASSUME SetupInv, L2capConfReq \/ L2capConfRsp
    PROVE  /\ rx # <<>> /\ rx' = Tail(rx) /\ Head(rx).op \in {"conf_req", "conf_rsp"}
           /\ up /\ Typed /\ rx' \in Seq(RxMsg) /\ Head(rx).ch \in Chan
           /\ Plus(rx', rx, Head(rx))
           /\ UNCHANGED <<up, page, named, auth, asks, peer, task, dcid, sdp, len, have,
                          stalled, parsed, raced>>
<1>1. /\ rx # <<>> /\ rx' = Tail(rx) /\ Head(rx).op \in {"conf_req", "conf_rsp"}
      /\ UNCHANGED <<up, page, named, auth, asks, peer, task, dcid, sdp, len, have,
                     stalled, parsed, raced>>
  BY DEF L2capConfReq, L2capConfRsp, Got, unchangedByMsg
<1> QED BY <1>1, Received

(* Nothing of channel e was begun and it is asked for, or it goes on as it  *)
(* did.                                                                     *)
Asks(e) == ~Begun(e) /\ Calls(e)' = Calls(e) + 1 /\ (e = "intr" => ~page)

(* The channels after a configuration message of channel d.                 *)
LEMMA ConfChan ==
    ASSUME SetupInv, L2capConfReq \/ L2capConfRsp, NEW d, d = Head(rx).ch, NEW c \in OwnChan,
           Cnt(tx', "conf_req", c) = Cnt(tx, "conf_req", c),
           Cnt(tx', "conn_rsp", c) = Cnt(tx, "conn_rsp", c),
           Calls(c)' = Calls(c) \/ (c # d /\ c # "ctrl" /\ Asks(c)),
           c # d => (Pending(c) \in flags' <=> Pending(c) \in flags),
           c = d /\ Advances(d) => Pending(d) \in flags'
    PROVE  ChanInv(c)' /\ Handled(c)' >= Handled(c)
<1>1. /\ rx # <<>> /\ rx' = Tail(rx) /\ Head(rx).op \in {"conf_req", "conf_rsp"}
      /\ peer' = peer /\ page' = page
  BY ConfFrame
<1>2. /\ Opened(c)' <=> Opened(c)
      /\ Acks(c)' = Acks(c)
      /\ Legs(c) \in Nat /\ Owed(c) \in Nat /\ Calls(c) \in Nat
      /\ d # c => Legs(c)' = Legs(c) /\ Owed(c)' = Owed(c)
      /\ d = c => /\ Opened(c) /\ Calls(c) = 0
                  /\ Legs(c)' \in 0 .. 1 /\ Owed(c)' \in 0 .. 1
                  /\ Legs(c)' + Owed(c)' = Legs(c) + Owed(c) - 1
  BY <1>1, ConfCounts
<1>3. /\ Handled(c) \in 0 .. 2
      /\ d # c => Handled(c)' = Handled(c)
      /\ d = c => Handled(c) \in 0 .. 1 /\ Handled(c)' = Handled(c) + 1
  BY <1>1, ConfHandled
<1>4. ChanInv(c)
  BY DEF SetupInv, Channels
<1>5. (Advances(c)' <=> Advances(c)) /\ Pending(c)' = Pending(c)
  BY <1>1 DEF Advances, Pending
<1>6. CASE d = c
  <2>1. Calls(c)' = 0 /\ ~(Calls(c)' > 0) /\ Opened(c)'
    BY <1>2, <1>6
  <2>2. Advances(c)' => (Pending(c)' \in flags' <=> Handled(c)' > 0)
    BY <1>3, <1>5, <1>6
  <2>3. Calls(c)' + Legs(c)' <= 1 /\ Owed(c)' <= 1
    BY <1>2, <1>6, <2>1
  <2>4. Handled(c)' >= Handled(c)
    BY <1>3, <1>6
  <2>5. ChanInv(c)'
    BY <2>1, <2>2, <2>3, Zenon DEF ChanInv
  <2> QED BY <2>4, <2>5
<1>7. CASE d # c /\ Calls(c)' = Calls(c)
  BY <1>1, <1>2, <1>3, <1>4, <1>5, <1>7 DEF ChanInv
<1>8. CASE d # c /\ c # "ctrl" /\ Asks(c)
  <2>1. Calls(c) = 0 /\ ~Opened(c)
    BY <1>2, <1>8 DEF Asks, Begun
  <2>2. Legs(c) = 0
    BY <1>2, <1>4, <2>1 DEF ChanInv
  <2>3. /\ Calls(c)' = 1 /\ Legs(c)' = 0 /\ Owed(c)' <= 1 /\ ~Opened(c)'
        /\ Handled(c)' = Handled(c) /\ (c # "sdp" => ~page)
    <3>1. Owed(c)' = Owed(c) /\ Owed(c) <= 1 /\ Legs(c)' = Legs(c)
      BY <1>2, <1>4, <1>8, Zenon DEF ChanInv
    <3>2. ~Opened(c)' /\ Handled(c)' = Handled(c)
      BY <1>2, <1>3, <1>8, <2>1, Zenon
    <3>3. Calls(c)' = Calls(c) + 1 /\ (c # "sdp" => ~page)
      BY <1>8 DEF Asks, OwnChan
    <3> QED BY <2>1, <2>2, <3>1, <3>2, <3>3
  <2> QED BY <1>1, <1>2, <1>3, <1>4, <1>5, <1>8, <2>2, <2>3 DEF ChanInv
<1> QED BY <1>6, <1>7, <1>8

(* The channel that is configured before channel e is asked for. *)
Before(e) == IF e = "intr" THEN "ctrl" ELSE "intr"

(* What is left to show of a configuration message of channel d. *)
LEMMA ConfKeeps ==
    ASSUME SetupInv, L2capConfReq \/ L2capConfRsp, NEW d, d = Head(rx).ch,
           tx' \in Seq(TxMsg),
           \A c \in OwnChan :
              /\ Cnt(tx', "conf_req", c) = Cnt(tx, "conf_req", c)
              /\ Cnt(tx', "conn_rsp", c) = Cnt(tx, "conn_rsp", c)
              /\ \/ Calls(c)' = Calls(c)
                 \/ c # d /\ c # "ctrl" /\ Asks(c) /\ Handled(Before(c))' = 2
              /\ c # d => (Pending(c) \in flags' <=> Pending(c) \in flags)
              /\ c = d /\ Advances(d) => Pending(d) \in flags',
           flags' \subseteq Flag, init' \subseteq {"generic", "named"},
           "sdp_data" \in flags' <=> "sdp_data" \in flags,
           \/ Asked' = Asked
           \/ Asked' = 1 /\ sdp = 0 /\ "sdp_data" \notin flags /\ Handled("sdp")' = 2,
           \A x \in Elems(tx') : x.op = "sdp_req" => x.search = sdp
    PROVE  SetupInv'
<1>1. /\ rx # <<>> /\ rx' = Tail(rx) /\ Head(rx).op \in {"conf_req", "conf_rsp"}
      /\ up /\ rx' \in Seq(RxMsg) /\ Plus(rx', rx, Head(rx))
      /\ UNCHANGED <<up, page, named, auth, asks, peer, task, dcid, sdp, len, have,
                     stalled, parsed, raced>>
  BY ConfFrame
<1>2. ASSUME NEW c \in OwnChan PROVE ChanInv(c)' /\ Handled(c)' >= Handled(c)
  BY ConfChan
<1>3. Channels'
  BY <1>2 DEF Channels
<1>4. ASSUME NEW c \in OwnChan
      PROVE  /\ Opened(c)' <=> Opened(c)
             /\ Handled(c) \in 0 .. 2 /\ Handled(c)' \in 0 .. 2
  BY <1>1, ConfCounts, ConfHandled
<1>5. ASSUME NEW c \in OwnChan, c = "ctrl" \/ Handled(Before(c))' # 2
      PROVE  Begun(c)' <=> Begun(c)
  BY <1>4, <1>5 DEF Begun
<1>6. Order'
  <2>1. "ctrl" \in OwnChan /\ "intr" \in OwnChan /\ "sdp" \in OwnChan
    BY DEF OwnChan
  <2>2. ~page' /\ auth' \notin {"done", "encrypted"} => ~Begun("ctrl")'
    BY <1>1, <1>5, <2>1 DEF SetupInv, Order
  <2>3. ~page' /\ Handled("ctrl")' < 2 => ~Begun("intr")'
    <3>1. Handled("ctrl")' < 2 => Handled("ctrl") < 2 /\ Handled(Before("intr"))' # 2
      BY <1>2, <1>4, <2>1 DEF Before
    <3> QED BY <1>1, <1>5, <2>1, <3>1 DEF SetupInv, Order
  <2>4. Handled("intr")' < 2 => ~Begun("sdp")'
    <3>1. Handled("intr")' < 2 => Handled("intr") < 2 /\ Handled(Before("sdp"))' # 2
      BY <1>2, <1>4, <2>1 DEF Before
    <3> QED BY <1>1, <1>5, <2>1, <3>1 DEF SetupInv, Order
  <2>5. Handled("sdp")' < 2 => Asked' = 0 /\ sdp' = 0 /\ "sdp_data" \notin flags'
    <3>1. Handled("sdp")' < 2 => Handled("sdp") < 2 /\ Handled("sdp")' # 2
      BY <1>2, <1>4, <2>1
    <3> QED BY <1>1, <3>1 DEF SetupInv, Order
  <2> QED BY <2>2, <2>3, <2>4, <2>5 DEF Order
<1>7. Searching'
  <2>1. \A x \in Elems(rx') : x.op = "sdp_rsp" => x.search = sdp
    BY <1>1 DEF Plus, SetupInv, Searching
  <2>2. Elems(tx)' = Elems(tx') /\ Elems(rx)' = Elems(rx')
    BY DEF Elems
  <2>3. Asked' <= 1 /\ ("sdp_data" \in flags' => Asked' = 0 /\ sdp' = 1)
    BY <1>1 DEF SetupInv, Searching
  <2> QED BY <1>1, <2>1, <2>2, <2>3 DEF Searching
<1>8. Kept'
  BY <1>1 DEF SetupInv, Kept
<1>9. Typed'
  <2>1. \A i \in 1 .. Len(rx') : rx'[i].ch \in Chan
    BY <1>1 DEF RxMsg, Chan
  <2>2. \A i \in 1 .. Len(tx') : tx'[i].ch \in Chan
    BY DEF TxMsg, Chan
  <2> QED BY <1>1, <2>1, <2>2 DEF SetupInv, Typed, TypeOK
<1>10. Clear' /\ NameFirst'
  BY <1>1 DEF Clear, NameFirst, SetupInv
<1> QED BY <1>3, <1>6, <1>7, <1>8, <1>9, <1>10 DEF SetupInv

(* The first configuration message of a channel, or one of a channel that   *)
(* starts nothing.                                                          *)
LEMMA ConfWaits ==
    ASSUME SetupInv, L2capConfReq \/ L2capConfRsp, NEW d, d = Head(rx).ch, NEW t, Alike(t),
           Waits(d, t)
    PROVE  SetupInv'
<1>1. tx' = t /\ init' = init
  BY DEF Waits
<1>2. /\ rx # <<>> /\ rx' = Tail(rx) /\ Head(rx).op \in {"conf_req", "conf_rsp"}
      /\ Plus(rx', rx, Head(rx)) /\ d \in Chan
  BY ConfFrame
<1>3. \A c \in OwnChan : Calls(c)' = Calls(c)
  BY <1>1, Later DEF Calls, Alike
<1>4. Asked' = Asked
  <2>1. Cnt(rx', "sdp_rsp", "sdp") = Cnt(rx, "sdp_rsp", "sdp")
    BY <1>2 DEF Plus
  <2> QED BY <1>1, <2>1, Later DEF Asked, Alike
<1>5. /\ flags' \subseteq Flag /\ ("sdp_data" \in flags' <=> "sdp_data" \in flags)
      /\ \A c \in OwnChan : /\ c # d => (Pending(c) \in flags' <=> Pending(c) \in flags)
                            /\ c = d /\ Advances(d) => Pending(d) \in flags'
  <2>1. flags \subseteq Flag
    BY DEF SetupInv, Typed, TypeOK
  <2>2. CASE ~Advances(d) /\ flags' = flags
    BY <2>1, <2>2
  <2>3. CASE Advances(d) /\ flags' = flags \cup {Pending(d)}
    <3>1. d \in OwnChan
      BY <1>2, <2>3 DEF Advances, OwnChan
    <3>2. Pending(d) \in Flag /\ Pending(d) # "sdp_data"
          /\ \A c \in OwnChan : c # d => Pending(c) # Pending(d)
      BY <3>1 DEF OwnChan, Pending, Flag
    <3> QED BY <2>1, <2>3, <3>2
  <2> QED BY <2>2, <2>3 DEF Waits
<1>6. init' \subseteq {"generic", "named"}
  BY <1>1 DEF SetupInv, Typed, TypeOK
<1>7. /\ tx' \in Seq(TxMsg) /\ \A x \in Elems(tx') : x.op = "sdp_req" => x.search = sdp
      /\ \A c \in OwnChan : /\ Cnt(tx', "conf_req", c) = Cnt(tx, "conf_req", c)
                            /\ Cnt(tx', "conn_rsp", c) = Cnt(tx, "conn_rsp", c)
  BY <1>1 DEF Alike
<1> QED BY <1>3, <1>4, <1>5, <1>6, <1>7, ConfKeeps

(* The second one asks for the next channel, or for the first search.       *)
LEMMA ConfGoes ==
    ASSUME SetupInv, L2capConfReq \/ L2capConfRsp, NEW d, d = Head(rx).ch, NEW t, Alike(t),
           Goes(d, t)
    PROVE  SetupInv'
<1>1. /\ rx # <<>> /\ rx' = Tail(rx) /\ Head(rx).op \in {"conf_req", "conf_rsp"}
      /\ Plus(rx', rx, Head(rx)) /\ d \in Chan /\ Typed /\ peer' = peer
  BY ConfFrame
<1>2. d \in OwnChan /\ t \in Seq(TxMsg) /\ (d = "ctrl" => ~page)
  BY <1>1 DEF Goes, Advances, OwnChan, Alike
<1>3. PICK x \in TxMsg : /\ tx' = Append(t, x)
                         /\ \/ d = "ctrl" /\ x.op = "conn_req" /\ x.ch = "intr"
                            \/ d = "intr" /\ x.op = "conn_req" /\ x.ch = "sdp"
                            \/ d = "sdp" /\ x.op = "sdp_req" /\ x.ch = "sdp" /\ x.search = 0
  <2>1. CASE d = "ctrl"
    <3>1. PICK x \in TxMsg : x = Msg("conn_req", "intr") /\ x.op = "conn_req" /\ x.ch = "intr"
      BY MsgTyped DEF Ops, Chan
    <3>2. tx' = t \o <<x>>
      BY <2>1, <3>1 DEF Goes, Started
    <3> QED BY <1>2, <2>1, <3>1, <3>2, Joined
  <2>2. CASE d = "intr"
    <3>1. PICK x \in TxMsg : x = Msg("conn_req", "sdp") /\ x.op = "conn_req" /\ x.ch = "sdp"
      BY MsgTyped DEF Ops, Chan
    <3>2. tx' = t \o <<x>>
      BY <2>2, <3>1 DEF Goes, Started
    <3> QED BY <1>2, <2>2, <3>1, <3>2, Joined
  <2>3. CASE d = "sdp"
    <3>1. PICK x \in TxMsg : /\ x = [op |-> "sdp_req", ch |-> "sdp", search |-> 0]
                             /\ x.op = "sdp_req" /\ x.ch = "sdp" /\ x.search = 0
      <4>1. 0 \in Search
        BY DEF Search
      <4> QED BY <4>1, ReqTyped
    <3>2. tx' = t \o <<x>>
      BY <2>3, <3>1 DEF Goes, Started
    <3> QED BY <1>2, <2>3, <3>1, <3>2, Joined
  <2> QED BY <1>2, <2>1, <2>2, <2>3 DEF OwnChan
<1>4. tx' \in Seq(TxMsg) /\ Plus(t, tx', x)
  BY <1>2, <1>3, Sends
<1>5. \A c \in OwnChan : /\ Cnt(tx', "conf_req", c) = Cnt(tx, "conf_req", c)
                         /\ Cnt(tx', "conn_rsp", c) = Cnt(tx, "conn_rsp", c)
  <2>1. \A c \in OwnChan : /\ Cnt(tx', "conf_req", c) = Cnt(t, "conf_req", c)
                           /\ Cnt(tx', "conn_rsp", c) = Cnt(t, "conn_rsp", c)
    BY <1>3, <1>4 DEF Plus
  <2> QED BY <2>1 DEF Alike
<1>6. Handled(d) = 1 /\ Handled(d)' = 2
  <2>1. Handled(d) \in 0 .. 1 /\ Handled(d)' = Handled(d) + 1
    BY <1>1, <1>2, <1>5, ConfHandled
  <2>2. Handled(d) > 0
    BY <1>2 DEF SetupInv, Channels, ChanInv, Goes, Ready
  <2> QED BY <2>1, <2>2
<1>7. ASSUME NEW c \in OwnChan
      PROVE  \/ Calls(c)' = Calls(c)
             \/ c # d /\ c # "ctrl" /\ Asks(c) /\ Handled(Before(c))' = 2
  <2>1. /\ x.op # "conn_req" \/ x.ch # c => Cnt(tx', "conn_req", c) = Cnt(t, "conn_req", c)
        /\ x.op = "conn_req" /\ x.ch = c => Cnt(tx', "conn_req", c) = Cnt(t, "conn_req", c) + 1
    BY <1>4 DEF Plus
  <2>2. Calls(c)' = Cnt(tx', "conn_req", c) /\ Calls(c) = Cnt(t, "conn_req", c)
    BY Later DEF Calls, Alike
  <2>3. CASE x.op # "conn_req" \/ x.ch # c
    BY <2>1, <2>2, <2>3
  <2>4. CASE x.op = "conn_req" /\ x.ch = c
    <3>1. Calls(c)' = Calls(c) + 1
      BY <2>1, <2>2, <2>4
    <3>2. CASE d = "ctrl"
      <4>1. c = "intr" /\ ~page
        BY <1>2, <1>3, <2>4, <3>2
      <4>2. ~Begun("intr")
        BY <1>6, <3>2, <4>1 DEF SetupInv, Order
      <4> QED BY <1>6, <3>1, <3>2, <4>1, <4>2 DEF Asks, Before
    <3>3. CASE d = "intr"
      <4>1. c = "sdp"
        BY <1>3, <2>4, <3>3
      <4>2. ~Begun("sdp")
        BY <1>6, <3>3 DEF SetupInv, Order
      <4> QED BY <1>6, <3>1, <3>3, <4>1, <4>2 DEF Asks, Before
    <3> QED BY <1>3, <2>4, <3>2, <3>3
  <2> QED BY <2>3, <2>4
<1>8. /\ \/ Asked' = Asked
         \/ Asked' = 1 /\ sdp = 0 /\ "sdp_data" \notin flags /\ Handled("sdp")' = 2
      /\ x.op = "sdp_req" => x.search = sdp
  <2>1. Cnt(rx', "sdp_rsp", "sdp") = Cnt(rx, "sdp_rsp", "sdp")
    BY <1>1 DEF Plus
  <2>2. Asked' = Cnt(tx', "sdp_req", "sdp") + Cnt(rx, "sdp_rsp", "sdp")
        /\ Asked = Cnt(t, "sdp_req", "sdp") + Cnt(rx, "sdp_rsp", "sdp")
    BY <2>1, Later DEF Asked, Alike
  <2>3. CASE d # "sdp"
    <3>1. x.op # "sdp_req" /\ Cnt(tx', "sdp_req", "sdp") = Cnt(t, "sdp_req", "sdp")
      BY <1>3, <1>4, <2>3 DEF Plus
    <3> QED BY <2>2, <3>1
  <2>4. CASE d = "sdp"
    <3>1. x.search = 0 /\ Cnt(tx', "sdp_req", "sdp") = Cnt(t, "sdp_req", "sdp") + 1
      BY <1>3, <1>4, <2>4 DEF Plus
    <3>2. Asked = 0 /\ sdp = 0 /\ "sdp_data" \notin flags
      BY <1>6, <2>4 DEF SetupInv, Order
    <3>3. Cnt(t, "sdp_req", "sdp") \in Nat /\ Cnt(rx, "sdp_rsp", "sdp") \in Nat
      BY <1>1, <1>4, Numbers DEF Plus
    <3> QED BY <1>6, <2>2, <2>4, <3>1, <3>2, <3>3
  <2> QED BY <2>3, <2>4
<1>9. \A y \in Elems(tx') : y.op = "sdp_req" => y.search = sdp
  BY <1>4, <1>8 DEF Plus, Alike
<1>10. /\ flags' \subseteq Flag /\ init' \subseteq {"generic", "named"}
       /\ ("sdp_data" \in flags' <=> "sdp_data" \in flags)
       /\ \A c \in OwnChan : /\ c # d => (Pending(c) \in flags' <=> Pending(c) \in flags)
                             /\ c = d /\ Advances(d) => Pending(d) \in flags'
  <2>1. flags \subseteq Flag /\ init \subseteq {"generic", "named"} /\ Typ \in {"generic", "named"}
    BY DEF SetupInv, Typed, TypeOK, Typ
  <2>2. \A c \in OwnChan : Pending(c) # "intr_ready"
    BY DEF OwnChan, Pending
  <2> QED BY <2>1, <2>2 DEF Goes, Ready, Flag
<1> QED BY <1>4, <1>5, <1>7, <1>8, <1>9, <1>10, ConfKeeps

-----------------------------------------------------------------------------
(* The searches. *)

(* The response at the head of the queue is the only thing under way of the *)
(* searches, it is that of sdp_state, and no data was handed over.          *)
LEMMA OneAnswer ==
    ASSUME SetupInv, rx # <<>>, Head(rx).op = "sdp_rsp"
    PROVE  /\ Head(rx).search = sdp /\ Head(rx).ch = "sdp"
           /\ Head(rx).more \in BOOLEAN /\ Head(rx).n \in Nat
           /\ "sdp_data" \notin flags /\ ~(Handled("sdp") < 2)
           /\ (~raced => task.at = "idle")
           /\ ~raced /\ sdp = 1 => 0 \in have
           /\ Cnt(tx, "sdp_req", "sdp") = 0 /\ Cnt(rx, "sdp_rsp", "sdp") = 1
           /\ \A y \in Elems(tx) : y.op # "sdp_req"
<1>1. rx \in Seq(RxMsg) /\ tx \in Seq(TxMsg) /\ Typed
  BY DEF SetupInv, Typed
<1>2. PICK m \in RxMsg : m = Head(rx) /\ m \in Elems(rx) /\ Plus(Tail(rx), rx, m)
  BY <1>1, Takes DEF Plus
<1>3. /\ m.op = "sdp_rsp" /\ m.ch = "sdp" /\ m.more \in BOOLEAN /\ m.n \in Nat
  <2>1. m.op = "sdp_rsp"
    BY <1>2
  <2>2. m \in [op : {"sdp_rsp"}, ch : {"sdp"}, search : Search, n : 0 .. MaxChunk, more : BOOLEAN]
    BY <1>2, <2>1 DEF RxMsg, Ops
  <2>3. m.op = "sdp_rsp" /\ m.ch = "sdp" /\ m.more \in BOOLEAN /\ m.n \in 0 .. MaxChunk
    BY <2>2, Zenon
  <2> QED BY <2>3
<1>4. m.search = sdp
  BY <1>2, <1>3 DEF SetupInv, Searching
<1>5. Cnt(rx, "sdp_rsp", "sdp") >= 1 /\ Cnt(rx, "sdp_rsp", "sdp") \in Nat
      /\ Cnt(tx, "sdp_req", "sdp") \in Nat
  <2>1. Cnt(rx, "sdp_rsp", "sdp") = Cnt(Tail(rx), "sdp_rsp", "sdp") + 1
        /\ Cnt(Tail(rx), "sdp_rsp", "sdp") \in Nat
    BY <1>2, <1>3 DEF Plus
  <2> QED BY <1>1, <2>1, Numbers
<1>6. Asked = 1 /\ Cnt(tx, "sdp_req", "sdp") = 0 /\ Cnt(rx, "sdp_rsp", "sdp") = 1
  <2>1. Asked = Cnt(tx, "sdp_req", "sdp") + Cnt(rx, "sdp_rsp", "sdp") /\ Asked <= 1
    BY DEF Asked, SetupInv, Searching
  <2> QED BY <1>5, <2>1
<1>7. "sdp_data" \notin flags /\ ~(Handled("sdp") < 2)
  BY <1>6 DEF SetupInv, Searching, Order
<1>8. (~raced => task.at = "idle") /\ (~raced /\ sdp = 1 => 0 \in have)
  BY <1>6, <1>7 DEF SetupInv, Kept
<1>9. \A y \in Elems(tx) : y.op # "sdp_req"
  <2>1. \A y \in Elems(tx) : ~(y.op = "sdp_req" /\ y.ch = "sdp")
    BY <1>1, <1>6, CntOf DEF Is
  <2>2. \A y \in Elems(tx) : y.op = "sdp_req" => y.ch = "sdp"
    BY <1>1, ElemsOf DEF TxMsg
  <2> QED BY <2>1, <2>2
<1> QED BY <1>2, <1>3, <1>4, <1>6, <1>7, <1>8, <1>9

(* What is appended fits the buffer. *)
LEMMA Fits ==
    ASSUME SetupInv, NEW n \in Nat, NEW k, k = sdp
    PROVE  LET l == [len EXCEPT ![k] = @ + CopyLen(k, n)]
           IN  l \in [Search -> Nat] /\ \A j \in Search : l[j] <= Size(j)
<1>1. /\ len \in [Search -> Nat] /\ \A j \in Search : len[j] <= Size(j)
      /\ k \in Search
  BY DEF SetupInv, Typed, TypeOK, Search
<1>2. \A j \in Search : Size(j) \in Nat
  BY SetupAssumption DEF Size
<1>3. len[k] + CopyLen(k, n) \in Nat /\ len[k] + CopyLen(k, n) <= Size(k)
  BY <1>1, <1>2 DEF CopyLen
<1> QED BY <1>1, <1>3

(* The first message is an answer, and message x is sent or none: the       *)
(* channels stay as they are.                                               *)
LEMMA AnswerChan ==
    ASSUME SetupInv, rx # <<>>, rx' = Tail(rx), Head(rx).op = "sdp_rsp",
           peer' = peer, page' = page,
           \A f \in Pendings : f \in flags' <=> f \in flags,
           \A c \in OwnChan : /\ Cnt(tx', "conn_req", c) = Cnt(tx, "conn_req", c)
                              /\ Cnt(tx', "conf_req", c) = Cnt(tx, "conf_req", c)
                              /\ Cnt(tx', "conn_rsp", c) = Cnt(tx, "conn_rsp", c)
    PROVE  \A c \in OwnChan : Unmoved(c)
<1>1. PICK m : m = Head(rx)
  OBVIOUS
<1>2. m.op = "sdp_rsp" /\ Plus(rx', rx, m)
  BY <1>1, Received
<1>3. ASSUME NEW c \in OwnChan PROVE Unmoved(c)
  <2>1. /\ Cnt(rx', "conf_req", c) = Cnt(rx, "conf_req", c)
        /\ Cnt(rx', "conn_req", c) = Cnt(rx, "conn_req", c)
        /\ Cnt(rx', "conn_rsp", c) = Cnt(rx, "conn_rsp", c)
        /\ Cnt(rx', "conf_rsp", c) = Cnt(rx, "conf_rsp", c)
    BY <1>2 DEF Plus
  <2>2. /\ Calls(c)' = Calls(c) /\ Legs(c)' = Legs(c) /\ Owed(c)' = Owed(c)
        /\ Acks(c)' = Acks(c) /\ (Opened(c)' <=> Opened(c))
    BY <2>1, Later DEF Calls, Legs, Owed, Acks, Opened
  <2>3. ChanInv(c)
    BY DEF SetupInv, Channels
  <2>4. Same(c)
    BY <2>2, <2>3 DEF Same, ChanInv
  <2>5. Pending(c) \in Pendings
    BY DEF OwnChan, Pending, Pendings
  <2> QED BY <2>3, <2>4, <2>5, ChanKept
<1> QED BY <1>3

(* What is left to show of a step that takes an answer. *)
LEMMA AnswerKeeps ==
    ASSUME SetupInv, SdpSearchRsp,
           tx' \in Seq(TxMsg),
           \A c \in OwnChan : /\ Cnt(tx', "conn_req", c) = Cnt(tx, "conn_req", c)
                              /\ Cnt(tx', "conf_req", c) = Cnt(tx, "conf_req", c)
                              /\ Cnt(tx', "conn_rsp", c) = Cnt(tx, "conn_rsp", c),
           Cnt(tx', "sdp_req", "sdp") <= 1,
           \A y \in Elems(tx') : y.op = "sdp_req" => y.search = sdp',
           sdp' \in {0, 1},
           len' \in [Search -> Nat] /\ \A j \in Search : len'[j] <= Size(j),
           have \subseteq have' /\ have' \subseteq Search,
           sdp' = 1 /\ Cnt(tx', "sdp_req", "sdp") > 0 => sdp = 1 \/ 0 \in have',
           \/ flags' = flags
           \/ /\ flags' = flags \cup {"sdp_data"} /\ sdp = 1 /\ sdp' = 1 /\ 1 \in have'
              /\ Cnt(tx', "sdp_req", "sdp") = 0
    PROVE  SetupInv'
<1>1. /\ rx # <<>> /\ rx' = Tail(rx) /\ Head(rx).op = "sdp_rsp"
      /\ UNCHANGED <<up, page, named, auth, asks, peer, task, dcid, init, parsed, raced>>
      /\ stalled' \subseteq stalled \cup {"alloc"}
  BY DEF SdpSearchRsp, Got, unchangedByMsg
<1>2. up /\ Typed /\ rx' \in Seq(RxMsg) /\ Plus(rx', rx, Head(rx))
  BY <1>1, Received
<1>3. /\ Head(rx).ch = "sdp"
      /\ "sdp_data" \notin flags /\ ~(Handled("sdp") < 2)
      /\ (~raced => task.at = "idle")
      /\ ~raced /\ sdp = 1 => 0 \in have
      /\ Cnt(rx, "sdp_rsp", "sdp") = 1
  BY <1>1, OneAnswer
<1>4. \A c \in OwnChan : Unmoved(c)
  <2>1. \A f \in Pendings : f \in flags' <=> f \in flags
    BY DEF Pendings
  <2> QED BY <1>1, <2>1, AnswerChan
<1>5. Channels'
  BY <1>4 DEF Channels, Unmoved
<1>6. Cnt(rx', "sdp_rsp", "sdp") = 0 /\ Asked' = Cnt(tx', "sdp_req", "sdp")
      /\ Cnt(tx', "sdp_req", "sdp") \in Nat
  <2>1. Cnt(rx, "sdp_rsp", "sdp") = Cnt(rx', "sdp_rsp", "sdp") + 1
        /\ Cnt(rx', "sdp_rsp", "sdp") \in Nat
    BY <1>1, <1>2, <1>3 DEF Plus
  <2>2. Cnt(rx', "sdp_rsp", "sdp") = 0
    BY <1>3, <2>1
  <2>3. Cnt(tx', "sdp_req", "sdp") \in Nat
    BY CntOf
  <2> QED BY <2>2, <2>3, Later
<1>7. Order'
  <2>1. /\ Handled("ctrl")' = Handled("ctrl") /\ (Begun("ctrl")' => Begun("ctrl"))
        /\ Handled("intr")' = Handled("intr") /\ (Begun("intr")' => Begun("intr"))
        /\ Handled("sdp")' = Handled("sdp") /\ (Begun("sdp")' => Begun("sdp"))
    BY <1>4 DEF OwnChan, Unmoved
  <2> QED BY <1>1, <1>3, <2>1 DEF SetupInv, Order
<1>8. Searching'
  <2>1. \A y \in Elems(rx') : ~(y.op = "sdp_rsp" /\ y.ch = "sdp")
    BY <1>2, <1>6, CntOf DEF Is
  <2>2. \A y \in Elems(rx') : y.op = "sdp_rsp" => y.ch = "sdp"
    BY <1>2, ElemsOf DEF RxMsg
  <2>3. Elems(tx)' = Elems(tx') /\ Elems(rx)' = Elems(rx')
    BY DEF Elems
  <2>4. "sdp_data" \in flags' => Asked' = 0 /\ sdp' = 1
    BY <1>3, <1>6
  <2> QED BY <1>6, <2>1, <2>2, <2>3, <2>4 DEF Searching
<1>9. Kept'
  <2>1. ASSUME ~raced', sdp' = 1, Asked' > 0 PROVE 0 \in have'
    BY <1>1, <1>3, <1>6, <2>1
  <2>2. ASSUME ~raced' PROVE task'.at = "idle"
    BY <1>1, <1>3, <2>2
  <2>3. ASSUME ~raced', "sdp_data" \in flags' PROVE have' = Search
    <3>1. 0 \in have' /\ 1 \in have'
      BY <1>1, <1>3, <2>3
    <3> QED BY <3>1 DEF Search
  <2> QED BY <2>1, <2>2, <2>3 DEF Kept
<1>10. Typed'
  <2>1. \A i \in 1 .. Len(rx') : rx'[i].ch \in Chan
    BY <1>2 DEF RxMsg, Chan
  <2>2. \A i \in 1 .. Len(tx') : tx'[i].ch \in Chan
    BY DEF TxMsg, Chan
  <2>3. flags' \subseteq Flag /\ stalled' \subseteq {"auth", "refused", "alloc"}
    BY <1>1 DEF SetupInv, Typed, TypeOK, Flag
  <2> QED BY <1>1, <1>2, <2>1, <2>2, <2>3 DEF SetupInv, Typed, TypeOK
<1>11. Clear' /\ NameFirst'
  BY <1>1, <1>2 DEF Clear, NameFirst, SetupInv
<1> QED BY <1>5, <1>7, <1>8, <1>9, <1>10, <1>11 DEF SetupInv

(* An answer is appended; the rest, the second search or the end of the     *)
(* channel is asked for.                                                    *)
LEMMA AnswerSteps == ASSUME SetupInv, SdpSearchRsp PROVE SetupInv'
<1>1. PICK k, n, more : k = sdp /\ n = Head(rx).n /\ more = Head(rx).more
  OBVIOUS
<1>2. rx # <<>> /\ Head(rx).op = "sdp_rsp"
  BY DEF SdpSearchRsp, Got
<1>3. /\ more \in BOOLEAN /\ n \in Nat /\ Cnt(tx, "sdp_req", "sdp") = 0
      /\ \A y \in Elems(tx) : y.op # "sdp_req"
  BY <1>1, <1>2, OneAnswer
<1>4. /\ tx \in Seq(TxMsg) /\ k \in Search /\ have \subseteq Search /\ sdp \in {0, 1}
      /\ len \in [Search -> Nat] /\ \A j \in Search : len[j] <= Size(j)
  BY <1>1 DEF SetupInv, Typed, TypeOK, Search
<1>5. CASE /\ k \notin have
           /\ stalled' = stalled \cup {"alloc"}
           /\ UNCHANGED <<len, have, tx, sdp, flags>>
  BY <1>3, <1>4, <1>5, AnswerKeeps
<1>6. ASSUME NEW x \in TxMsg, tx' = Append(tx, x), x.ch = "sdp",
             x.op \in {"sdp_req", "disconn_req"}, x.op = "sdp_req" => x.search = sdp',
             len' = [len EXCEPT ![k] = @ + CopyLen(k, n)], have' = have \cup {k},
             \/ sdp' = sdp /\ flags' = flags
             \/ sdp' = 1 /\ sdp = 0 /\ flags' = flags
             \/ sdp' = sdp /\ sdp = 1 /\ x.op = "disconn_req" /\ flags' = flags \cup {"sdp_data"}
      PROVE  SetupInv'
  <2>1. tx' \in Seq(TxMsg) /\ Plus(tx, tx', x)
    BY <1>4, <1>6, Sends
  <2>2. \A c \in OwnChan : /\ Cnt(tx', "conn_req", c) = Cnt(tx, "conn_req", c)
                           /\ Cnt(tx', "conf_req", c) = Cnt(tx, "conf_req", c)
                           /\ Cnt(tx', "conn_rsp", c) = Cnt(tx, "conn_rsp", c)
    BY <1>6, <2>1 DEF Plus
  <2>3. /\ Cnt(tx', "sdp_req", "sdp") <= 1
        /\ x.op = "disconn_req" => Cnt(tx', "sdp_req", "sdp") = 0
    BY <1>3, <1>6, <2>1 DEF Plus
  <2>4. \A y \in Elems(tx') : y.op = "sdp_req" => y.search = sdp'
    BY <1>3, <1>6, <2>1 DEF Plus
  <2>5. len' \in [Search -> Nat] /\ \A j \in Search : len'[j] <= Size(j)
    BY <1>1, <1>3, <1>6, Fits
  <2>6. sdp' \in {0, 1} /\ have \subseteq have' /\ have' \subseteq Search
    BY <1>4, <1>6
  <2>7. sdp' = 1 /\ Cnt(tx', "sdp_req", "sdp") > 0 => sdp = 1 \/ 0 \in have'
    BY <1>1, <1>6
  <2>8. \/ flags' = flags
        \/ /\ flags' = flags \cup {"sdp_data"} /\ sdp = 1 /\ sdp' = 1 /\ 1 \in have'
           /\ Cnt(tx', "sdp_req", "sdp") = 0
    BY <1>1, <1>6, <2>3
  <2> QED BY <2>1, <2>2, <2>3, <2>4, <2>5, <2>6, <2>7, <2>8, AnswerKeeps
<1> DEFINE req(j) == [op |-> "sdp_req", ch |-> "sdp", search |-> j]
<1>7. CASE /\ len' = [len EXCEPT ![k] = @ + CopyLen(k, n)]
           /\ have' = have \cup {k}
           /\ tx' = Append(tx, IF more THEN req(k)
                               ELSE IF LastSearch(k) THEN Msg("disconn_req", "sdp")
                               ELSE req(k + 1))
           /\ sdp' = IF ~more /\ ~LastSearch(k) THEN k + 1 ELSE sdp
           /\ flags' = IF ~more /\ LastSearch(k) THEN flags \cup {"sdp_data"} ELSE flags
  <2>1. CASE more
    <3>1. /\ req(k) \in TxMsg /\ req(k).op = "sdp_req" /\ req(k).ch = "sdp"
          /\ req(k).search = k
      BY <1>4, ReqTyped
    <3> HIDE DEF req
    <3>2. tx' = Append(tx, req(k)) /\ sdp' = sdp /\ flags' = flags
      BY <1>7, <2>1
    <3> QED BY <1>1, <1>6, <1>7, <3>1, <3>2
  <2>2. CASE ~more /\ k = 1
    <3>1. PICK x \in TxMsg : x = Msg("disconn_req", "sdp") /\ x.op = "disconn_req" /\ x.ch = "sdp"
      BY MsgTyped DEF Ops, Chan
    <3> HIDE DEF req
    <3>2. tx' = Append(tx, x) /\ sdp' = sdp /\ flags' = flags \cup {"sdp_data"}
      BY <1>7, <2>2, <3>1 DEF LastSearch
    <3> QED BY <1>1, <1>6, <1>7, <2>2, <3>1, <3>2
  <2>3. CASE ~more /\ k = 0
    <3>1. /\ req(1) \in TxMsg /\ req(1).op = "sdp_req" /\ req(1).ch = "sdp"
          /\ req(1).search = 1
      BY ReqTyped DEF Search
    <3> HIDE DEF req
    <3>2. tx' = Append(tx, req(1)) /\ sdp' = 1 /\ flags' = flags
      BY <1>7, <2>3 DEF LastSearch
    <3> QED BY <1>1, <1>6, <1>7, <2>3, <3>1, <3>2
  <2> QED BY <1>4, <2>1, <2>2, <2>3 DEF Search
<1> QED BY <1>1, <1>3, <1>5, <1>7 DEF SdpSearchRsp

-----------------------------------------------------------------------------
(* Connections come and go, and the task. *)

(* No link, or one that has just come up. *)
Blank ==
    /\ page \in BOOLEAN /\ named = FALSE /\ auth = "no" /\ asks = {}
    /\ flags = {} /\ dcid \subseteq Chan /\ sdp = 0
    /\ len \in [Search -> Nat] /\ \A k \in Search : len[k] <= Size(k)
    /\ have = {} /\ init \subseteq {"generic", "named"}
    /\ rx = <<>> /\ tx = <<>>
    /\ peer = [c \in Chan |-> Closed]
    /\ up \in BOOLEAN /\ (~up => page = FALSE)
    /\ task \in [at : {"idle", "parse", "check"}, old : BOOLEAN]
    /\ stalled \subseteq {"auth", "refused", "alloc"}
    /\ parsed \in BOOLEAN /\ raced \in BOOLEAN
    /\ ~raced => task.at = "idle"

(* The invariant holds then. *)
LEMMA BlankHolds == Blank => SetupInv
<1> SUFFICES ASSUME Blank PROVE SetupInv
  OBVIOUS
<1>1. rx \in Seq(RxMsg) /\ tx \in Seq(TxMsg)
  BY DEF Blank
<1>2. \A op, c : Cnt(rx, op, c) = 0 /\ Cnt(tx, op, c) = 0
  <2>1. \A op, c : Cnt(<<>>, op, c) = 0
    BY <1>1, CntOf DEF Blank
  <2> QED BY <2>1 DEF Blank
<1>3. Elems(rx) = {} /\ Elems(tx) = {}
  BY ElemsOf DEF Blank
<1>4. \A c \in Chan : peer[c] = [st |-> "closed", conf |-> FALSE, got |-> FALSE, chunks |-> 0]
  BY DEF Blank, Closed
<1>5. ASSUME NEW c \in OwnChan
      PROVE  /\ Calls(c) = 0 /\ Legs(c) = 0 /\ Owed(c) = 1 /\ Acks(c) = 0
             /\ ~Opened(c) /\ ~peer[c].conf /\ Handled(c) = 0 /\ ~Begun(c)
  <2>1. c \in Chan
    BY DEF OwnChan, Chan
  <2>2. Calls(c) = 0 /\ Legs(c) = 0 /\ Acks(c) = 0
    BY <1>2 DEF Calls, Legs, Acks
  <2>3. ~Opened(c) /\ ~peer[c].conf
    BY <1>4, <2>1 DEF Opened
  <2>4. Owed(c) = 1
    BY <1>2, <2>3 DEF Owed
  <2> QED BY <2>2, <2>3, <2>4 DEF Handled, Begun
<1>6. Channels
  <2>1. ASSUME NEW c \in OwnChan PROVE ChanInv(c)
    BY <1>5 DEF ChanInv, Blank
  <2> QED BY <2>1 DEF Channels
<1>7. Asked = 0
  BY <1>2 DEF Asked
<1>8. Order
  BY <1>5, <1>7 DEF Order, Blank, OwnChan
<1>9. Searching
  BY <1>3, <1>7 DEF Searching, Blank
<1>10. Kept
  BY <1>7 DEF Kept, Blank
<1>11. Clear /\ NameFirst
  BY DEF Clear, NameFirst, Blank
<1>12. TypeOK
  <2>1. len \in [Search -> Nat] /\ \A k \in Search : len[k] <= Size(k)
    BY DEF Blank
  <2>2. [st |-> "closed", conf |-> FALSE, got |-> FALSE, chunks |-> 0]
          \in [st : {"closed", "asked", "open", "done"}, conf : BOOLEAN, got : BOOLEAN,
               chunks : 0 .. MaxChunks]
    <3>1. 0 \in 0 .. MaxChunks
      BY SetupAssumption
    <3> QED BY <3>1, Zenon
  <2>3. peer \in [Chan -> [st : {"closed", "asked", "open", "done"}, conf : BOOLEAN, got : BOOLEAN,
                           chunks : 0 .. MaxChunks]]
    BY <2>2, Zenon DEF Blank, Closed
  <2>4. /\ \A i \in 1 .. Len(rx) : rx[i].ch \in Chan
        /\ \A i \in 1 .. Len(tx) : tx[i].ch \in Chan
    BY DEF Blank
  <2> QED BY <2>1, <2>3, <2>4 DEF TypeOK, Blank, Phase, Ask, Flag
<1> QED BY <1>1, <1>6, <1>8, <1>9, <1>10, <1>11, <1>12 DEF SetupInv, Typed

(* And after a step that leads there. *)
LEMMA BlankNext == Blank' => SetupInv'
BY BlankHolds, PTL

(* BT_HCI_EVT_CONN_COMPLETE *)
LEMMA ConnKeeps == ASSUME SetupInv, NEW p \in BOOLEAN, ConnComplete(p) PROVE SetupInv'
<1>1. /\ ~up /\ up' = TRUE /\ page' = p /\ auth' = "no"
      /\ UNCHANGED <<named, asks, flags, dcid, sdp, len, have, init, rx, tx, peer, task, hist>>
  BY DEF ConnComplete, FirstAuth
<1>2. /\ ~named /\ asks = {} /\ flags = {} /\ have = {} /\ rx = <<>> /\ tx = <<>> /\ sdp = 0
      /\ peer = [c \in Chan |-> Closed] /\ (~raced => task.at = "idle")
  BY <1>1 DEF SetupInv, Clear, Kept
<1>3. /\ dcid \subseteq Chan /\ init \subseteq {"generic", "named"}
      /\ len \in [Search -> Nat] /\ \A k \in Search : len[k] <= Size(k)
      /\ task \in [at : {"idle", "parse", "check"}, old : BOOLEAN]
      /\ stalled \subseteq {"auth", "refused", "alloc"}
      /\ parsed \in BOOLEAN /\ raced \in BOOLEAN /\ named \in BOOLEAN
  BY DEF SetupInv, Typed, TypeOK
<1>4. Blank'
  <2>1. Closed' = Closed /\ \A k : Size(k)' = Size(k)
    BY DEF Closed, Size
  <2> QED BY <1>1, <1>2, <1>3, <2>1 DEF Blank, hist
<1> QED BY <1>4, BlankNext

(* A slot that is reset under the task, by the link or by the restart. *)
LEMMA GoneKeeps ==
    ASSUME SetupInv, Gone, raced' \in BOOLEAN, ~raced' => task'.at = "idle",
           task' \in [at : {"idle", "parse", "check"}, old : BOOLEAN]
    PROVE  SetupInv'
<1>1. len' \in [Search -> Nat] /\ \A k \in Search : len'[k] <= Size(k)
  BY SetupAssumption DEF Gone, Size
<1>2. Closed' = Closed /\ \A k : Size(k)' = Size(k)
  BY DEF Closed, Size
<1>3. Blank'
  BY <1>1, <1>2 DEF Blank, Gone
<1> QED BY <1>3, BlankNext

(* BT_HCI_EVT_DISCONN_COMPLETE, whatever the task is doing. *)
LEMMA DisconnKeeps == ASSUME SetupInv, DisconnComplete PROVE SetupInv'
<1>1. /\ task \in [at : {"idle", "parse", "check"}, old : BOOLEAN] /\ raced \in BOOLEAN
  BY DEF SetupInv, Typed, TypeOK
<1>2. Gone /\ raced' = (raced \/ task.at # "idle") /\ task' = task
  BY DEF DisconnComplete
<1> QED BY <1>1, <1>2, GoneKeeps

(* bt_host_task *)
LEMMA TaskKeeps == ASSUME SetupInv, HostTask PROVE SetupInv'
<1>1. task \in [at : {"idle", "parse", "check"}, old : BOOLEAN] /\ named \in BOOLEAN
  BY DEF SetupInv, Typed, TypeOK
<1>2. CASE TaskRead
  <2>1. /\ UNCHANGED <<up, page, named, auth, asks, flags, dcid, sdp, len, have, init, rx, tx, peer,
                       stalled, parsed, raced>>
        /\ "sdp_data" \in flags /\ task' = [at |-> "parse", old |-> named] /\ task.at = "idle"
    BY <1>2 DEF TaskRead, hostVars, hist
  <2>2. task' \in [at : {"idle", "parse", "check"}, old : BOOLEAN] /\ task'.at = "parse"
    BY <1>1, <2>1, Zenon
  <2>3. Steady /\ Asked' = Asked
    BY <2>1, QueuesSame DEF Steady
  <2>4. Kept'
    BY <2>1, <2>2, <2>3 DEF SetupInv, Kept
  <2>5. Typed' /\ NameFirst' /\ Clear'
    BY <2>1, <2>2 DEF SetupInv, Typed, TypeOK, NameFirst, Clear
  <2> QED BY <2>3, <2>4, <2>5, SteadyKeeps DEF SetupInv
<1>3. CASE TaskParse /\ IdsFound
  <2>1. /\ UNCHANGED <<up, page, named, auth, asks, flags, dcid, sdp, len, init, rx, tx, peer,
                       stalled, raced>>
        /\ have' \subseteq have /\ parsed' = TRUE /\ task.at = "parse"
        /\ task' = [task EXCEPT !.at = "check"]
    BY <1>3 DEF TaskParse
  <2>2. task' \in [at : {"idle", "parse", "check"}, old : BOOLEAN] /\ task'.at = "check"
    BY <1>1, <2>1
  <2>3. Steady /\ Asked' = Asked
    BY <2>1, QueuesSame DEF Steady
  <2>4. Kept'
    BY <2>1, <2>2, <2>3 DEF SetupInv, Kept, Searching
  <2>5. Typed' /\ NameFirst' /\ Clear'
    BY <2>1, <2>2 DEF SetupInv, Typed, TypeOK, NameFirst, Clear
  <2> QED BY <2>3, <2>4, <2>5, SteadyKeeps DEF SetupInv
<1>4. CASE TaskParse /\ ~IdsFound
  <2>1. Gone /\ raced' = FALSE /\ task' = [at |-> "idle", old |-> FALSE]
    BY <1>4 DEF TaskParse
  <2>2. task' \in [at : {"idle", "parse", "check"}, old : BOOLEAN] /\ task'.at = "idle"
    BY <2>1, Zenon
  <2> QED BY <2>1, <2>2, GoneKeeps
<1>5. CASE TaskCheck
  <2>1. /\ UNCHANGED <<up, page, named, auth, asks, dcid, sdp, len, have, rx, tx, peer,
                       stalled, parsed, raced>>
        /\ init' \subseteq init \cup {Typ} /\ flags' = flags \ {"sdp_data"}
        /\ task' = [at |-> "idle", old |-> FALSE] /\ task.at = "check"
    BY <1>5 DEF TaskCheck, hist
  <2>2. task' \in [at : {"idle", "parse", "check"}, old : BOOLEAN] /\ task'.at = "idle"
    BY <2>1, Zenon
  <2>3. Steady /\ Asked' = Asked
    BY <2>1, QueuesSame DEF Steady, Pendings
  <2>4. Kept'
    BY <2>1, <2>2, <2>3 DEF SetupInv, Kept, Searching
  <2>5. Typed' /\ NameFirst' /\ Clear'
    BY <2>1, <2>2 DEF SetupInv, Typed, TypeOK, NameFirst, Clear, Typ
  <2> QED BY <2>3, <2>4, <2>5, SteadyKeeps DEF SetupInv
<1> QED BY <1>2, <1>3, <1>4, <1>5 DEF HostTask

-----------------------------------------------------------------------------
(* The specification. *)

(* Every step of the system keeps the invariant.                            *)
LEMMA NextKeeps == ASSUME SetupInv, [Next]_vars PROVE SetupInv'
<1>1. CASE \E p \in BOOLEAN : ConnComplete(p)
  BY <1>1, ConnKeeps
<1>2. CASE NameComplete \/ RemoteFeatures \/ PeerPairs \/ Pairing
  BY <1>2, PairingSteps, AuthKeeps DEF Pairing
<1>3. CASE DisconnComplete
  BY <1>3, DisconnKeeps
<1>4. CASE HostMsg
  <2>1. CASE L2capConfReq \/ L2capConfRsp
    BY <2>1, ConfTakes, ConfWaits, ConfGoes
  <2>2. CASE L2capConnReq \/ L2capConnRsp
    BY <2>2, ConnReqKeeps, ConnRspKeeps
  <2>3. CASE L2capIgnored \/ L2capDisconnReq \/ SdpRequest
    BY <2>3, IgnoredKeeps
  <2>4. CASE SdpSearchRsp
    BY <2>4, AnswerSteps
  <2> QED BY <1>4, <2>1, <2>2, <2>3, <2>4 DEF HostMsg
<1>5. CASE HostTask
  BY <1>5, TaskKeeps
<1>6. CASE PeerRecv
  <2>1. \/ Head(tx).op = "conn_req" \/ Head(tx).op = "conf_req" \/ Head(tx).op = "sdp_req"
        \/ Head(tx).op \in {"conn_rsp", "conf_rsp", "disconn_req", "sdp_rsp", "disconn_rsp"}
    BY <1>6 DEF PeerRecv
  <2> QED BY <1>6, <2>1, PeerDecides, PeerConfigured, PeerAnswers, PeerQuiet
<1>7. CASE \E c \in Chan : PeerConf(c) \/ (c # "sdp_rx" /\ PeerOpen(c))
  BY <1>7, PeerConfKeeps, PeerOpens
<1>8. CASE PeerOpen("sdp_rx") \/ PeerAsk \/ PeerClose
  BY <1>8, PeerOwnKeeps
<1>9. CASE UNCHANGED vars
  <2>1. UNCHANGED <<up, page, named, auth, asks, flags, dcid, sdp, len, have, init, rx, tx, peer,
                    task, stalled, parsed, raced>>
    BY <1>9 DEF vars, hostVars, hist
  <2>2. Steady /\ Asked' = Asked
    BY <2>1, QueuesSame DEF Steady
  <2>3. Kept'
    BY <2>1, <2>2, KeptSame
  <2>4. Typed' /\ NameFirst' /\ Clear'
    BY <2>1 DEF SetupInv, Typed, TypeOK, NameFirst, Clear
  <2> QED BY <2>2, <2>3, <2>4, SteadyKeeps DEF SetupInv
<1> QED BY <1>1, <1>2, <1>3, <1>4, <1>5, <1>6, <1>7, <1>8, <1>9 DEF Next, Peer

(* What the connection of a controller keeps true.                          *)
THEOREM SetupInvariance == Spec => []SetupInv
<1>1. Init => SetupInv
  <2>1. ASSUME Init PROVE Blank
    <3>1. len \in [Search -> Nat] /\ \A k \in Search : len[k] <= Size(k)
      BY <2>1, SetupAssumption DEF Init, Size
    <3>2. task.at = "idle" /\ task \in [at : {"idle", "parse", "check"}, old : BOOLEAN]
      <4>1. task = [at |-> "idle", old |-> FALSE]
        BY <2>1 DEF Init
      <4> QED BY <4>1, Zenon
    <3> QED BY <2>1, <3>1, <3>2 DEF Init, Blank
  <2> QED BY <2>1, BlankHolds
<1>2. SetupInv /\ [Next]_vars => SetupInv'
  BY NextKeeps
<1> QED BY <1>1, <1>2, PTL DEF Spec

(* bt_host_task finds BT_DEV_SDP_DATA only with both records complete and   *)
(* in memory, unless a slot was reset under it, and no record is longer     *)
(* than its buffer.                                                         *)
THEOREM RecordsReady == Spec => []DataComplete
<1>1. SetupInv => DataComplete
  BY DEF SetupInv, Typed, Searching, Kept, DataComplete
<1> QED BY <1>1, SetupInvariance, PTL

(* BT_SDP_SVC_SEARCH_ATTR_RSP appends every response to the record of the   *)
(* search that it answers.                                                  *)
THEOREM AnswersMatch == Spec => AnswerMatches
<1>1. SetupInv /\ [Next]_vars => [SdpSearchRsp => Head(rx).search = sdp]_vars
  <2>1. ASSUME SetupInv, SdpSearchRsp PROVE Head(rx).search = sdp
    BY <2>1, OneAnswer DEF SdpSearchRsp, Got
  <2> QED BY <2>1
<1> QED BY <1>1, SetupInvariance, PTL DEF Spec, AnswerMatches

(* BT_HCI_EVT_PIN_CODE_REQ of a controller we connected to comes when the   *)
(* type that the code depends on was set from its name.                     *)
THEOREM PinKnown == Spec => PinTyped
<1>1. SetupInv /\ [Next]_vars => [PinCodeReq /\ ~page => named]_vars
  <2>1. ASSUME SetupInv, PinCodeReq, ~page PROVE named
    BY <2>1 DEF SetupInv, NameFirst, PinCodeReq
  <2> QED BY <2>1
<1> QED BY <1>1, SetupInvariance, PTL DEF Spec, PinTyped
=============================================================================
