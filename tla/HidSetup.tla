------------------------------ MODULE HidSetup ------------------------------
(***************************************************************************)
(* From the connection of a BR/EDR controller to its first report: name,    *)
(* features, pairing and encryption (bluetooth/hci.c), the L2CAP channels   *)
(* (bluetooth/l2cap.c), the two SDP searches (bluetooth/sdp.c), and         *)
(* bt_host_task that parses their result (bluetooth/host.c).  One slot of   *)
(* bt_dev[] is modelled: the state of the slots is separate.                *)
(*                                                                         *)
(* A controller that was found by inquiry has its channels opened by the    *)
(* host, one after the other; one that connected by itself (BT_DEV_PAGE)    *)
(* opens them.  L2CAP delivers the messages of a link in order.  Each       *)
(* channel is configured in both directions; whichever of the controller's  *)
(* request and its response comes second starts what is next.               *)
(*                                                                         *)
(* The events are handled in the callback of the Bluetooth controller,      *)
(* which interrupts bt_host_task anywhere.  Commands that the Bluetooth     *)
(* controller answers on its own time (features, role, encryption) are      *)
(* answered in any order; pairing asks the host one question after another. *)
(* A controller that paged us may pair before it opens its channels, and    *)
(* before its name is known too.                                            *)
(***************************************************************************)
EXTENDS Integers, Sequences

CONSTANTS
    SdpSize,     \* BT_SDP_DATA_SIZE, in units of data
    PnpSize,     \* BT_PNP_DATA_SIZE
    MaxChunk,    \* longest attribute list of one SDP response, in units
    MaxChunks    \* bound on the responses of one search

ASSUME SetupAssumption ==
    /\ SdpSize \in Nat \ {0}
    /\ PnpSize \in Nat \ {0}
    /\ MaxChunk \in Nat \ {0}
    /\ MaxChunks \in Nat \ {0}

VARIABLES
    up,       \* the link is up and the slot in use
    page,     \* BT_DEV_PAGE
    named,    \* ids.type was set from the name
    auth,     \* pairing: the next question to the host, or "no" or "done"
    asks,     \* commands sent to the Bluetooth controller whose answer is used
    flags,    \* flags of the slot
    dcid,     \* channels whose dcid the controller told
    sdp,      \* sdp_state
    len,      \* sdp_len and pnp_len
    have,     \* whether sdp_data and pnp_data are allocated
    init,     \* types bt_hid_init ran with
    rx,       \* L2CAP messages on their way to the host
    tx,       \* L2CAP messages on their way to the controller
    peer,     \* controller: state of its end of each channel
    task,     \* bt_host_task: where it is, and old_type
    stalled,  \* history: what failed with nobody to try again
    parsed,   \* history: the task parsed the data of this connection
    raced     \* history: a slot was reset under the task

hostVars == <<up, page, named, auth, asks, flags, dcid, sdp, len, have, init>>
hist == <<stalled, parsed, raced>>
vars == <<hostVars, rx, tx, peer, task, hist>>

Chan == {"sdp", "sdp_rx", "ctrl", "intr"}   \* "sdp" is sdp_tx_chan
Flag == {"sdp_tx_pending", "ctrl_pending", "intr_pending", "intr_ready", "sdp_data",
         "encryption"}
Ask == {"features"}
Phase == {"no", "link_key", "new_key", "confirm", "complete", "done", "encrypted"}
Search == {0, 1}    \* the searches: all of L2CAP, and PnP information

Msg(op, c) == [op |-> op, ch |-> c]
Size(k) == IF k = 0 THEN SdpSize ELSE PnpSize
Response(k, n, more) == [op |-> "sdp_rsp", ch |-> "sdp", search |-> k, n |-> n, more |-> more]

TypeOK ==
    /\ up \in BOOLEAN /\ page \in BOOLEAN /\ named \in BOOLEAN
    /\ auth \in Phase /\ asks \subseteq Ask
    /\ flags \subseteq Flag
    /\ dcid \subseteq Chan
    /\ sdp \in {0, 1}
    /\ len \in [Search -> Nat] /\ \A k \in Search : len[k] <= Size(k)
    /\ have \subseteq Search
    /\ init \subseteq {"generic", "named"}
    /\ \A i \in 1 .. Len(rx) : rx[i].ch \in Chan
    /\ \A i \in 1 .. Len(tx) : tx[i].ch \in Chan
    /\ peer \in [Chan -> [st : {"closed", "asked", "open", "done"}, conf : BOOLEAN, got : BOOLEAN,
                          chunks : 0 .. MaxChunks]]
    /\ task \in [at : {"idle", "parse", "check"}, old : BOOLEAN]
    /\ stalled \subseteq {"auth", "refused", "alloc"}
    /\ parsed \in BOOLEAN /\ raced \in BOOLEAN

Closed == [st |-> "closed", conf |-> FALSE, got |-> FALSE, chunks |-> 0]

(* bt_host_reset_dev, and the link with it.  The pointers to the buffers are*)
(* zeroed, not freed.                                                       *)
Gone ==
    /\ up' = FALSE /\ page' = FALSE /\ named' = FALSE /\ auth' = "no" /\ asks' = {}
    /\ flags' = {} /\ dcid' = {} /\ sdp' = 0
    /\ len' = [k \in Search |-> 0] /\ have' = {} /\ init' = {}
    /\ rx' = <<>> /\ tx' = <<>>
    /\ peer' = [c \in Chan |-> Closed]
    /\ stalled' = {} /\ parsed' = FALSE

Init ==
    /\ up = FALSE /\ page = FALSE /\ named = FALSE /\ auth = "no" /\ asks = {}
    /\ flags = {} /\ dcid = {} /\ sdp = 0
    /\ len = [k \in Search |-> 0] /\ have = {} /\ init = {}
    /\ rx = <<>> /\ tx = <<>>
    /\ peer = [c \in Chan |-> Closed]
    /\ task = [at |-> "idle", old |-> FALSE]
    /\ stalled = {} /\ parsed = FALSE /\ raced = FALSE

-----------------------------------------------------------------------------
(* HCI events. *)

(* Mutant: authentication does not wait for the name. *)
FirstAuthEarly(p) == IF p THEN "no" ELSE "link_key"

(* BT_HCI_EVT_CONN_COMPLETE asks for the name only. *)
FirstAuth(p) == "no"

(* BT_HCI_EVT_CONN_COMPLETE *)
ConnComplete(p) ==
    /\ ~up
    /\ up' = TRUE /\ page' = p /\ auth' = FirstAuth(p)
    /\ UNCHANGED <<named, asks, flags, dcid, sdp, len, have, init, rx, tx, peer, task, hist>>

(* BT_HCI_EVT_REMOTE_NAME_REQ_COMPLETE: bt_hid_set_type_flags_from_name, the*)
(* features of a generic or Switch controller (the role of a PS3 or Wii U   *)
(* controller, too, but nobody reads the answer), and authentication of a   *)
(* controller we connected to.                                              *)
NameComplete ==
    /\ up /\ ~named
    /\ named' = TRUE
    /\ asks' \in SUBSET {"features"}
    /\ auth' = IF page THEN auth ELSE "link_key"
    /\ UNCHANGED <<up, page, flags, dcid, sdp, len, have, init, rx, tx, peer, task, hist>>

(* BT_HCI_EVT_REMOTE_FEATURES: BT_DEV_ENCRYPTION.  The extended features and*)
(* the feature mask of L2CAP that it asks for are read by nobody.           *)
RemoteFeatures ==
    /\ "features" \in asks
    /\ asks' = {}
    /\ \E f \in SUBSET {"encryption"} : flags' = flags \cup f
    /\ UNCHANGED <<up, page, named, auth, dcid, sdp, len, have, init, rx, tx, peer, task, hist>>

(* External: a controller that paged us begins to pair. *)
PeerPairs ==
    /\ up /\ page /\ auth = "no" /\ peer["ctrl"].st = "closed"
    /\ auth' = "link_key"
    /\ UNCHANGED <<up, page, named, asks, flags, dcid, sdp, len, have, init, rx, tx, peer, task, hist>>

unchangedByPairing == <<up, page, named, asks, flags, dcid, sdp, len, have, init, rx, tx, peer, task>>

(* BT_HCI_EVT_LINK_KEY_REQ: only a controller that paged us is given a      *)
(* stored key; any other is told that there is none.                        *)
LinkKeyReq ==
    /\ auth = "link_key"
    /\ \/ page /\ auth' = "complete"
       \/ auth' = "new_key"
    /\ UNCHANGED <<unchangedByPairing, hist>>

(* The type as it is now. *)
Typ == IF named THEN "named" ELSE "generic"

(* BT_HCI_EVT_PIN_CODE_REQ: the code depends on the type. *)
PinCodeReq ==
    /\ auth = "new_key"
    /\ auth' = "complete"
    /\ UNCHANGED <<unchangedByPairing, hist>>

(* BT_HCI_EVT_IO_CAPA_REQ *)
IoCapaReq ==
    /\ auth = "new_key"
    /\ auth' = "confirm"
    /\ UNCHANGED <<unchangedByPairing, hist>>

(* BT_HCI_EVT_USER_CONFIRM_REQ: always confirmed. *)
UserConfirmReq ==
    /\ auth = "confirm"
    /\ auth' = "complete"
    /\ UNCHANGED <<unchangedByPairing, hist>>

(* BT_HCI_EVT_AUTH_COMPLETE, which only the side that asked gets:           *)
(* encryption if the features are known to have it, and the first channel;  *)
(* or nothing, when any part of it failed.                                  *)
AuthComplete ==
    /\ ~page /\ auth \notin {"no", "done", "encrypted"}
    /\ \/ /\ auth = "complete"
          /\ auth' = IF "encryption" \in flags THEN "encrypted" ELSE "done"
          /\ tx' = Append(tx, Msg("conn_req", "ctrl"))
          /\ UNCHANGED stalled
       \/ /\ auth' = "done"
          /\ stalled' = stalled \cup {"auth"}
          /\ UNCHANGED tx
    /\ UNCHANGED <<up, page, named, asks, flags, dcid, sdp, len, have, init, rx, peer, task, parsed, raced>>

Pairing == LinkKeyReq \/ PinCodeReq \/ IoCapaReq \/ UserConfirmReq \/ AuthComplete

(* BT_HCI_EVT_DISCONN_COMPLETE, whatever the task is doing. *)
DisconnComplete ==
    /\ up
    /\ Gone
    /\ raced' = (raced \/ task.at # "idle")
    /\ UNCHANGED task

-----------------------------------------------------------------------------
(* bt_l2cap_sig_hdlr and bt_sdp_hdlr: the message at the head of rx. *)

Got(op) == rx # <<>> /\ Head(rx).op = op
Ch == Head(rx).ch
unchangedByMsg == <<up, page, named, auth, asks, peer, task>>

(* BT_L2CAP_CONN_REQ: PSMs of the channels a controller may open. *)
L2capConnReq ==
    /\ Got("conn_req")
    /\ dcid' = dcid \cup {Ch}
    /\ tx' = tx \o <<Msg("conn_rsp", Ch), Msg("conf_req", Ch)>>
    /\ rx' = Tail(rx)
    /\ UNCHANGED <<unchangedByMsg, flags, sdp, len, have, init, hist>>

(* BT_L2CAP_CONN_RSP, successful. *)
L2capConnRsp ==
    /\ Got("conn_rsp")
    /\ dcid' = dcid \cup {Ch}
    /\ tx' = Append(tx, Msg("conf_req", Ch))
    /\ rx' = Tail(rx)
    /\ UNCHANGED <<unchangedByMsg, flags, sdp, len, have, init, hist>>

(* BT_L2CAP_CONN_RSP, pending or refused, and the responses to other        *)
(* requests are ignored.                                                    *)
L2capIgnored ==
    /\ rx # <<>> /\ Head(rx).op \in {"conn_pend", "conn_refused", "disconn_rsp"}
    /\ rx' = Tail(rx)
    /\ stalled' = IF Got("conn_refused") THEN stalled \cup {"refused"} ELSE stalled
    /\ UNCHANGED <<unchangedByMsg, flags, dcid, sdp, len, have, init, tx, parsed, raced>>

(* The flag that the first of the two configuration messages sets. *)
Pending(c) == CASE c = "sdp" -> "sdp_tx_pending"
                [] c = "ctrl" -> "ctrl_pending"
                [] c = "intr" -> "intr_pending"

(* Mutant: only the channels that the host opened. *)
AdvancesOwn(c) == c # "sdp_rx" /\ ~page

(* The channels whose second configuration message starts something. *)
Advances(c) == c \in {"sdp", "intr"} \/ (c = "ctrl" /\ ~page)

(* Mutant: what is next does not wait for the second message. *)
ReadyAlways(c) == TRUE

(* The other configuration message of the channel was there before. *)
Ready(c) == Pending(c) \in flags

(* What it starts: the interrupt channel after the control channel, SDP     *)
(* after the interrupt channel, the search after the SDP channel.           *)
Started(c) == CASE c = "ctrl" -> <<Msg("conn_req", "intr")>>
                [] c = "intr" -> <<Msg("conn_req", "sdp")>>
                [] c = "sdp" -> <<[op |-> "sdp_req", ch |-> "sdp", search |-> 0]>>

(* What follows the answer out to a configuration message of channel c. *)
Advance(c, out) ==
    IF ~Advances(c)
    THEN /\ tx' = tx \o out
         /\ UNCHANGED <<flags, init>>
    ELSE IF ~Ready(c)
    THEN /\ flags' = flags \cup {Pending(c)}
         /\ tx' = tx \o out
         /\ UNCHANGED init
    ELSE /\ tx' = tx \o out \o Started(c)
         /\ flags' = IF c = "intr" THEN flags \cup {"intr_ready"} ELSE flags
         /\ init' = IF c = "intr" THEN init \cup {Typ} ELSE init

(* BT_L2CAP_CONF_REQ *)
L2capConfReq ==
    /\ Got("conf_req")
    /\ Advance(Ch, <<Msg("conf_rsp", Ch)>>)
    /\ rx' = Tail(rx)
    /\ UNCHANGED <<unchangedByMsg, dcid, sdp, len, have, stalled, parsed, raced>>

(* BT_L2CAP_CONF_RSP *)
L2capConfRsp ==
    /\ Got("conf_rsp")
    /\ Advance(Ch, <<>>)
    /\ rx' = Tail(rx)
    /\ UNCHANGED <<unchangedByMsg, dcid, sdp, len, have, stalled, parsed, raced>>

(* BT_L2CAP_DISCONN_REQ is answered, and nothing else changes. *)
L2capDisconnReq ==
    /\ Got("disconn_req")
    /\ tx' = Append(tx, Msg("disconn_rsp", Ch))
    /\ rx' = Tail(rx)
    /\ UNCHANGED <<unchangedByMsg, flags, dcid, sdp, len, have, init, hist>>

(* BT_SDP_SVC_SEARCH_REQ and the other requests of a controller: each is    *)
(* answered at once with constant data.                                     *)
SdpRequest ==
    /\ Got("sdp_req")
    /\ tx' = Append(tx, Msg("sdp_rsp", "sdp_rx"))
    /\ rx' = Tail(rx)
    /\ UNCHANGED <<unchangedByMsg, flags, dcid, sdp, len, have, init, hist>>

(* How much of n units is copied: what is left of the buffer. *)
CopyLen(k, n) == IF n > Size(k) - len[k] THEN Size(k) - len[k] ELSE n

(* Mutant: the data is handed over after the first record already. *)
LastSearchAny(k) == TRUE

(* No search follows that for the PnP record. *)
LastSearch(k) == k = 1

(* BT_SDP_SVC_SEARCH_ATTR_RSP: append the data, ask for the rest, for the   *)
(* other record, or close the channel.  When malloc fails the search stops. *)
SdpSearchRsp ==
    /\ Got("sdp_rsp")
    /\ LET m == Head(rx)
           k == sdp
           last == ~m.more
           req(j) == [op |-> "sdp_req", ch |-> "sdp", search |-> j]
       IN  \/ /\ len' = [len EXCEPT ![k] = @ + CopyLen(k, m.n)]
              /\ have' = have \cup {k}
              /\ tx' = Append(tx, IF ~last THEN req(k)
                                  ELSE IF LastSearch(k) THEN Msg("disconn_req", "sdp")
                                  ELSE req(k + 1))
              /\ sdp' = IF last /\ ~LastSearch(k) THEN k + 1 ELSE sdp
              /\ flags' = IF last /\ LastSearch(k) THEN flags \cup {"sdp_data"} ELSE flags
              /\ UNCHANGED stalled
           \/ /\ k \notin have
              /\ stalled' = stalled \cup {"alloc"}
              /\ UNCHANGED <<len, have, tx, sdp, flags>>
    /\ rx' = Tail(rx)
    /\ UNCHANGED <<unchangedByMsg, dcid, init, parsed, raced>>

HostMsg == \/ L2capConnReq \/ L2capConnRsp \/ L2capIgnored
           \/ L2capConfReq \/ L2capConfRsp \/ L2capDisconnReq
           \/ SdpRequest \/ SdpSearchRsp

-----------------------------------------------------------------------------
(* bt_host_task.  TRUE stands for a type that was set from the name. *)

(* It finds BT_DEV_SDP_DATA set. *)
TaskRead ==
    /\ task.at = "idle"
    /\ up /\ "sdp_data" \in flags
    /\ task' = [at |-> "parse", old |-> named]
    /\ UNCHANGED <<hostVars, rx, tx, peer, hist>>

(* bt_sdp_parser: the ids are read from the PnP data, which is freed, and   *)
(* the HID descriptor from the other, which is freed if it has one.  Where  *)
(* the ids are not found a null pointer is read: the system starts again.   *)
IdsFound == 1 \in have /\ len[1] > 0

TaskParse ==
    /\ task.at = "parse"
    /\ \/ /\ IdsFound
          /\ have' \in {{}, have \ {1}}
          /\ parsed' = TRUE
          /\ task' = [task EXCEPT !.at = "check"]
          /\ UNCHANGED <<up, page, named, auth, asks, flags, dcid, sdp, len, init, rx, tx, peer,
                         stalled, raced>>
       \/ /\ ~IdsFound
          /\ Gone
          /\ raced' = FALSE
          /\ task' = [at |-> "idle", old |-> FALSE]

(* bt_hid_init if the type has changed, and the flag is cleared. *)
TaskCheck ==
    /\ task.at = "check"
    /\ init' = IF task.old # named /\ "intr_ready" \in flags THEN init \cup {Typ} ELSE init
    /\ flags' = flags \ {"sdp_data"}
    /\ task' = [at |-> "idle", old |-> FALSE]
    /\ UNCHANGED <<up, page, named, auth, asks, dcid, sdp, len, have, rx, tx, peer, hist>>

HostTask == TaskRead \/ TaskParse \/ TaskCheck

-----------------------------------------------------------------------------
(* The controller (external): a regular L2CAP peer. *)

Configured(c) == peer[c].conf /\ peer[c].got

(* A controller that paged us opens the control channel, and the interrupt  *)
(* channel when that is configured; any controller may open one for SDP, but*)
(* (a bound) not while the Bluetooth controller reads its features.         *)
PeerOpen(c) ==
    /\ up /\ peer[c].st = "closed"
    /\ \/ page /\ c = "ctrl" /\ auth \in {"no", "complete"}
       \/ page /\ c = "intr" /\ Configured("ctrl")
       \/ c = "sdp_rx" /\ asks = {}
    /\ peer' = [peer EXCEPT ![c].st = "asked"]
    /\ rx' = Append(rx, Msg("conn_req", c))
    /\ UNCHANGED <<hostVars, tx, task, hist>>

(* It sends its configuration request once the channel is open. *)
PeerConf(c) ==
    /\ peer[c].st = "open" /\ ~peer[c].conf
    /\ peer' = [peer EXCEPT ![c].conf = TRUE]
    /\ rx' = Append(rx, Msg("conf_req", c))
    /\ UNCHANGED <<hostVars, tx, task, hist>>

(* It makes an SDP request. *)
PeerAsk ==
    /\ Configured("sdp_rx") /\ peer["sdp_rx"].chunks = 0
    /\ peer' = [peer EXCEPT !["sdp_rx"].chunks = 1]
    /\ rx' = Append(rx, Msg("sdp_req", "sdp_rx"))
    /\ UNCHANGED <<hostVars, tx, task, hist>>

(* It closes the channel when it has what it wanted. *)
PeerClose ==
    /\ peer["sdp_rx"].st = "open" /\ peer["sdp_rx"].chunks = 1
    /\ peer' = [peer EXCEPT !["sdp_rx"].st = "done"]
    /\ rx' = Append(rx, Msg("disconn_req", "sdp_rx"))
    /\ UNCHANGED <<hostVars, tx, task, hist>>

(* It answers a connection request: at once, after "pending", or with no. *)
PeerConnReq(c) ==
    \/ /\ peer' = [peer EXCEPT ![c].st = "open"]
       /\ \E p \in {<<>>, <<Msg("conn_pend", c)>>} : rx' = rx \o p \o <<Msg("conn_rsp", c)>>
    \/ rx' = Append(rx, Msg("conn_refused", c)) /\ UNCHANGED peer

(* It answers a search with a part of its records. *)
PeerSearch(m) ==
    \E n \in 0 .. MaxChunk, more \in BOOLEAN :
        /\ more => peer["sdp"].chunks + 1 < MaxChunks
        /\ peer' = [peer EXCEPT !["sdp"].chunks = IF more THEN @ + 1 ELSE 0]
        /\ rx' = Append(rx, Response(m.search, n, more))

PeerRecv ==
    /\ tx # <<>>
    /\ LET m == Head(tx) c == m.ch
       IN  \/ m.op = "conn_req" /\ PeerConnReq(c)
           \/ m.op = "conn_rsp" /\ peer' = [peer EXCEPT ![c].st = "open"] /\ UNCHANGED rx
           \/ m.op = "conf_req" /\ rx' = Append(rx, Msg("conf_rsp", c)) /\ UNCHANGED peer
           \/ m.op = "conf_rsp" /\ peer' = [peer EXCEPT ![c].got = TRUE] /\ UNCHANGED rx
           \/ m.op = "sdp_req" /\ PeerSearch(m)
           \/ m.op = "disconn_req" /\ rx' = Append(rx, Msg("disconn_rsp", c)) /\ UNCHANGED peer
           \/ m.op \in {"sdp_rsp", "disconn_rsp"} /\ UNCHANGED <<rx, peer>>
    /\ tx' = Tail(tx)
    /\ UNCHANGED <<hostVars, task, hist>>

Peer == PeerRecv \/ \E c \in Chan : PeerConf(c) \/ (c # "sdp_rx" /\ PeerOpen(c))

-----------------------------------------------------------------------------
Next ==
    \/ \E p \in BOOLEAN : ConnComplete(p)
    \/ NameComplete \/ RemoteFeatures \/ PeerPairs \/ Pairing \/ DisconnComplete
    \/ HostMsg \/ HostTask \/ Peer
    \/ PeerOpen("sdp_rx") \/ PeerAsk \/ PeerClose

Spec == Init /\ [][Next]_vars

(* The Bluetooth controller answers, messages arrive, the task is scheduled *)
(* and the peer goes on with what it began.                                 *)
FairSpec == /\ Spec
            /\ WF_vars(NameComplete) /\ WF_vars(RemoteFeatures) /\ WF_vars(Pairing)
            /\ WF_vars(HostMsg) /\ WF_vars(HostTask) /\ WF_vars(Peer)

-----------------------------------------------------------------------------
(* Safety. *)

(* The PIN code a controller we connected to is given is that of its type:  *)
(* PIN_CODE_REQ reads a type that the name sets, and pairing waits for it.  *)
(* A controller that paged us may be asked for it too early.                *)
PinTyped == [][PinCodeReq /\ ~page => named]_vars

(* Every SDP response is appended to the record of the search it answers,   *)
(* although nothing but sdp_state tells them apart.                         *)
AnswerMatches == [][SdpSearchRsp => Head(rx).search = sdp]_vars

(* When the task finds BT_DEV_SDP_DATA, both records are complete and in    *)
(* memory, unless a slot was reset under it; and at all times the variables *)
(* have their types, so that no record is longer than its buffer.           *)
DataComplete ==
    /\ TypeOK
    /\ "sdp_data" \in flags /\ task.at = "idle" /\ ~raced => have = Search /\ sdp = 1

(* The comment at the task says that it parses SDP data "if available": the *)
(* records are there when it parses them.                                   *)
ParsesAvailable == [][TaskParse => have = Search]_vars

(* Liveness. *)

(* A connection that lasts gets its channels configured and its SDP data    *)
(* parsed, unless something failed that nobody tries again, or the task     *)
(* cleared the flag of a connection it had not looked at.                   *)
SetUp == up ~> (~up \/ stalled # {} \/ raced \/ (parsed /\ "intr_ready" \in flags))
=============================================================================
