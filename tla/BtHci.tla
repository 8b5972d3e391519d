------------------------------- MODULE BtHci --------------------------------
(***************************************************************************)
(* Discovery, connection and disconnection of controllers: the HCI event    *)
(* handlers of bluetooth/hci.c that allocate and free slots of the device   *)
(* table, the inquiry, scan and advertising modes they request, and the     *)
(* configuration client's connection (bt_dev_conf).                         *)
(*                                                                         *)
(* The handlers run one at a time in the controller's callback              *)
(* (bt_host_rx_pkt), so an event and its handler are one action.  The       *)
(* Bluetooth controller is external: commands the host queues are kept as    *)
(* outstanding (pend, nameq) until the controller answers them, in any      *)
(* order across addresses, and mode changes reach it late (ctl).            *)
(*                                                                         *)
(* Init is the state after bt_hci_config[] ran to its end with nobody       *)
(* connected.  Pairing, L2CAP and HID set-up of a connected device do not   *)
(* change the variables of this module.                                     *)
(***************************************************************************)
EXTENDS BtDevTable

CONSTANTS
    LeAddr,       \* the addresses of Addr that are Bluetooth LE
    LeHandle,     \* the handles of Handle used for LE links
    LeLowest,     \* the controller hands out the lowest free LE handle
    InqAuto,      \* config.global_cfg.inquiry_mode == INQ_AUTO
    InquiryMax,   \* BT_INQUIRY_MAX
    NameBound     \* bound on outstanding name requests per address

ASSUME HciAssumption ==
    /\ LeAddr \subseteq Addr
    /\ LeHandle \subseteq Handle
    /\ LeLowest \in BOOLEAN
    /\ InqAuto \in BOOLEAN
    /\ InquiryMax \in Nat
    /\ NameBound \in Nat \ {0}

BrAddr == Addr \ LeAddr
BrHandle == Handle \ LeHandle

VARIABLES
    dev,      \* bt_dev[]
    conf,     \* bt_dev_conf: found flag and acl_handle
    inq,      \* inquiry_state
    nbInq,    \* bt_nb_inquiry
    scan,     \* LE scan mode last requested
    adv,      \* LE advertising last requested, and still on
    link,     \* controller: state of the ACL link with each address
    hdl,      \* controller: handle of each link that is up
    confHdl,  \* controller: handle of the configuration client's link
    pend,     \* commands to connect that the controller has not answered
    nameq,    \* remote name requests that the controller has not answered
    ctl,      \* modes the controller is really in
    dropped,  \* history: addresses that no answer will reach (see NoStuckSlot)
    lost      \* history: LE devices a disconnection of another link reset

hostVars == <<dev, conf, inq, nbInq, scan, adv>>
linkVars == <<link, hdl, confHdl>>
cmdVars == <<pend, nameq, ctl>>
history == <<dropped, lost>>
vars == <<hostVars, linkVars, cmdVars, history>>

NoHandle == -1    \* the controller's word for no link; the host has none

ScanMode == {"off", "active", "passive"}
LinkState == {"down", "offered", "up"}
Cmd == {"connect", "accept", "le_create"}

TypeOK ==
    /\ dev \in [Slots -> DevRec]
    /\ conf \in [found : BOOLEAN, handle : LeHandle \cup {0}]
    /\ inq \in BOOLEAN
    /\ nbInq \in 0 .. InquiryMax + 1
    /\ scan \in ScanMode
    /\ adv \in BOOLEAN
    /\ link \in [Addr -> LinkState]
    /\ hdl \in [Addr -> Handle \cup {NoHandle}]
    /\ confHdl \in LeHandle \cup {NoHandle}
    /\ pend \in [Addr -> SUBSET Cmd]
    /\ nameq \in [Addr -> 0 .. NameBound]
    /\ ctl \in [inq : BOOLEAN, scan : BOOLEAN]
    /\ dropped \in SUBSET Addr
    /\ lost \in SUBSET LeAddr

Init ==
    /\ dev = [i \in Slots |-> ResetDev]
    /\ conf = [found |-> FALSE, handle |-> 0]
    /\ inq = InqAuto
    /\ nbInq = 0
    /\ scan = IF InqAuto THEN "active" ELSE "passive"
    /\ adv = TRUE
    /\ link = [a \in Addr |-> "down"]
    /\ hdl = [a \in Addr |-> NoHandle]
    /\ confHdl = NoHandle
    /\ pend = [a \in Addr |-> {}]
    /\ nameq = [a \in Addr |-> 0]
    /\ ctl = [inq |-> FALSE, scan |-> FALSE]
    /\ dropped = {}
    /\ lost = {}

-----------------------------------------------------------------------------
(* Helpers of the handlers. *)

NoActive(t) == GetActiveDev(t) = NoSlot

(* bt_hci_start_inquiry; inquiry_override is never set by this firmware. *)
StartInquiry == /\ inq' = TRUE
                /\ nbInq' = 0
                /\ scan' = "active"

(* bt_hci_stop_inquiry *)
StopInquiry == /\ inq' = FALSE
               /\ scan' = "passive"

(* bt_hci_cmd_le_set_adv_disable, and its mutant: the call is missing. *)
KeepAdv == UNCHANGED adv
DisableAdv == adv' = FALSE

(* Mutant: the table is looked at before the slot is reset. *)
RestartIfIdleEarly(t) ==
    IF InqAuto /\ NoActive(dev) THEN StartInquiry
                                ELSE UNCHANGED <<inq, nbInq, scan>>

(* Restart discovery once the table t is empty, in automatic mode. *)
RestartIfIdle(t) ==
    IF InqAuto /\ NoActive(t) THEN StartInquiry
                              ELSE UNCHANGED <<inq, nbInq, scan>>

(* The same after an LE connection failed, which has the scan to turn on.   *)
ResumeScan(t) ==
    IF InqAuto /\ NoActive(t) THEN StartInquiry
                              ELSE scan' = "passive" /\ UNCHANGED <<inq, nbInq>>

(* Queue command c for address a.  The controller refuses one that it is    *)
(* already carrying out: one answer then serves for both.                   *)
Send(a, c) == /\ pend' = [pend EXCEPT ![a] = @ \cup {c}]
              /\ dropped' = dropped \ {a}

UsedHandles == {hdl[a] : a \in {b \in Addr : link[b] = "up"}} \cup {confHdl}

(* Controller: a free LE handle, the lowest one if LeLowest (external).     *)
FreeLe(h) == /\ h \in LeHandle \ UsedHandles
             /\ LeLowest => \A g \in LeHandle \ UsedHandles : h <= g

(* Controller: any free BR/EDR handle (external). *)
FreeBr(h) == h \in BrHandle \ UsedHandles

-----------------------------------------------------------------------------
(* Discovery. *)

(* BT_HCI_EVT_INQUIRY_COMPLETE.  bt_nb_inquiry is only ever compared with   *)
(* BT_INQUIRY_MAX, so it saturates one above.                               *)
InquiryComplete ==
    /\ ctl.inq
    /\ LET n == IF nbInq > InquiryMax THEN nbInq ELSE nbInq + 1
       IN  /\ nbInq' = n
           /\ IF ~NoActive(dev) /\ n > InquiryMax
              THEN StopInquiry
              ELSE UNCHANGED <<inq, scan>>
    /\ UNCHANGED <<dev, conf, adv, linkVars, cmdVars, history>>

(* BT_HCI_EVT_INQUIRY_RESULT and its two variants: the first result. *)
InquiryResult(a) ==
    /\ ctl.inq
    /\ a \in BrAddr /\ link[a] = "down"
    /\ GetDevFromBdaddr(dev, a) = NoSlot
    /\ LET i == GetNewDev(dev)
       IN  /\ i # NoSlot
           /\ dev' = [dev EXCEPT ![i] = NewDev(a, FALSE)]
    /\ Send(a, "connect")
    /\ UNCHANGED <<conf, inq, nbInq, scan, adv, linkVars, nameq, ctl, lost>>

(* BT_HCI_EVT_CONN_REQUEST: the request of a known address, or one that     *)
(* finds the table full, is left to the controller's accept timeout.        *)
ConnRequest(a) ==
    /\ a \in BrAddr /\ link[a] = "down"
    /\ link' = [link EXCEPT ![a] = "offered"]
    /\ LET i == GetNewDev(dev)
       IN  IF GetDevFromBdaddr(dev, a) = NoSlot /\ i # NoSlot
           THEN /\ dev' = [dev EXCEPT ![i] = NewDev(a, TRUE)]
                /\ Send(a, "accept")
           ELSE UNCHANGED <<dev, pend, dropped>>
    /\ UNCHANGED <<conf, inq, nbInq, scan, adv, hdl, confHdl, nameq, ctl, lost>>

(* BT_HCI_EVT_LE_ADVERTISING_REPORT of a device that passes the filter. *)
LeAdvReport(a) ==
    /\ ctl.scan
    /\ a \in LeAddr /\ link[a] = "down"
    /\ GetDevFromBdaddr(dev, a) = NoSlot
    /\ LET i == GetNewDev(dev)
       IN  /\ i # NoSlot
           /\ dev' = [dev EXCEPT ![i] = NewDev(a, FALSE)]
    /\ scan' = "off"
    /\ DisableAdv
    /\ Send(a, "le_create")
    /\ UNCHANGED <<conf, inq, nbInq, linkVars, nameq, ctl, lost>>

-----------------------------------------------------------------------------
(* Connection. *)

(* The link comes up: the page succeeds, or the host's accept completes. *)
LinkUp(a, h) ==
    /\ \/ /\ "connect" \in pend[a] /\ link[a] = "down"
          /\ pend' = [pend EXCEPT ![a] = @ \ {"connect"}]
       \/ /\ "accept" \in pend[a] /\ link[a] = "offered"
          /\ pend' = [pend EXCEPT ![a] = @ \ {"accept"}]
    /\ FreeBr(h)
    /\ link' = [link EXCEPT ![a] = "up"]
    /\ hdl' = [hdl EXCEPT ![a] = h]

(* BT_HCI_EVT_CONN_COMPLETE, status 0. *)
ConnCompleteOk(a, h) ==
    /\ a \in BrAddr
    /\ LinkUp(a, h)
    /\ LET i == GetDevFromBdaddr(dev, a)
       IN  IF i = NoSlot
           THEN UNCHANGED <<dev, nbInq, adv, nameq>>
           ELSE /\ nameq[a] < NameBound
                /\ nbInq' = InquiryMax
                /\ dev' = [dev EXCEPT ![i].handle = h, ![i].retry = 0]
                /\ DisableAdv
                /\ nameq' = [nameq EXCEPT ![a] = @ + 1]
    /\ UNCHANGED <<conf, inq, scan, confHdl, ctl, history>>

(* The controller gives up: a page that failed, or an incoming request that *)
(* was not accepted in time or whose accept failed.                         *)
LinkFail(a) ==
    \/ /\ "connect" \in pend[a]
       /\ pend' = [pend EXCEPT ![a] = @ \ {"connect"}]
       /\ UNCHANGED link
    \/ /\ link[a] = "offered"
       /\ pend' = [pend EXCEPT ![a] = @ \ {"accept"}]
       /\ link' = [link EXCEPT ![a] = "down"]

(* pkt_retry is below BT_MAX_RETRY once it is counted up, and the device was*)
(* not the one to connect to us.                                            *)
CanRetry(i) == ~dev[i].page /\ dev[i].retry + 1 < MaxRetry

(* Mutant: the failed connection is counted but not tried again. *)
RetryConnForgotten(a) ==
    /\ pend' = [pend EXCEPT ![a] = @ \ {"accept", "connect"}]
    /\ UNCHANGED dropped

(* bt_hci_cmd_connect again, once the controller dropped what failed. *)
RetryConn(a) ==
    /\ pend' = [pend EXCEPT ![a] = (@ \ {"accept"}) \cup {"connect"}]
    /\ dropped' = dropped \ {a}

(* BT_HCI_EVT_CONN_COMPLETE, status not 0. *)
ConnCompleteErr(a) ==
    /\ a \in BrAddr
    /\ LET i == GetDevFromBdaddr(dev, a)
       IN  \/ /\ i = NoSlot
              /\ LinkFail(a)
              /\ UNCHANGED <<dev, inq, nbInq, scan, dropped>>
           \/ /\ i # NoSlot /\ CanRetry(i)
              /\ dev' = [dev EXCEPT ![i].retry = @ + 1]
              /\ RetryConn(a)
              /\ \/ "connect" \in pend[a] /\ UNCHANGED link
                 \/ link[a] = "offered" /\ link' = [link EXCEPT ![a] = "down"]
              /\ UNCHANGED <<inq, nbInq, scan>>
           \/ /\ i # NoSlot /\ ~CanRetry(i)
              /\ LinkFail(a)
              /\ dev' = [dev EXCEPT ![i] = ResetDev]
              /\ RestartIfIdle(dev')
              /\ UNCHANGED dropped
    /\ UNCHANGED <<conf, adv, hdl, confHdl, nameq, ctl, lost>>

(* What bt_dev_conf keeps of an LE connection of no device of the table.    *)
ConfTakes(h) == IF conf.found THEN conf ELSE [found |-> TRUE, handle |-> h]

(* BT_HCI_EVT_LE_CONN_COMPLETE, status 0, that answers an le_create.  When  *)
(* the slot was reset meanwhile, the device passes for the configuration    *)
(* client.                                                                  *)
LeConnCompleteOk(a, h) ==
    /\ a \in LeAddr /\ "le_create" \in pend[a] /\ link[a] = "down"
    /\ FreeLe(h)
    /\ link' = [link EXCEPT ![a] = "up"]
    /\ hdl' = [hdl EXCEPT ![a] = h]
    /\ pend' = [pend EXCEPT ![a] = @ \ {"le_create"}]
    /\ LET i == GetDevFromBdaddr(dev, a)
       IN  IF i = NoSlot
           THEN /\ conf' = ConfTakes(h)
                /\ UNCHANGED <<dev, nbInq, scan>>
           ELSE /\ dev' = [dev EXCEPT ![i].handle = h, ![i].retry = 0]
                /\ nbInq' = InquiryMax
                /\ scan' = "active"
                /\ UNCHANGED conf
    /\ UNCHANGED <<inq, adv, confHdl, nameq, ctl, history>>

(* BT_HCI_EVT_LE_CONN_COMPLETE, status not 0; without a slot only a log.    *)
LeConnCompleteErr(a) ==
    /\ a \in LeAddr /\ "le_create" \in pend[a]
    /\ LET i == GetDevFromBdaddr(dev, a)
       IN  \/ /\ i # NoSlot /\ CanRetry(i)
              /\ dev' = [dev EXCEPT ![i].retry = @ + 1]
              /\ Send(a, "le_create")
              /\ UNCHANGED <<inq, nbInq, scan>>
           \/ /\ i # NoSlot /\ ~CanRetry(i)
              /\ dev' = [dev EXCEPT ![i] = ResetDev]
              /\ pend' = [pend EXCEPT ![a] = @ \ {"le_create"}]
              /\ ResumeScan(dev')
              /\ UNCHANGED dropped
           \/ /\ i = NoSlot
              /\ pend' = [pend EXCEPT ![a] = @ \ {"le_create"}]
              /\ UNCHANGED <<dev, inq, nbInq, scan, dropped>>
    /\ UNCHANGED <<conf, adv, linkVars, nameq, ctl, lost>>

(* BT_HCI_EVT_CMD_STATUS with an error: the handler only logs it. *)
CmdStatusErr(a) ==
    /\ \E c \in pend[a] : pend' = [pend EXCEPT ![a] = @ \ {c}]
    /\ dropped' = dropped \cup {a}
    /\ UNCHANGED <<hostVars, linkVars, nameq, ctl, lost>>

(* BT_HCI_EVT_REMOTE_NAME_REQ_COMPLETE, status 0.  The request may be one   *)
(* of an earlier connection of the same address.                            *)
NameCompleteOk(a) ==
    /\ nameq[a] > 0
    /\ nameq' = [nameq EXCEPT ![a] = @ - 1]
    /\ IF GetDevFromBdaddr(dev, a) # NoSlot
       THEN StopInquiry
       ELSE UNCHANGED <<inq, scan>>
    /\ UNCHANGED <<dev, conf, nbInq, adv, linkVars, pend, ctl, history>>

(* BT_HCI_EVT_REMOTE_NAME_REQ_COMPLETE, status not 0. *)
NameCompleteErr(a) ==
    /\ nameq[a] > 0
    /\ LET i == GetDevFromBdaddr(dev, a)
       IN  IF i # NoSlot /\ dev[i].retry + 1 < MaxRetry
           THEN /\ dev' = [dev EXCEPT ![i].retry = @ + 1]
                /\ UNCHANGED <<inq, nbInq, scan, nameq>>
           ELSE /\ nameq' = [nameq EXCEPT ![a] = @ - 1]
                /\ IF i = NoSlot
                   THEN UNCHANGED <<dev, inq, nbInq, scan>>
                   ELSE /\ dev' = [dev EXCEPT ![i] = ResetDev]
                        /\ RestartIfIdle(dev')
    /\ UNCHANGED <<conf, adv, linkVars, pend, ctl, history>>

(* BT_ATT_OP_MTU_RSP from an LE device that is not set up yet ends the      *)
(* inquiry, like the name does for BR/EDR.                                  *)
LeMtuRsp(a) ==
    /\ a \in LeAddr /\ link[a] = "up"
    /\ GetDevFromHandle(dev, hdl[a]) # NoSlot
    /\ StopInquiry
    /\ UNCHANGED <<dev, conf, nbInq, adv, linkVars, cmdVars, history>>

-----------------------------------------------------------------------------
(* Disconnection and the configuration client. *)

(* Mutant: the slot is only reset when it was the last one. *)
DisconnHdlrLast(h) ==
    LET i == GetDevFromHandle(dev, h)
    IN  /\ dev' = IF i # NoSlot /\ NoActive([dev EXCEPT ![i] = ResetDev])
                  THEN [dev EXCEPT ![i] = ResetDev] ELSE dev
        /\ RestartIfIdle(dev')
        /\ adv' = (adv \/ NoActive(dev'))

(* BT_HCI_EVT_DISCONN_COMPLETE for handle h. *)
DisconnHdlr(h) ==
    LET i == GetDevFromHandle(dev, h)
    IN  \/ /\ i # NoSlot
           /\ dev' = [dev EXCEPT ![i] = ResetDev]
           /\ RestartIfIdle(dev')
           /\ adv' = (adv \/ NoActive(dev'))
        \/ /\ i = NoSlot
           /\ adv' = (adv \/ (conf.handle = h /\ conf.found /\ NoActive(dev)))
           /\ UNCHANGED <<dev, inq, nbInq, scan>>

(* The histories of a disconnection of handle h, of a link of the addresses *)
(* own: with handle 0 the handler may have reset the slot of a device that  *)
(* is not connected yet.  The real owner then keeps a slot for nothing.     *)
Crossing(h, own) ==
    LET i == GetDevFromHandle(dev, h)
    IN  IF i # NoSlot /\ dev[i].addr \notin own
        THEN /\ dropped' = dropped \cup own
             /\ lost' = lost \cup ({dev[i].addr} \cap LeAddr)
        ELSE UNCHANGED history

(* The link with a goes down, for whatever reason. *)
DisconnComplete(a) ==
    /\ link[a] = "up"
    /\ DisconnHdlr(hdl[a]) /\ Crossing(hdl[a], {a})
    /\ link' = [link EXCEPT ![a] = "down"]
    /\ hdl' = [hdl EXCEPT ![a] = NoHandle]
    /\ UNCHANGED <<conf, confHdl, cmdVars>>

(* BT_HCI_EVT_LE_CONN_COMPLETE of an address the table does not know: the   *)
(* configuration client.  Advertising ends with the connection.             *)
ConfConnComplete(h) ==
    /\ adv /\ confHdl = NoHandle
    /\ FreeLe(h)
    /\ confHdl' = h
    /\ adv' = FALSE
    /\ conf' = ConfTakes(h)
    /\ UNCHANGED <<dev, inq, nbInq, scan, link, hdl, cmdVars, history>>

(* BT_HCI_EVT_DISCONN_COMPLETE of the configuration client.  The reset of   *)
(* bt_dev_conf is a call bt_host_reset_dev ignores: it is not in bt_dev[].  *)
ConfDisconnComplete ==
    /\ confHdl # NoHandle
    /\ DisconnHdlr(confHdl) /\ Crossing(confHdl, {})
    /\ confHdl' = NoHandle
    /\ UNCHANGED <<conf, link, hdl, cmdVars>>

(* The controller gets to the mode commands in its queue (external). *)
ControllerSettles ==
    /\ ctl # [inq |-> inq, scan |-> scan # "off"]
    /\ ctl' = [inq |-> inq, scan |-> scan # "off"]
    /\ UNCHANGED <<hostVars, linkVars, pend, nameq, history>>

-----------------------------------------------------------------------------
(* The controller answers a command that is outstanding for a. *)
Answer(a) ==
    \/ \E h \in Handle : ConnCompleteOk(a, h) \/ LeConnCompleteOk(a, h)
    \/ ConnCompleteErr(a) \/ LeConnCompleteErr(a)
    \/ CmdStatusErr(a)

AnswerName(a) == NameCompleteOk(a) \/ NameCompleteErr(a)

Next ==
    \/ InquiryComplete
    \/ \E a \in Addr :
        \/ InquiryResult(a) \/ ConnRequest(a) \/ LeAdvReport(a)
        \/ Answer(a) \/ AnswerName(a)
        \/ LeMtuRsp(a) \/ DisconnComplete(a)
    \/ \E h \in LeHandle : ConfConnComplete(h)
    \/ ConfDisconnComplete
    \/ ControllerSettles

Spec == Init /\ [][Next]_vars

(* Every command is answered in the end: HCI obliges the controller to.     *)
FairSpec == Spec /\ \A a \in Addr : WF_vars(Answer(a)) /\ WF_vars(AnswerName(a))

-----------------------------------------------------------------------------
(* Safety. *)

(* The address of a device decides its slot: whatever the order in which an *)
(* inquiry, an incoming connection and an advertising report find it, no    *)
(* address ever takes two slots of bt_dev[].                                *)
UniqueAddr ==
    \A i, j \in Slots :
        dev[i].found /\ dev[j].found /\ dev[i].addr = dev[j].addr => i = j

(* An acl_handle kept in bt_dev[] is the handle of a link that is up with   *)
(* the address of the same slot: no disconnection, failed connection or     *)
(* reused handle leaves a slot with a handle of somebody else.  0 says      *)
(* nothing: it is both a handle and what a slot without connection holds.   *)
HandleLive ==
    \A i \in Slots :
        dev[i].found =>
            /\ dev[i].handle # 0 => link[dev[i].addr] = "up"
            /\ link[dev[i].addr] = "up" => hdl[dev[i].addr] = dev[i].handle

(* What arrives on a connection reaches its own device or nobody:           *)
(* bt_host_get_dev_from_handle never finds the slot of another address that *)
(* is connected.  What arrives on handle 0 may reach a device that is not.  *)
HandleRouting ==
    \A a \in Addr :
        LET i == GetDevFromHandle(dev, hdl[a])
        IN  link[a] = "up" /\ i # NoSlot /\ dev[i].addr # a =>
                hdl[a] = 0 /\ link[dev[i].addr] # "up"

(* With automatic inquiry the adapter can always be found and paired with:  *)
(* when the table is empty, inquiry and the active LE scan are on, whichever*)
(* of the handlers freed the last slot.                                     *)
InquiryWhenIdle == InqAuto /\ NoActive(dev) => inq /\ scan = "active"

(* The LE scan is off only while some LE device waits for its connection:   *)
(* every way out of an advertising report turns the scan on again, except   *)
(* that the slot of such a device goes with a disconnection of handle 0.    *)
ScanOffOnlyConnecting ==
    scan = "off" /\ lost = {} =>
        \E i \in Slots : dev[i].found /\ link[dev[i].addr] # "up"
                                      /\ dev[i].addr \in LeAddr

(* The configuration service is only advertised while no controller of the  *)
(* table is connected and no LE controller is being connected: its client   *)
(* never takes the link of a game in progress.                              *)
AdvNotConnected ==
    adv => \A i \in Slots :
              dev[i].found => link[dev[i].addr] # "up" /\ dev[i].addr \in BrAddr

(* A slot without a connection is never forgotten: an answer of the         *)
(* controller that will advance or free it is still to come, unless a       *)
(* command of its was refused by a CMD_STATUS, which the host only logs, or *)
(* its disconnection, of handle 0, reset the slot of somebody else.         *)
NoStuckSlot ==
    \A i \in Slots :
        LET a == dev[i].addr
        IN  dev[i].found /\ link[a] # "up" /\ a \notin dropped =>
                pend[a] # {} \/ link[a] = "offered"

(* bt_dev_conf is never reset and keeps the acl_handle of the first session *)
(* for ever; with a controller that hands out the lowest free LE handle the *)
(* stale handle is right in every later session, as no controller is        *)
(* connected over LE when the configuration client gets in.  That fails     *)
(* once an LE controller lost its slot to a disconnection of handle 0 while *)
(* it was being connected: its link comes up behind the table's back.       *)
ConfRouted ==
    LeLowest /\ lost = {} /\ confHdl # NoHandle =>
        conf.found /\ conf.handle = confHdl

(* A slot in use keeps its address, and its handle once it is connected,    *)
(* until it is freed: no discovery or connection event takes it over.       *)
SlotNotTaken ==
    [][\A i \in Slots :
          dev[i].found /\ dev'[i].found =>
             /\ dev'[i].addr = dev[i].addr
             /\ link[dev[i].addr] = "up" => dev'[i].handle = dev[i].handle]_vars

(* Liveness. *)

Connecting(i, a) == dev[i].found /\ dev[i].addr = a /\ link[a] # "up"

(* A device that was found gets its connection, gives its slot back after   *)
(* BT_MAX_RETRY failures, or is one that no answer will reach (NoStuckSlot).*)
Resolved ==
    \A a \in Addr, i \in Slots :
        Connecting(i, a) ~> (~Connecting(i, a) \/ a \in dropped)

-----------------------------------------------------------------------------
(* The inductive invariant behind the safety properties. *)

(* A free slot is as bt_host_reset_dev left it, and one in use has an address. *)
TableClean ==
    \A i \in Slots : IF dev[i].found THEN dev[i].addr \in Addr
                                     ELSE dev[i] = ResetDev

(* The handles of links that are up: of their kind, never shared. *)
HandlesApart ==
    /\ \A a \in Addr : link[a] = "up" =>
            hdl[a] \in (IF a \in LeAddr THEN LeHandle ELSE BrHandle) \ {confHdl}
    /\ \A a, b \in Addr :
            link[a] = "up" /\ link[b] = "up" /\ hdl[a] = hdl[b] => a = b

(* Which command can be outstanding for whom: an LE device has a slot as    *)
(* long as its connection is created and as long as it is up, unless it     *)
(* lost it to a disconnection of handle 0.                                  *)
CmdKinds ==
    /\ \A a \in BrAddr : "le_create" \notin pend[a]
    /\ \A a \in LeAddr :
          /\ link[a] # "offered" /\ nameq[a] = 0
          /\ pend[a] \subseteq {"le_create"}
          /\ pend[a] # {} => link[a] = "down"
    /\ \A a \in LeAddr \ lost :
          pend[a] # {} \/ link[a] = "up" =>
                \E i \in Slots : dev[i].found /\ dev[i].addr = a

(* Every session of the configuration client had the lowest LE handle. *)
ConfLowest ==
    LeLowest /\ lost = {} =>
        /\ confHdl # NoHandle => conf.found /\ conf.handle = confHdl
        /\ conf.found => conf.handle \in LeHandle
                         /\ \A g \in LeHandle : conf.handle <= g

IInv == /\ TypeOK
        /\ TableClean /\ UniqueAddr
        /\ HandlesApart /\ HandleLive
        /\ CmdKinds
        /\ InquiryWhenIdle /\ ScanOffOnlyConnecting /\ AdvNotConnected
        /\ NoStuckSlot
        /\ ConfLowest
=============================================================================
