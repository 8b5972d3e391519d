------------------------------ MODULE HidSlot ------------------------------
(***************************************************************************)
(* One slot of bt_dev[] and the controllers that use it one after the       *)
(* other: the drivers of HidDrivers and the GATT client of AttHid at work,  *)
(* with the answers, the silences and the refusals of the controllers, and  *)
(* the timers that fire between them.                                       *)
(*                                                                         *)
(* The handlers run in the callback of the Bluetooth controller, the timer  *)
(* callbacks in the esp_timer task.  A link delivers its messages in order  *)
(* and loses none; a controller may take longer over an answer than the     *)
(* 100 ms after which a driver asks again.                                  *)
(***************************************************************************)
EXTENDS AttHid

CONSTANTS
    Sessions,     \* sequences of controllers, records, that get the slot in turn
    MaxQueue,     \* bound on what may be on its way when a timer fires
    MaxPlugs      \* bound on the extensions plugged in or pulled

-----------------------------------------------------------------------------
(* The controllers (external): which there are. *)

(* The handles of the input, output and feature reports *)
Reports(c) == {h \in DOMAIN c.attrs : c.attrs[h].uuid = "report"}

(* g is one of the descriptors of the report r. *)
Under(c, r, g) ==
    /\ r < g
    /\ \A x \in DOMAIN c.attrs :
          r < x /\ x <= g => c.attrs[x].uuid \notin {"primary", "chrc", "report"}

(* Services in the order of their handles; attrs are the attributes of the  *)
(* last HID service.                                                        *)
ServicesOk(c) ==
    /\ c.services \in Seq([start : Nat \ {0}, end : Nat \ {0}, uuid : STRING, wide : BOOLEAN])
    /\ \A i \in DOMAIN c.services : c.services[i].start <= c.services[i].end
    /\ \A i, j \in DOMAIN c.services : i < j => c.services[i].end < c.services[j].start
    /\ IsFiniteSet(DOMAIN c.attrs)
    /\ \A h \in DOMAIN c.attrs :
          /\ c.attrs[h].uuid = "chrc" => c.attrs[h].prop \in SUBSET STRING
          /\ c.attrs[h].uuid = "report" => c.attrs[h].ccc \in Nat /\ c.attrs[h].id \in Nat
          /\ c.attrs[h].uuid = "ref" => c.attrs[h].id \in Nat
    /\ c.attrs # <<>> =>
          \E i \in DOMAIN c.services :
              /\ c.services[i].uuid = "hids"
              /\ \A j \in DOMAIN c.services : i < j => c.services[j].uuid # "hids"
              /\ DOMAIN c.attrs \subseteq c.services[i].start .. c.services[i].end

(* A report follows its characteristic and the declaration of the service;  *)
(* below it are its reference and, if it can be subscribed to, its CCC.     *)
ReportOk(c, r) ==
    /\ r - 1 \in DOMAIN c.attrs /\ c.attrs[r - 1].uuid = "chrc"
    /\ \A p \in DOMAIN c.attrs : c.attrs[p].uuid = "primary" => p < r
    /\ \E g \in DOMAIN c.attrs : Under(c, r, g) /\ c.attrs[g].uuid = "ref"
    /\ \A g \in DOMAIN c.attrs : Under(c, r, g) =>
          /\ c.attrs[g].uuid = "ref" => c.attrs[g].id = c.attrs[r].id
          /\ c.attrs[g].uuid = "ccc" => c.attrs[r].ccc = g
    /\ c.attrs[r].ccc # 0 =>
          /\ c.attrs[r].ccc \in DOMAIN c.attrs /\ c.attrs[c.attrs[r].ccc].uuid = "ccc"
          /\ Under(c, r, c.attrs[r].ccc) /\ "notify" \in c.attrs[r - 1].prop

(* A controller over LE: a pad that is set up by the discovery, or one of   *)
(* the Switch 2, which has no HID service.  The map of one that has a map   *)
(* is found if the discovery skips none of its attributes.                  *)
LeOk(c) ==
    /\ c.bus = "le" /\ c.kind \in {"pad", "sw2"}
    /\ c.mtu \in Nat /\ c.mtu >= 23 /\ c.name \in Nat /\ c.map \in Nat
    /\ c.nameHdl \in Nat \ {0} /\ c.nameHdl \notin DOMAIN c.attrs
    /\ ServicesOk(c) /\ \A r \in Reports(c) : ReportOk(c, r)
    /\ c.map # 0 =>
          /\ Cardinality(Reports(c)) < MaxReport
          /\ \E h \in DOMAIN c.attrs : c.attrs[h].uuid = "map"
    /\ c.kind = "pad" => c.known.type \notin {"sw2", "ps3", "ps", "wii", "sw"}
    /\ c.kind = "sw2" =>
          c.known.type = "sw2" /\ c.attrs = <<>> /\ c.map = 0 /\ c.bonded = {}

(* One over BR/EDR, known by a name that is right about what it is; a pad   *)
(* of the PlayStation 4 or 5 may pass for either.                           *)
BrOk(c) ==
    /\ c.bus = "br"
    /\ \/ c.kind = "ps3" /\ c.known.type = "ps3"
       \/ c.kind = "ds4" /\ c.known.type = "ps" /\ c.known.sub # "ps5"
       \/ c.kind = "ds5" /\ c.known.type = "ps"
       \/ c.kind = "wii" /\ c.known.type = "wii" /\ c.known.sub = "default"
       \/ /\ c.kind = "sw" /\ c.known.type = "sw" /\ c.known.sub \in {"default", "left", "right"}
          /\ c.ignores \subseteq {"info", "603D", "rumble", "led"}
          /\ c.factory \subseteq {0, 1} /\ c.user \subseteq {0, 1}

AllControllers == UNION {{q[i] : i \in DOMAIN q} : q \in Sessions}

(* Every controller may leave a timer behind; that more leave than a state  *)
(* is retried, within 100 ms, is left out.                                  *)
ASSUME SlotAssumption ==
    /\ Sessions \subseteq Seq(AllControllers) /\ \A q \in Sessions : Len(q) <= RetryMax + 2
    /\ \A c \in AllControllers : LeOk(c) \/ BrOk(c)
    /\ MaxQueue \in Nat \ {0} /\ MaxPlugs \in Nat

VARIABLES
    slot,      \* the slot, with the timers that were created for it
    ctl,       \* the controller that is connected, or NoCtl
    peer,      \* its state
    key,       \* key of the Switch 2 controller, an index of Keys
    toPeer,    \* commands and requests on their way to the controller
    toHost,    \* answers, notifications and reports on their way to the host
    coming,    \* controllers still to connect
    faults     \* history of the connection: what went wrong

vars == <<slot, ctl, peer, key, toPeer, toHost, coming, faults>>

NoCtl == [bus |-> "none"]
Keys == <<"k1", "k2", "k3">>
Fault == {"error", "alloc", "stale", "dup", "pulled"}

(* bt_host_reset_dev: the timers go on, and so do att_hid[] and calib[]. *)
Reset(s) ==
    [s EXCEPT !.type = "none", !.sub = "default", !.flags = {}, !.st = 0, !.retry = 0,
              !.timer = None, !.rtype = "none", !.mtu = 0, !.sdp = 0,
              !.parsed = {}, !.bridged = {},
              !.timers = {[t EXCEPT !.old = TRUE] : t \in {u \in @ : u.armed}}]

NoPeer ==
    [subs |-> {}, confs |-> {}, encrypted |-> 0, ext |-> "none", fmt8 |-> FALSE,
     reporting |-> FALSE, plugs |-> 0]

Init ==
    /\ slot = [type |-> "none", sub |-> "default", flags |-> {}, st |-> 0, retry |-> 0,
               timer |-> None, rtype |-> "none", mtu |-> 0, calib |-> NoCalib, hid |-> NoHid,
               sdp |-> 0, parsed |-> {}, bridged |-> {}, out |-> <<>>, timers |-> {},
               bond |-> "none"]
    /\ ctl = NoCtl /\ peer = NoPeer /\ key = 1
    /\ toPeer = <<>> /\ toHost = <<>>
    /\ coming \in Sessions /\ faults = {}

(* The slot after a call: what it sent is on its way, and a timer that fired *)
(* and that timer_hdl does not name is memory lost, no more.                *)
Runs(s) ==
    /\ slot' = [s EXCEPT !.out = <<>>, !.timers = {t \in @ : t.armed \/ t.id = s.timer}]
    /\ toPeer' = toPeer \o s.out

-----------------------------------------------------------------------------
(* The controllers (external): what they answer. *)

Least(a, b) == IF a <= b THEN a ELSE b
Mtu(c) == Least(OurMtu, c.mtu)

Error == [op |-> "error_rsp"]
Requests == {"mtu_req", "read_type", "find_info", "read_group", "read", "blob", "write"}

(* Length of the value of an attribute that is read *)
Length(c, h) == IF h = c.nameHdl THEN c.name ELSE c.map

AttrsIn(c, m, which) == {h \in DOMAIN c.attrs : h >= m.from /\ h <= m.to /\ c.attrs[h].uuid \in which}
Lowest(hs, n) ==
    [i \in 1 .. Least(n, Cardinality(hs)) |->
        CHOOSE h \in hs : Cardinality({g \in hs : g < h}) = i - 1]

ReadTypeAnswer(c, m) ==
    CASE m.uuid = "name" ->
           [op |-> "read_type_rsp", hdl |-> c.nameHdl, n |-> Least(c.name, Mtu(c) - 4)]
      [] m.uuid = "chrc" ->
           LET hs == Lowest(AttrsIn(c, m, {"chrc"}), (Mtu(c) - 2) \div 7) IN
           IF hs = <<>> THEN Error
           ELSE [op |-> "read_type_rsp", chrcs |-> [i \in 1 .. Len(hs) |->
                    [hdl |-> hs[i], value |-> hs[i] + 1, prop |-> c.attrs[hs[i]].prop]]]
      [] OTHER -> [op |-> "read_type_rsp", n |-> 2]

FindInfoAnswer(c, m) ==
    LET hs == Lowest({h \in DOMAIN c.attrs : h >= m.from /\ h <= m.to}, (Mtu(c) - 2) \div 4) IN
    IF m.from = 0 \/ hs = <<>> THEN Error
    ELSE [op |-> "find_info_rsp",
          attrs |-> [i \in 1 .. Len(hs) |-> [hdl |-> hs[i], uuid |-> c.attrs[hs[i]].uuid]]]

(* Services of one width of uuid to a response *)
GroupAnswer(c, m) ==
    LET from == {i \in DOMAIN c.services : c.services[i].start >= m.from}
        first == CHOOSE i \in from : \A j \in from : i <= j
        fit == (Mtu(c) - 2) \div (IF c.services[first].wide THEN 20 ELSE 6)
        run == {n \in from : /\ n < first + fit
                             /\ \A i \in first .. n : c.services[i].wide = c.services[first].wide}
        last == CHOOSE n \in run : \A k \in run : k <= n
    IN IF from = {} THEN Error
       ELSE [op |-> "group_rsp", services |-> SubSeq(c.services, first, last)]

ReadAnswer(c, m) ==
    IF m.hdl \in DOMAIN c.attrs /\ c.attrs[m.hdl].uuid = "ref"
    THEN [op |-> "read_rsp", n |-> 2, id |-> c.attrs[m.hdl].id]
    ELSE IF m.hdl = 0 THEN Error
    ELSE [op |-> "read_rsp", n |-> Least(Length(c, m.hdl), Mtu(c) - 1)]

BlobAnswer(c, m) ==
    IF m.off > Length(c, m.hdl) THEN Error
    ELSE [op |-> "blob_rsp", n |-> Least(Length(c, m.hdl) - m.off, Mtu(c) - 1)]

GattAnswer(c, m) ==
    CASE m.op = "mtu_req" -> [op |-> "mtu_rsp", mtu |-> c.mtu]
      [] m.op = "read_type" -> ReadTypeAnswer(c, m)
      [] m.op = "find_info" -> FindInfoAnswer(c, m)
      [] m.op = "read_group" -> GroupAnswer(c, m)
      [] m.op = "read" -> ReadAnswer(c, m)
      [] m.op = "blob" -> BlobAnswer(c, m)
      [] OTHER -> [op |-> "write_rsp"]

(* What a controller may refuse; the discovery is written to go on without. *)
Refusable(m) ==
    \/ m.op = "read_type" /\ m.uuid \in {"name", "appearance", "pnp", "ppcp", "batt"}
    \/ m.op = "write"

(* A GATT server: its answer, or an error. *)
GattAnswers(m) ==
    \/ /\ toHost' = Append(toHost, GattAnswer(ctl, m))
       /\ peer' = IF m.op # "write" THEN peer
                  ELSE [peer EXCEPT !.subs = IF m.on THEN @ \cup {m.hdl} ELSE @ \ {m.hdl}]
       /\ UNCHANGED <<key, faults>>
    \/ /\ ctl.refuses /\ Refusable(m)
       /\ toHost' = Append(toHost, Error)
       /\ faults' = IF m.op = "write" \/ m.uuid = "name" THEN faults \cup {"error"} ELSE faults
       /\ UNCHANGED <<peer, key>>

(* A Switch 2 controller answers a command when it may notify; the last     *)
(* step of the pairing makes a new key.                                     *)
Sw2Answers(m) ==
    /\ toHost' = IF CmdCcc \in peer.subs
                 THEN Append(toHost, [op |-> "sw2_ack", cmd |-> m.cmd, what |-> m.what,
                                      val |-> Keys[key]])
                 ELSE toHost
    /\ peer' = [peer EXCEPT !.confs = IF m.cmd = "led" THEN @ \cup {"led"} ELSE @]
    /\ IF m.cmd = "pair" /\ m.what = 4 /\ key < Len(Keys) THEN key' = key + 1 ELSE UNCHANGED key
    /\ UNCHANGED faults

SwAnswers(m) ==
    /\ toHost' = IF m.sub \in ctl.ignores THEN toHost
                 ELSE Append(toHost, [op |-> "sw_ack", sub |-> m.sub,
                        present |-> IF m.sub = "8010" THEN ctl.user ELSE ctl.factory])
    /\ faults' = IF m.sub \in peer.confs \ ctl.ignores THEN faults \cup {"dup"} ELSE faults
    /\ peer' = [peer EXCEPT !.confs = @ \cup {m.sub}]
    /\ UNCHANGED key

WiiAnswers(m) ==
    LET ok == peer.ext # "none" IN
    /\ toHost' = CASE m.op \in {"wr_init", "wr_8bit"} ->
                        Append(toHost, [op |-> "wii_ack", report |-> "wr_mem", err |-> ~ok])
                   [] m.op = "rd_type" ->
                        Append(toHost, [op |-> "rd_data",
                            ext |-> CASE ~ok -> "default"
                                      [] ok /\ peer.ext = "classic" /\ peer.fmt8 -> "classic8"
                                      [] OTHER -> peer.ext])
                   [] OTHER -> toHost
    /\ peer' = [peer EXCEPT !.fmt8 = @ \/ (m.op = "wr_8bit" /\ ok),
                            !.reporting = @ \/ m.op = "rep_mode"]
    /\ UNCHANGED <<key, faults>>

(* The controller takes the next command or request. *)
Answers ==
    /\ toPeer # <<>>
    /\ toPeer' = Tail(toPeer)
    /\ LET m == Head(toPeer) IN
       CASE m.op = "sw2" -> Sw2Answers(m)
         [] m.op = "sw" /\ ctl.kind = "sw" -> SwAnswers(m)
         [] ctl.kind = "wii" -> WiiAnswers(m)
         [] ctl.bus = "le" /\ m.op \in Requests -> GattAnswers(m)
         [] OTHER -> /\ peer' = [peer EXCEPT !.confs = @ \cup {m.op}]
                     /\ UNCHANGED <<toHost, key, faults>>
    /\ UNCHANGED <<slot, ctl, coming>>

(* An input report: the GATT handle, or what the report type says of the pad *)
Report ==
    /\ toHost = <<>>
    /\ \/ /\ ctl.bus = "le" /\ peer.encrypted > 0
          /\ \E h \in DOMAIN ctl.attrs :
                /\ ctl.attrs[h].uuid = "report" /\ ctl.attrs[h].ccc \in peer.subs
                /\ <<h, ctl.attrs[h].id>> \notin slot.bridged
                /\ toHost' = <<[op |-> "notify", hdl |-> h]>>
       \/ /\ ctl.bus = "br" /\ ctl.kind \in {"ds4", "ds5"}
          /\ LET rtype == CASE ctl.kind = "ds4" /\ "ps4_conf" \in peer.confs -> "ps4"
                            [] ctl.kind = "ds5" /\ "ps5_conf" \in peer.confs -> "ps5"
                            [] OTHER -> "hid"
             IN /\ rtype # slot.rtype
                /\ toHost' = <<[op |-> "status", rtype |-> rtype]>>
    /\ UNCHANGED <<slot, ctl, peer, key, toPeer, coming, faults>>

(* An extension is plugged into a Wii remote, or pulled: the remote says so *)
(* and stops reporting until it is told how.                                *)
Plug(e) ==
    /\ ctl.bus = "br" /\ ctl.kind = "wii" /\ peer.plugs < MaxPlugs
    /\ (e = "none") # (peer.ext = "none")
    /\ peer' = [peer EXCEPT !.ext = e, !.fmt8 = FALSE, !.reporting = FALSE, !.plugs = @ + 1]
    /\ toHost' = Append(toHost, [op |-> "wii_status", plugged |-> (e # "none")])
    /\ faults' = IF toPeer # <<>> \/ toHost # <<>> THEN faults \cup {"pulled"} ELSE faults
    /\ UNCHANGED <<slot, ctl, key, toPeer, coming>>

(* A Switch 2 controller is paired with a console meanwhile. *)
PairsElsewhere ==
    /\ ctl = NoCtl /\ key < Len(Keys)
    /\ key' = key + 1
    /\ UNCHANGED <<slot, ctl, peer, toPeer, toHost, coming, faults>>

-----------------------------------------------------------------------------
(* The host. *)

(* A controller gets the slot: an LE one as HID, one of BR/EDR under the    *)
(* name that was asked for.  A bonded LE controller kept its notifications. *)
Connect ==
    /\ ctl = NoCtl /\ coming # <<>>
    /\ LET c == Head(coming) IN
       /\ ctl' = c
       /\ slot' = IF c.bus = "le" THEN TypeUpdate(Reset(slot), "generic", "default")
                  ELSE TypeUpdate(Reset(slot), c.known.type, c.known.sub)
       /\ peer' = [NoPeer EXCEPT !.subs = IF c.bus = "le" THEN c.bonded ELSE {}]
    /\ coming' = Tail(coming) /\ faults' = {}
    /\ UNCHANGED <<key, toPeer, toHost>>

(* bt_att_hid_init, from ENCRYPT_CHANGE and again from the end of a pairing *)
Encrypted ==
    /\ ctl.bus = "le" /\ peer.encrypted < 2
    /\ peer' = [peer EXCEPT !.encrypted = @ + 1]
    /\ Runs(AttInit(slot))
    /\ UNCHANGED <<ctl, key, toHost, coming, faults>>

(* bt_hid_init, from the end of the SDP searches of a BR/EDR controller *)
ChannelsUp ==
    /\ ctl.bus = "br" /\ "intr_ready" \notin slot.flags
    /\ Runs(HidInit(Flag(slot, "intr_ready")))
    /\ UNCHANGED <<ctl, peer, key, toHost, coming, faults>>

(* bt_host_acl_hdlr hands the next message to bt_att_hid_hdlr or bt_hid_hdlr. *)
Deliver(mem) ==
    /\ toHost # <<>>
    /\ toHost' = Tail(toHost)
    /\ Runs(IF ctl.bus = "le" THEN AttHdlr(slot, Head(toHost), ctl.known, mem)
            ELSE HidHdlr(slot, Head(toHost)))
    /\ faults' = IF mem THEN faults ELSE faults \cup {"alloc"}
    /\ UNCHANGED <<ctl, peer, key, coming>>

(* malloc fails: only the report map asks for memory. *)
DeliverNoMemory ==
    /\ ctl.bus = "le" /\ slot.st = ReportMap /\ "intr_ready" \notin slot.flags
    /\ slot.sdp = 0
    /\ Deliver(FALSE)

(* A timer fires, on the slot of whoever has it now. *)
TimerFires ==
    \E t \in slot.timers :
        /\ t.armed
        /\ Len(toPeer) + Len(toHost) < MaxQueue
        /\ IF ctl = NoCtl
           THEN /\ slot' = [Callback(slot, t) EXCEPT !.out = <<>>,
                                                     !.timers = {u \in @ : u.armed}]
                /\ UNCHANGED toPeer
           ELSE Runs(Callback(slot, t))
        /\ faults' = IF t.old THEN faults \cup {"stale"} ELSE faults
        /\ UNCHANGED <<ctl, peer, key, toHost, coming>>

(* BT_HCI_EVT_DISCONN_COMPLETE *)
Disconnect ==
    /\ ctl # NoCtl
    /\ ctl' = NoCtl /\ peer' = NoPeer /\ slot' = Reset(slot)
    /\ toPeer' = <<>> /\ toHost' = <<>> /\ faults' = {}
    /\ UNCHANGED <<key, coming>>

Next ==
    \/ Connect
    \/ Encrypted \/ ChannelsUp
    \/ Answers \/ Report
    \/ \E e \in {"none", "nunchuk", "classic"} : Plug(e)
    \/ PairsElsewhere
    \/ Deliver(TRUE) \/ DeliverNoMemory
    \/ TimerFires
    \/ Disconnect

(* The link delivers, the controller answers what it does not ignore, a     *)
(* timer that is armed fires, and a link that is up gets encrypted or has   *)
(* its channels opened.  Nothing makes a controller leave.                  *)
Fairness ==
    /\ WF_vars(Encrypted) /\ WF_vars(ChannelsUp)
    /\ WF_vars(Answers) /\ WF_vars(Deliver(TRUE)) /\ WF_vars(TimerFires)

Spec == Init /\ [][Next]_vars
FairSpec == Spec /\ Fairness

-----------------------------------------------------------------------------
(* Properties. *)

Le(kind) == ctl.bus = "le" /\ ctl.kind = kind
Ready == "intr_ready" \in slot.flags
Quiet == toPeer = <<>> /\ toHost = <<>> /\ ~\E t \in slot.timers : t.armed

(* hid_parser gets the whole report map of the controller, whatever its     *)
(* length and however many responses it took, when the controller's MTU is  *)
(* not above ours (bt_att_hid_process_report_map).                          *)
MapWhole == ctl.bus = "le" /\ ctl.mtu <= OurMtu => slot.parsed \subseteq {ctl.map}

(* The discovery of a controller with fewer reports than reports[] holds    *)
(* writes inside reports[], characteristics that are no reports included    *)
(* (bt_att_hid_process_ident_hid_hdls).                                     *)
InBounds ==
    ctl.bus = "le" /\ peer.encrypted > 0 /\ Cardinality(Reports(ctl)) < MaxReport
        => ~slot.hid.overrun

(* When the driver of an LE controller starts, the controller was told to   *)
(* notify every input report, and each report is known by its handle with   *)
(* the id of its own reference (bt_att_hid_start_init).                     *)
Subscribed ==
    Le("pad") /\ Ready /\ "error" \notin faults /\ Cardinality(Reports(ctl)) < MaxReport
        => \A h \in Reports(ctl) :
              /\ ctl.attrs[h].ccc # 0 => ctl.attrs[h].ccc \in peer.subs
              /\ \E i \in DOMAIN slot.hid.reports :
                    slot.hid.reports[i].hdl = h /\ slot.hid.reports[i].id = ctl.attrs[h].id

(* A notification goes on under the id of its own report, unless the        *)
(* controller notifies from before the discovery (BT_ATT_OP_NOTIFY).        *)
NotifyRouted ==
    ctl.bus = "le" /\ ctl.bonded = {}
        => \A b \in slot.bridged : b[2] = ctl.attrs[b[1]].id

(* The reports of an LE controller arrive, each under its own id. *)
Routed == Subscribed /\ NotifyRouted

(* A Switch 2 controller that is ready has the key that is stored for it,   *)
(* its calibration was read and its LED set, whatever requests it refused   *)
(* and whichever timer fired meanwhile (bt_hid_sw2_hdlr).                   *)
Sw2Bonded ==
    Le("sw2") /\ Ready
        => /\ slot.bond = Keys[key]
           /\ "calib_set" \in slot.flags /\ "led" \in peer.confs

(* When nothing is under way, a Wii remote reports, and its subtype is that *)
(* of the extension plugged in; a classic controller is in its 8-bit format *)
(* (bt_hid_wii_hdlr).                                                       *)
ExtSettled ==
    ctl.bus = "br" /\ ctl.kind = "wii" /\ Ready /\ Quiet
        => /\ peer.reporting
           /\ slot.sub = CASE peer.ext = "none" -> "default"
                           [] peer.ext = "classic" -> "classic8"
                           [] OTHER -> peer.ext

(* The calibration of a stick is its own: of the block of the controller's  *)
(* memory for it, the user's where there is one.                            *)
CalibOf(c) ==
    [stick \in 0 .. 1 |->
        LET block == IF c.known.sub = "right" THEN 1 ELSE stick
            from == IF c.known.sub # "default" /\ stick = 1 THEN "none"
                    ELSE IF block \in c.user THEN "user"
                    ELSE IF block \in c.factory THEN "factory" ELSE "none"
        IN [from |-> from, block |-> IF from = "none" THEN 0 ELSE block]]

(* When nothing is under way, a Switch controller was told its LED and has  *)
(* its own calibration if it answers the reads, however slow its answers;   *)
(* unless a timer of the slot's last user fired (bt_hid_sw_init_callback).  *)
SwSettled ==
    ctl.bus = "br" /\ ctl.kind = "sw" /\ Ready /\ Quiet /\ "stale" \notin faults
        => /\ "led" \in peer.confs /\ "init_done" \in slot.flags
           /\ "603D" \notin ctl.ignores =>
                "calib_set" \in slot.flags /\ slot.calib = CalibOf(ctl)

(* When nothing is under way, a PlayStation pad got the configuration for   *)
(* what it is (bt_hid_ps5_init_callback, bt_hid_ps3_init_callback).         *)
PsSettled ==
    ctl.bus = "br" /\ ctl.kind \in {"ps3", "ds4", "ds5"} /\ Ready /\ Quiet
        => CASE ctl.kind = "ps3" -> "ps3_conf" \in peer.confs
             [] ctl.kind = "ds4" -> "ps4_conf" \in peer.confs
             [] OTHER -> "ps5_conf" \in peer.confs

(* When nothing is under way, the driver has left a BR/EDR controller       *)
(* configured for what it is.                                               *)
Configured == ExtSettled /\ SwSettled /\ PsSettled

(* A controller whose services the discovery can walk becomes ready or      *)
(* leaves: the last service is not one handle long, there is a HID service  *)
(* with reports, and memory was found for its map.                          *)
Walkable(c) ==
    /\ Reports(c) # {} /\ Cardinality(Reports(c)) < MaxReport
    /\ \A i \in 1 .. Len(c.services) : c.services[i].start < c.services[i].end

Discovered ==
    (ctl.bus = "le" /\ (Le("pad") => Walkable(ctl)))
        ~> (ctl = NoCtl \/ Ready \/ "alloc" \in faults
            \/ (Le("sw2") /\ faults \cap {"error", "stale"} # {}))

(* The exchange with a BR/EDR controller comes to an end, its timers too,   *)
(* or it leaves; unless answers that came twice took a Switch controller    *)
(* that never acknowledges its LED past the state that gives up             *)
(* (bt_hid_sw_init_callback), or an extension was pulled in the middle of   *)
(* its set-up, which is then retried for ever (BT_HIDP_WII_ACK).            *)
Settles ==
    (ctl.bus = "br")
        ~> (\/ ctl = NoCtl
            \/ Ready /\ Quiet
            \/ ctl.kind = "sw" /\ "dup" \in faults /\ "led" \in ctl.ignores
            \/ ctl.kind = "wii" /\ "pulled" \in faults)
=============================================================================
