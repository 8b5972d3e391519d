----------------------------- MODULE HidDrivers -----------------------------
(***************************************************************************)
(* The drivers that bring a controller to the state it reports in           *)
(* (bluetooth/hidp/): what each sends, which answers it waits for, and the  *)
(* timers it leaves behind.                                                 *)
(*                                                                         *)
(* Every operator takes a slot of bt_dev[], a record, and returns the slot  *)
(* after the call; what the call put in the transmit queue is in out.  All  *)
(* the drivers, and the GATT client of AttHid, keep their progress in the   *)
(* same field: st is device->hid_state.                                     *)
(*                                                                         *)
(* The esp_timers are objects of their own: timer_hdl names one, and a      *)
(* timer that bt_host_reset_dev forgets still fires.  esp_timer_delete      *)
(* refuses a timer that is armed, and every call refuses NULL.              *)
(***************************************************************************)
EXTENDS Integers, Sequences, FiniteSets

CONSTANTS
    RetryMax    \* SW_INIT_STATE_RETRY_MAX

ASSUME DriverAssumption == RetryMax \in Nat

Past == 12      \* from here on no switch on hid_state has a case: st stops here
None == 0       \* NULL, for timer_hdl

Send(s, m) == [s EXCEPT !.out = Append(@, m)]
Flag(s, f) == [s EXCEPT !.flags = @ \cup {f}]
Bump(s) == [s EXCEPT !.st = IF @ < Past THEN @ + 1 ELSE Past]
InitDone(s) == Flag(s, "init_done")

(* bt_type_update, as far as the drivers read it back *)
TypeUpdate(s, type, sub) == [s EXCEPT !.type = type, !.sub = sub]

-----------------------------------------------------------------------------
(* esp_timer: timers is the set of those that exist; old: history, the slot *)
(* was reset since the timer was created.                                   *)

Named(s) == {t \in s.timers : t.id = s.timer}
NewId(s) == CHOOSE i \in 1 .. Cardinality(s.timers) + 1 : \A t \in s.timers : t.id # i

(* esp_timer_create and esp_timer_start_once *)
StartTimer(s, kind) ==
    [s EXCEPT !.timer = NewId(s),
              !.timers = @ \cup {[id |-> NewId(s), kind |-> kind, armed |-> TRUE,
                                   old |-> FALSE]}]

(* esp_timer_start_once on timer_hdl *)
StartOnce(s) ==
    [s EXCEPT !.timers = (@ \ Named(s)) \cup {[t EXCEPT !.armed = TRUE] : t \in Named(s)}]

(* esp_timer_delete on timer_hdl, and timer_hdl = NULL: an armed timer stays. *)
DeleteTimer(s) ==
    [s EXCEPT !.timers = {t \in @ : t \notin Named(s) \/ t.armed}, !.timer = None]

-----------------------------------------------------------------------------
(* sw.c: Switch controllers.  A state is sent again every 100 ms until its   *)
(* answer moves hid_state on; esp_timer_restart only moves the alarm.        *)

SwReadInfo == 0
SwReadCalib == 1
SwEnRumble == 2
SwSetLed == 3

Sw(sub) == [op |-> "sw", sub |-> sub]

(* bt_hid_sw_exec_next_state *)
SwExec(s) ==
    Send(s, Sw(CASE s.st = SwReadInfo -> "info"
                 [] s.st = SwReadCalib -> "603D"
                 [] s.st = SwEnRumble -> "rumble"
                 [] OTHER -> "led"))

NoCalib == [stick \in 0 .. 1 |-> [from |-> "none", block |-> 0]]

SwInit(s) == StartTimer([s EXCEPT !.calib = NoCalib], "sw")

(* hid_retry_cnt++ > SW_INIT_STATE_RETRY_MAX *)
SwTriesOver(s) == s.retry > RetryMax

(* Mutant: the last state is retried like the others. *)
SwLastNever(s) == FALSE

(* The state in which the retries end *)
SwLast(s) == s.st = SwSetLed

(* bt_hid_sw_init_callback *)
SwCallback(s) ==
    LET counted == [s EXCEPT !.retry = @ + 1]
        next == IF SwTriesOver(s) THEN Bump([s EXCEPT !.retry = 0]) ELSE counted
    IN IF SwTriesOver(s) /\ SwLast(s)
       THEN DeleteTimer(counted)
       ELSE InitDone(StartOnce(SwExec(next)))

(* Mutant: the right Joy-Con's stick is read from the left block. *)
SwBlocksLeft(sub) == IF sub = "default" THEN {<<0, 0>>, <<1, 1>>} ELSE {<<0, 0>>}

(* Which block of calibration data is written to which stick: a right       *)
(* Joy-Con has its only stick in the second block.                          *)
SwBlocks(sub) ==
    CASE sub = "default" -> {<<0, 0>>, <<1, 1>>}
      [] sub = "right" -> {<<0, 1>>}
      [] OTHER -> {<<0, 0>>}

(* bt_hid_sw_set_calib, for the blocks present in the answer (not 0xFF) *)
SwSetCalib(s, from, present) ==
    [s EXCEPT !.calib = [stick \in 0 .. 1 |->
        LET blocks == {b \in present : <<stick, b>> \in SwBlocks(s.sub)} IN
        IF blocks = {} THEN @[stick]
        ELSE [from |-> from, block |-> CHOOSE b \in blocks : TRUE]]]

(* bt_hid_sw_hdlr, BT_HIDP_SW_SUBCMD_ACK: READ_INFO and EN_RUMBLE move on    *)
(* whatever the state; the four reads of the flash chain one another.       *)
SwAck(s, m) ==
    CASE m.sub = "led" -> DeleteTimer(s)
      [] m.sub = "603D" -> Send(SwSetCalib(s, "factory", m.present), Sw("6086"))
      [] m.sub = "6086" -> Send(s, Sw("6098"))
      [] m.sub = "6098" -> Send(s, Sw("8010"))
      [] m.sub = "8010" -> SwExec(Bump(Flag(SwSetCalib(s, "user", m.present), "calib_set")))
      [] OTHER -> SwExec(Bump(s))

(* bt_hid_sw_hdlr: STATUS and STATUS_NATIVE *)
SwStatus(s, rtype) == [s EXCEPT !.rtype = rtype]

-----------------------------------------------------------------------------
(* ps3.c *)

Ps3Init(s) == Send(StartTimer(s, "ps3"), [op |-> "ps3_bt_init"])

Ps3Callback(s) == InitDone(Send(DeleteTimer(s), [op |-> "ps3_conf"]))

-----------------------------------------------------------------------------
(* ps.c: DualShock 4 and DualSense. *)

(* A pad that reports as a DualShock 4 was configured by bt_hid_ps_init. *)
PsSendsPs5(s) == s.rtype # "ps4"

(* bt_hid_ps5_init_callback: the two LED commands, and the triggers *)
PsCallback(s) ==
    InitDone(DeleteTimer(IF PsSendsPs5(s) THEN Send(s, [op |-> "ps5_conf"]) ELSE s))

PsInit(s) ==
    IF s.sub = "ps5" THEN PsCallback(s)
    ELSE Send(StartTimer(s, "ps"), [op |-> "ps4_conf"])

(* bt_hid_ps_hdlr: only the report of the DualSense makes it one. *)
PsStatus(s, rtype) ==
    IF s.rtype = rtype THEN s
    ELSE TypeUpdate([s EXCEPT !.rtype = rtype], "ps", IF rtype = "ps5" THEN "ps5" ELSE "default")

-----------------------------------------------------------------------------
(* wii.c: the extension of a Wii remote. *)

WiiInit0 == 0
WiiInit1 == 1
WiiGetType == 2
WiiSet8bit == 3
WiiGet8bit == 4

WiiRepMode(s) == Send(s, [op |-> "rep_mode"])

(* bt_wii_exec_next_state *)
WiiExec(s) ==
    CASE s.st \in {WiiInit0, WiiInit1} -> Send(s, [op |-> "wr_init"])
      [] s.st \in {WiiGetType, WiiGet8bit} -> Send(s, [op |-> "rd_type"])
      [] s.st = WiiSet8bit -> Send(s, [op |-> "wr_8bit"])
      [] OTHER -> s

WiiInit(s) == InitDone(WiiRepMode(Send(s, [op |-> "led"])))

(* BT_HIDP_WII_STATUS *)
WiiStatus(s, ext) ==
    IF s.sub = "wiiu" THEN s
    ELSE IF ext THEN WiiExec([TypeUpdate(s, "wii", "default") EXCEPT !.st = WiiInit0])
    ELSE WiiRepMode(TypeUpdate(s, "wii", "default"))

(* BT_HIDP_WII_RD_DATA; what is unknown to bt_wii_ext_type is "default". *)
WiiRdData(s, ext) ==
    LET typed == IF ext # "default" THEN TypeUpdate(s, "wii", ext) ELSE s IN
    IF ext = "classic" /\ s.st < WiiSet8bit
    THEN WiiExec([typed EXCEPT !.st = WiiSet8bit])
    ELSE WiiRepMode(typed)

(* BT_HIDP_WII_ACK: an error sends the state again; every other answer      *)
(* moves hid_state on, that of a command the extension has no part in too.  *)
WiiAck(s, report, err) ==
    CASE err -> WiiExec(s)
      [] ~err /\ report = "wr_mem" -> WiiExec(Bump(s))
      [] OTHER -> Bump(s)

-----------------------------------------------------------------------------
(* sw2.c: Switch 2 controllers, over GATT writes and notifications. *)

Sw2ReadInfo == 0
Sw2ReadLtk == 1
Sw2SetBdaddr == 2
Sw2ReadNewLtk == 3
Sw2Left == 4
Sw2Right == 5
Sw2User == 6
Sw2SetLed == 7

CmdCcc == 27    \* 0x001b
ReportCcc == 11 \* 0x000b

WriteReq(h, on) == [op |-> "write", hdl |-> h, on |-> on]
Sw2(cmd, what) == [op |-> "sw2", cmd |-> cmd, what |-> what]

(* bt_hid_sw2_exec_next_state *)
Sw2Exec(s) ==
    CASE s.st = Sw2ReadInfo -> Send(s, Sw2("spi", "info"))
      [] s.st \in {Sw2ReadLtk, Sw2ReadNewLtk} -> Send(s, Sw2("spi", "ltk"))
      [] s.st = Sw2SetBdaddr -> Send(s, Sw2("pair", 1))
      [] s.st = Sw2Left -> Send(s, Sw2("spi", "left"))
      [] s.st = Sw2Right -> Send(s, Sw2("spi", "right"))
      [] s.st = Sw2User -> Send(s, Sw2("spi", "user"))
      [] s.st = Sw2SetLed -> Send(s, Sw2("led", "led"))
      [] OTHER -> Send(Send(s, WriteReq(ReportCcc, TRUE)), WriteReq(CmdCcc, FALSE))

Sw2Init(s) == InitDone(Sw2Exec(Send(s, WriteReq(CmdCcc, TRUE))))

(* What the answer to a read of the flash is taken for depends on hid_state *)
(* alone: the answer to another read is read as if it were this one.        *)
Sw2Value(m, what) == IF m.what = what THEN m.val ELSE "other"

(* Mutant: the stored key is trusted without comparing. *)
Sw2KnownAny(s, m) == s.bond # "none"

(* bt_host_load_le_ltk, and the comparison with the controller's key *)
Sw2Known(s, m) == s.bond # "none" /\ s.bond = Sw2Value(m, "ltk")

Sw2Spi(s, m) ==
    CASE s.st = Sw2ReadLtk -> IF Sw2Known(s, m) THEN [s EXCEPT !.st = @ + 2] ELSE s
      [] s.st = Sw2ReadNewLtk -> [s EXCEPT !.bond = Sw2Value(m, "ltk")]
      [] s.st = Sw2User -> Flag(TypeUpdate(s, "sw2", s.sub), "calib_set")
      [] OTHER -> s

(* bt_hid_sw2_hdlr, BT_HIDP_SW2_ACK_ATT_HDL.  Of the pairing, only the last *)
(* step moves hid_state on.                                                 *)
Sw2Ack(s, m) ==
    CASE m.cmd = "spi" -> Sw2Exec(Bump(Sw2Spi(s, m)))
      [] m.cmd = "led" -> Sw2Exec(Bump(s))
      [] m.cmd = "pair" /\ m.what < 4 -> Send(s, Sw2("pair", m.what + 1))
      [] OTHER -> Sw2Exec(Bump(s))

-----------------------------------------------------------------------------
(* hidp.c: the driver of ids.type. *)

(* bt_hid_init *)
HidInit(s) ==
    CASE s.type = "generic" -> InitDone(s)
      [] s.type = "ps3" -> Ps3Init(s)
      [] s.type = "wii" -> WiiInit(s)
      [] s.type = "ps" -> PsInit(s)
      [] s.type = "sw" -> SwInit(s)
      [] s.type = "sw2" -> Sw2Init(s)
      [] OTHER -> s

(* bt_hid_hdlr; the reports themselves go to bt_host_bridge (ReportPath). *)
HidHdlr(s, m) ==
    CASE s.type = "sw" /\ m.op = "sw_ack" -> SwAck(s, m)
      [] s.type = "sw" /\ m.op = "status" -> SwStatus(s, m.rtype)
      [] s.type = "ps" /\ m.op = "status" -> PsStatus(s, m.rtype)
      [] s.type = "wii" /\ m.op = "wii_status" -> WiiStatus(s, m.plugged)
      [] s.type = "wii" /\ m.op = "rd_data" -> WiiRdData(s, m.ext)
      [] s.type = "wii" /\ m.op = "wii_ack" -> WiiAck(s, m.report, m.err)
      [] OTHER -> s

(* The callbacks run on the slot their timer was created for, whoever has   *)
(* it now; the one-shot timer is no longer armed.                           *)
Callback(s, t) ==
    LET fired == [s EXCEPT !.timers = (@ \ {t}) \cup {[t EXCEPT !.armed = FALSE]}] IN
    CASE t.kind = "sw" -> SwCallback(fired)
      [] t.kind = "ps3" -> Ps3Callback(fired)
      [] OTHER -> PsCallback(fired)
=============================================================================
