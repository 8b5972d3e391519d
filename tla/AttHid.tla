------------------------------- MODULE AttHid -------------------------------
(***************************************************************************)
(* The GATT client that sets up an LE controller (bluetooth/att_hid.c): one *)
(* request at a time through twelve states, from the device name to the     *)
(* notifications of its input reports.  As in HidDrivers, an operator takes *)
(* a slot and returns the slot after the call; hid is hid_data, the slot's  *)
(* entry in att_hid[].                                                      *)
(*                                                                         *)
(* A response is a record with its opcode; lengths are in bytes, as on the  *)
(* air, because a value is read on when its response fills the MTU.         *)
(***************************************************************************)
EXTENDS HidDrivers

CONSTANTS
    MaxReport,   \* HID_MAX_REPORT
    NameSize,    \* sizeof(device_name)
    OurMtu       \* bt_att_get_le_max_mtu()

ASSUME AttAssumption ==
    /\ MaxReport \in Nat \ {0}
    /\ NameSize \in Nat \ {0}
    /\ OurMtu \in Nat /\ OurMtu >= 23

DeviceName == 0
Appearance == 1
Pnp == 2
FindHidHdls == 3
IdentHidHdls == 4
CharProp == 5
ReportMap == 6
ReportRef == 7
ReportCfg == 8
PpcpCfg == 9
BattLvl == 10
AttInitState == 11

LastHandle == 65535

ReadType(uuid, from, to) == [op |-> "read_type", uuid |-> uuid, from |-> from, to |-> to]
Read(h) == [op |-> "read", hdl |-> h]
ReadBlob(h, off) == [op |-> "blob", hdl |-> h, off |-> off]
ReadGroup(from) == [op |-> "read_group", from |-> from]
FindInfo(from, to) == [op |-> "find_info", from |-> from, to |-> to]

NoReport == [id |-> 0, prop |-> {}, hdl |-> 0, cfg |-> 0, ref |-> 0]

(* memset of hid_data; overrun: something was written past reports[]. *)
NoHid ==
    [name |-> 0, nameHdl |-> 0, start |-> 0, end |-> 0, map |-> 0, cnt |-> 0,
     found |-> FALSE, idx |-> 0, reports |-> [i \in 0 .. MaxReport - 1 |-> NoReport],
     overrun |-> FALSE]

-----------------------------------------------------------------------------
(* The last states, and bt_att_hid_continue_report_cfg that leads to them. *)

(* bt_att_hid_start_init *)
StartInit(s) == IF "intr_ready" \in s.flags THEN s ELSE HidInit(Flag(s, "intr_ready"))

StartLate(s) ==
    CASE s.st = PpcpCfg -> Send(s, ReadType("ppcp", 1, LastHandle))
      [] s.st = BattLvl -> Send(s, ReadType("batt", 1, LastHandle))
      [] s.st = AttInitState -> StartInit(s)
      [] OTHER -> s

(* A Switch 2 controller leaves the discovery after its name, once. *)
LeavesForSw2(s) == s.type = "sw2" /\ "init_done" \notin s.flags

(* Mutant: the search for the next report starts one further. *)
NextNotifySkip(h) == {i \in h.idx + 1 .. MaxReport - 1 : "notify" \in h.reports[i].prop}

(* The reports still to subscribe to *)
NextNotify(h) == {i \in h.idx .. MaxReport - 1 : "notify" \in h.reports[i].prop}

(* bt_att_hid_continue_report_cfg *)
ContinueReportCfg(s) ==
    IF NextNotify(s.hid) # {}
    THEN LET i == CHOOSE j \in NextNotify(s.hid) : \A k \in NextNotify(s.hid) : j <= k IN
         Send([s EXCEPT !.hid.idx = i + 1], WriteReq(s.hid.reports[i].cfg, TRUE))
    ELSE IF LeavesForSw2(s) THEN Sw2Init(s)
    ELSE StartLate(Bump(s))

(* start_state_func[] *)
StartState(s) ==
    CASE s.st = DeviceName -> Send(s, ReadType("name", 1, LastHandle))
      [] s.st = Appearance -> Send(s, ReadType("appearance", 1, LastHandle))
      [] s.st = Pnp -> Send(s, ReadType("pnp", 1, LastHandle))
      [] s.st = FindHidHdls -> Send(s, ReadGroup(1))
      [] s.st = IdentHidHdls -> Send(s, FindInfo(s.hid.start, s.hid.end))
      [] s.st = CharProp -> Send(s, ReadType("chrc", s.hid.start, s.hid.end))
      [] s.st = ReportMap -> Send(s, Read(s.hid.map))
      [] s.st = ReportRef -> Send([s EXCEPT !.hid.idx = 0], Read(s.hid.reports[0].ref))
      [] s.st = ReportCfg -> ContinueReportCfg([s EXCEPT !.hid.idx = 0])
      [] OTHER -> StartLate(s)

(* bt_att_hid_start_next_state *)
StartNext(s) == IF LeavesForSw2(s) THEN Sw2Init(s) ELSE StartState(Bump(s))

-----------------------------------------------------------------------------
(* process_state_func[]: a response of n bytes of value that fills the MTU   *)
(* or not; ERROR_RSP calls the same functions with data NULL.               *)

(* Mutant: a response that fills the MTU ends the value. *)
FillsOver(s, attLen) == attLen > s.mtu

Fills(s, attLen) == attLen = s.mtu

(* bt_hid_set_type_flags_from_name: the name known so far holds the name of *)
(* a known controller.                                                      *)
NameType(s, known) ==
    IF s.hid.name >= known.len THEN TypeUpdate(s, known.type, known.sub) ELSE s

(* bt_att_hid_process_device_name *)
ProcessName(s, attLen, n, known) ==
    LET fits == s.hid.name + n < NameSize
        more == [s EXCEPT !.hid.name = IF fits THEN @ + n ELSE NameSize - 1]
    IN IF fits /\ Fills(s, attLen)
       THEN Send(more, ReadBlob(s.hid.nameHdl, more.hid.name))
       ELSE StartNext(NameType(more, known))

NoName(s, known) == StartNext(NameType(s, known))

(* Where the next search for services starts *)
NextGroup(last) == last.end

(* bt_att_hid_process_find_hid_hdls: the last HID service is kept. *)
ProcessFindHdls(s, services) ==
    LET hids == {i \in 1 .. Len(services) : services[i].uuid = "hids"}
        last == CHOOSE i \in hids : \A j \in hids : j <= i
        kept == IF hids = {} THEN s.hid
                ELSE [s.hid EXCEPT !.start = services[last].start, !.end = services[last].end]
    IN Send([s EXCEPT !.hid = kept], ReadGroup(NextGroup(services[Len(services)])))

(* One field of reports[report_cnt] *)
SetReport(h, field, hdl) ==
    IF h.cnt < MaxReport THEN [h EXCEPT !.reports[h.cnt][field] = hdl]
    ELSE [h EXCEPT !.overrun = TRUE]

(* Mutant: the characteristics that are no report are counted too. *)
CountsEvery(h) == TRUE

(* A characteristic ends the one before it, which was a report or not. *)
CountsReport(h) == h.found

(* One attribute of the HID service; <<hid, TRUE>> when reports[] is full    *)
(* and the rest of the response is skipped.                                 *)
Ident(h, a) ==
    CASE a.uuid = "primary" -> <<[h EXCEPT !.cnt = 0], FALSE>>
      [] a.uuid = "chrc" ->
           IF CountsReport(h)
           THEN IF h.cnt + 1 = MaxReport THEN <<[h EXCEPT !.cnt = @ + 1], TRUE>>
                ELSE <<[h EXCEPT !.cnt = @ + 1, !.found = FALSE], FALSE>>
           ELSE <<[h EXCEPT !.found = FALSE], FALSE>>
      [] a.uuid = "report" -> <<[SetReport(h, "hdl", a.hdl) EXCEPT !.found = TRUE], FALSE>>
      [] a.uuid = "ccc" -> <<SetReport(h, "cfg", a.hdl), FALSE>>
      [] a.uuid = "ref" -> <<SetReport(h, "ref", a.hdl), FALSE>>
      [] a.uuid = "map" -> <<[h EXCEPT !.map = a.hdl], FALSE>>
      [] OTHER -> <<h, FALSE>>

(* bt_att_hid_process_ident_hid_hdls *)
ProcessIdent(s, attrs) ==
    LET n == Len(attrs)
        after[i \in 0 .. n] ==
            IF i = 0 THEN <<s.hid, FALSE>>
            ELSE IF after[i - 1][2] THEN after[i - 1]
            ELSE Ident(after[i - 1][1], attrs[i])
        read == [s EXCEPT !.hid = after[n][1]]
        last == attrs[n].hdl
    IN IF last < s.hid.end
       THEN Send(read, FindInfo(last + 1, s.hid.end))
       ELSE Send([read EXCEPT !.st = CharProp], ReadType("chrc", s.hid.start, s.hid.end))

(* bt_att_hid_process_char_prop; value is char_value_handle.  The code goes  *)
(* through the response in steps of a characteristic with a UUID of 16 bits *)
(* whatever its length field says, so this is what it does with those, and  *)
(* with a single characteristic whose UUID has 128 bits.                    *)
ProcessCharProp(s, chrcs) ==
    LET n == Len(chrcs)
        Of(r) == {i \in 1 .. n : chrcs[i].value = r.hdl}
        WithProp(r) == IF Of(r) = {} THEN r
                       ELSE [r EXCEPT !.prop = chrcs[CHOOSE i \in Of(r) : TRUE].prop]
        read == [s EXCEPT !.hid.reports = [i \in DOMAIN @ |-> WithProp(@[i])]]
        last == chrcs[n].hdl
    IN IF last < s.hid.end
       THEN Send(read, ReadType("chrc", last + 1, s.hid.end))
       ELSE StartNext(read)

(* The end of bt_att_hid_process_report_map: hid_parser gets what was read. *)
ParseMap(s) ==
    LET done == [s EXCEPT !.parsed = @ \cup {s.sdp}] IN
    IF s.hid.reports[s.hid.idx].ref # 0 THEN StartNext(done) ELSE done

(* bt_att_hid_process_report_map; mem: malloc gave the buffer.  The copy is  *)
(* not bounded by the 2048 bytes of the buffer; a value of at most 512, all *)
(* that ATT allows, fits.                                                   *)
ProcessMap(s, attLen, n, mem) ==
    LET more == [s EXCEPT !.sdp = @ + n] IN
    IF ~mem THEN s
    ELSE IF Fills(s, attLen) THEN Send(more, ReadBlob(s.hid.map, more.sdp))
    ELSE ParseMap(more)

(* The report whose reference is read *)
RefIndex(h) == h.idx

(* bt_att_hid_process_report_ref *)
ProcessRef(s, id) ==
    LET i == s.hid.idx
        read == [s EXCEPT !.hid.reports[RefIndex(s.hid)].id = id, !.hid.idx = i + 1]
    IN IF i + 1 < MaxReport /\ s.hid.reports[i + 1].ref # 0
       THEN Send(read, Read(s.hid.reports[i + 1].ref))
       ELSE StartNext(read)

(* Mutant: a refused request ends the discovery. *)
ErrorRspEnds(s, known, mem) == s

(* ERROR_RSP: bt_att_hid_process_current_state with data NULL.  Which       *)
(* request failed is not looked at.                                         *)
ErrorRsp(s, known, mem) ==
    CASE s.st = DeviceName -> NoName(s, known)
      [] s.st = ReportMap -> IF mem THEN ParseMap(s) ELSE s
      [] s.st = ReportCfg -> ContinueReportCfg(s)
      [] s.st \in {Appearance, Pnp, FindHidHdls, IdentHidHdls, CharProp, ReportRef, PpcpCfg, BattLvl} ->
           StartNext(s)
      [] OTHER -> s

-----------------------------------------------------------------------------
(* bt_att_hid_init and bt_att_hid_hdlr. *)

AttInit(s) ==
    IF "intr_pending" \in s.flags THEN s
    ELSE Send([Flag(s, "intr_pending") EXCEPT !.hid = NoHid], [op |-> "mtu_req", mtu |-> OurMtu])

(* MTU_RSP: the controller's own MTU is kept, larger than ours or not. *)
MtuRsp(s, mtu) ==
    IF "intr_ready" \in s.flags THEN [s EXCEPT !.mtu = mtu]
    ELSE StartState([s EXCEPT !.mtu = mtu, !.st = DeviceName])

ReadTypeRsp(s, m, known) ==
    CASE s.st = DeviceName ->
           LET named == [s EXCEPT !.hid.nameHdl = m.hdl] IN
           IF m.n > 0 THEN ProcessName(named, m.n + 4, m.n, known) ELSE Send(named, Read(m.hdl))
      [] s.st \in {Appearance, Pnp, PpcpCfg, BattLvl} -> StartNext(s)
      [] s.st = CharProp -> ProcessCharProp(s, m.chrcs)
      [] OTHER -> s

(* READ_RSP and READ_BLOB_RSP; a report reference is only read whole. *)
ReadRsp(s, m, known, mem) ==
    CASE s.st = DeviceName -> ProcessName(s, m.n + 1, m.n, known)
      [] s.st = ReportMap -> ProcessMap(s, m.n + 1, m.n, mem)
      [] s.st = ReportRef /\ m.op = "read_rsp" -> ProcessRef(s, m.id)
      [] OTHER -> s

(* Once the controller reports, no answer matters. *)
AttRsp(s, m, known, mem) ==
    IF "intr_ready" \in s.flags /\ m.op # "mtu_rsp" THEN s
    ELSE
    CASE m.op = "mtu_rsp" -> MtuRsp(s, m.mtu)
      [] m.op = "error_rsp" -> ErrorRsp(s, known, mem)
      [] m.op = "find_info_rsp" -> IF s.st = IdentHidHdls THEN ProcessIdent(s, m.attrs) ELSE s
      [] m.op = "read_type_rsp" -> ReadTypeRsp(s, m, known)
      [] m.op \in {"read_rsp", "blob_rsp"} -> ReadRsp(s, m, known, mem)
      [] m.op = "group_rsp" -> IF s.st = FindHidHdls THEN ProcessFindHdls(s, m.services) ELSE s
      [] m.op = "write_rsp" -> IF s.st = ReportCfg THEN ContinueReportCfg(s) ELSE s
      [] OTHER -> s

(* BT_ATT_OP_NOTIFY: <<handle, report id>> goes to bt_host_bridge; the       *)
(* notifications of a Switch 2 controller go to its driver.                 *)
Notify(s, hdl) ==
    LET with == {i \in DOMAIN s.hid.reports : s.hid.reports[i].hdl = hdl}
        first == CHOOSE i \in with : \A j \in with : i <= j
    IN IF with = {} THEN s
       ELSE [s EXCEPT !.bridged = @ \cup {<<hdl, s.hid.reports[first].id>>}]

AttHdlr(s, m, known, mem) ==
    CASE m.op = "notify" /\ s.type # "sw2" -> Notify(s, m.hdl)
      [] m.op = "sw2_ack" -> IF s.type = "sw2" THEN Sw2Ack(s, m) ELSE s
      [] OTHER -> AttRsp(s, m, known, mem)
=============================================================================
