------------------------------ MODULE CfgGatt -------------------------------
(***************************************************************************)
(* The attributes of the configuration service (bluetooth/att_cfg.c): the   *)
(* handles of both builds, what a client finds when it discovers them, and  *)
(* which requests are answered.                                             *)
(*                                                                         *)
(* xbox says which build.  A service is a group of handles: its own, then   *)
(* for each characteristic its declaration and its value.  An answer is the *)
(* sequence of its entries; an error has none.                              *)
(***************************************************************************)
EXTENDS Integers, Sequences

Error == <<>>
MaxHandle == \hFFFF

-----------------------------------------------------------------------------
(* The handles. *)

Service(xbox) == IF xbox THEN <<"gap", "br">> ELSE <<"gatt", "gap", "br">>

FirstHdl(xbox, s) ==
    CASE s = "gatt" -> 1
      [] s = "gap" -> IF xbox THEN 1 ELSE \h14
      [] s = "br" -> IF xbox THEN \h10 ELSE \h40

Chars(xbox, s) ==
    CASE s = "gatt" -> <<"srvc_ch">>
      [] s = "gap" -> <<"dev_name", "app", "ppcp">>
      [] s = "br" -> IF xbox THEN <<"in_cfg_ctrl", "in_cfg_data", "cfg_cmd">>
                     ELSE <<"glbl_cfg", "out_cfg_ctrl", "out_cfg_data", "in_cfg_ctrl", "in_cfg_data",
                            "abi_ver", "cfg_cmd", "ota_fw_data", "fw_ver", "mc_ctrl", "mc_data", "bd_addr">>

LastHdl(xbox, s) == FirstHdl(xbox, s) + 2 * Len(Chars(xbox, s))
Att(xbox, s, i) == FirstHdl(xbox, s) + 2 * i - 1
Hdl(xbox, s, i) == Att(xbox, s, i) + 1

(* The characteristic with its value at h *)
CharAt(xbox, h) ==
    LET services == Service(xbox)
        at(s) == {i \in 1 .. Len(Chars(xbox, s)) : Hdl(xbox, s, i) = h}
        in == {k \in DOMAIN services : at(services[k]) # {}}
    IN IF in = {} THEN "none"
       ELSE LET s == services[CHOOSE k \in in : TRUE] IN Chars(xbox, s)[CHOOSE i \in at(s) : TRUE]

-----------------------------------------------------------------------------
(* Discovery. *)

Group(xbox, s) == [first |-> FirstHdl(xbox, s), last |-> LastHdl(xbox, s)]
Junk == [first |-> -1, last |-> -1]

(* bt_att_cmd_read_group_rsp.  GAP has its place behind GATT: without GATT   *)
(* the one entry that is sent is what was in the buffer.                    *)
ReadGroupReq(xbox, start, end) ==
    LET in(s) == start <= FirstHdl(xbox, s) /\ end >= LastHdl(xbox, s)
        gap == in("gap")
        gatt == ~xbox /\ in("gatt")
    IN IF start > LastHdl(xbox, "br") THEN Error
       ELSE IF start <= LastHdl(xbox, "gap")
            THEN CASE gatt /\ gap -> <<Group(xbox, "gatt"), Group(xbox, "gap")>>
                   [] gatt /\ ~gap -> <<Group(xbox, "gatt")>>
                   [] ~gatt /\ gap -> IF xbox THEN <<Group(xbox, "gap")>> ELSE <<Junk>>
                   [] OTHER -> <<>>
       ELSE IF in("br") THEN <<Group(xbox, "br")>> ELSE <<>>

(* The three bt_att_cmd_*_char_read_type_rsp: a declaration is its handle,   *)
(* that of the value, what may be done with it, and its UUID.               *)
GattChar(xbox) ==
    <<[att |-> Att(xbox, "gatt", 1), hdl |-> Hdl(xbox, "gatt", 1), props |-> {"indicate"},
       uuid |-> "srvc_ch"]>>

GapChars(xbox) ==
    [i \in 1 .. 3 |-> [att |-> Att(xbox, "gap", i), hdl |-> Hdl(xbox, "gap", i), props |-> {"read"},
                       uuid |-> Chars(xbox, "gap")[i]]]

BrProps(char) ==
    CASE char \in {"abi_ver", "fw_ver", "bd_addr"} -> {"read"}
      [] char \in {"out_cfg_ctrl", "ota_fw_data", "mc_ctrl", "in_cfg_ctrl"} -> {"write"}
      [] OTHER -> {"read", "write"}

(* Mutant: an odd handle is taken for a value. *)
BrAttNext(start) == IF start % 2 = 0 THEN start + 1 ELSE start + 2

BrAtt(start) == IF start % 2 = 0 THEN start + 1 ELSE start

BrChar(xbox, start) ==
    LET att == BrAtt(start) IN
    <<[att |-> att, hdl |-> att + 1, props |-> BrProps(CharAt(xbox, att + 1)),
       uuid |-> (att - FirstHdl(xbox, "br")) \div 2 + 1]>>

(* BT_ATT_OP_READ_TYPE_REQ for BT_UUID_GATT_CHRC *)
ReadTypeReq(xbox, start, end) ==
    LET gatt == FirstHdl(xbox, "gatt") .. LastHdl(xbox, "gatt") - 1
        lastGap == LastHdl(xbox, "gap")
        lastBr == LastHdl(xbox, "br")
        firstGap == IF xbox THEN FirstHdl(xbox, "gap") ELSE LastHdl(xbox, "gatt")
    IN IF ~xbox /\ start \in gatt /\ end >= Hdl(xbox, "gatt", 1) THEN GattChar(xbox)
       ELSE IF start \in firstGap .. lastGap - 1 /\ end >= lastGap THEN GapChars(xbox)
       ELSE IF start \in lastGap .. lastBr - 1 /\ end >= lastBr THEN BrChar(xbox, start)
       ELSE Error

-----------------------------------------------------------------------------
(* Which values can be read and written. *)

GapValues == {"dev_name", "app", "ppcp"}
CfgValues == {"glbl_cfg", "out_cfg_data"}
CmdValues == {"abi_ver", "fw_ver", "fw_name", "bd_addr", "gameid", "cfg_src", "file"}

(* bt_att_cfg_cmd_rd_hdlr: by the last command, else the ABI version. *)
CmdRdHdlr(cmd) == IF cmd \in CmdValues THEN <<cmd>> ELSE <<"abi_ver">>

(* BT_ATT_OP_READ_REQ *)
ReadReq(xbox, h, cmd) ==
    LET char == CharAt(xbox, h) IN
    CASE char = "cfg_cmd" -> CmdRdHdlr(cmd)
      [] char \in GapValues \cup {"in_cfg_data"} -> <<char>>
      [] ~xbox /\ char \in CfgValues \cup {"abi_ver", "fw_ver", "mc_data", "bd_addr"} -> <<char>>
      [] OTHER -> Error

(* BT_ATT_OP_WRITE_REQ *)
WriteReq(xbox, h) ==
    LET char == CharAt(xbox, h) IN
    IF \/ char \in {"in_cfg_data", "in_cfg_ctrl", "cfg_cmd"}
       \/ ~xbox /\ char \in {"glbl_cfg", "out_cfg_data", "out_cfg_ctrl", "ota_fw_data", "mc_ctrl", "mc_data"}
    THEN <<char>> ELSE Error

-----------------------------------------------------------------------------
(* A client.  It asks for services from the first handle on, and goes on     *)
(* behind the last one it got; then for the characteristics of each, where  *)
(* it goes on behind the last declaration (hop = 1) or its value (hop = 2). *)
(* The walks end with an error or with nothing found; Junk ends it too.     *)

FoundServices(xbox) ==
    LET from[h \in 1 .. \h100] ==
            LET ans == ReadGroupReq(xbox, h, MaxHandle) IN
            IF ans = Error THEN <<>>
            ELSE ans \o (IF ans[Len(ans)] = Junk THEN <<>> ELSE from[ans[Len(ans)].last + 1])
    IN from[1]

FoundChars(xbox, hop, group) ==
    LET from[h \in 1 .. \h100] ==
            LET ans == IF h > group.last THEN Error ELSE ReadTypeReq(xbox, h, group.last) IN
            IF ans = Error THEN <<>> ELSE ans \o from[ans[Len(ans)].att + hop]
    IN from[group.first]

(* What there is to be found, once each and with a UUID of its own, and can *)
(* then be read or written exactly when its declaration says so             *)
ServicesRight(xbox) ==
    FoundServices(xbox) = [i \in 1 .. Len(Service(xbox)) |-> Group(xbox, Service(xbox)[i])]

CharsRight(xbox, hop, s) ==
    LET found == FoundChars(xbox, hop, Group(xbox, s)) IN
    /\ Len(found) = Len(Chars(xbox, s))
    /\ \A i \in DOMAIN found :
        /\ found[i].hdl = Hdl(xbox, s, i)
        /\ \A j \in DOMAIN found : found[i].uuid = found[j].uuid => i = j
        /\ "read" \in found[i].props <=> ReadReq(xbox, found[i].hdl, "none") # Error
        /\ "write" \in found[i].props <=> WriteReq(xbox, found[i].hdl) # Error

DiscoveryRight ==
    \A xbox \in BOOLEAN :
        /\ ServicesRight(xbox)
        /\ \A hop \in 1 .. 2, i \in DOMAIN Service(xbox) : CharsRight(xbox, hop, Service(xbox)[i])
=============================================================================
