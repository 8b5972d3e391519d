----------------------------- MODULE ConfigSvc ------------------------------
(***************************************************************************)
(* The configuration service (bluetooth/att_cfg.c) and the clients that     *)
(* configure the adapter through it, one after the other, over power cuts   *)
(* and restarts (main.c).  The build is the one of configs/none; that of    *)
(* the Xbox keeps the actions on IN_CFG, and the commands do nothing.       *)
(*                                                                         *)
(* A client writes the mapping of a device: it selects device and offset,   *)
(* writes AttMax units from there, in one request or prepared and executed, *)
(* and so on to the end.  A unit stands for the head of an in_cfg or for    *)
(* one entry; requests are answered one at a time.                          *)
(*                                                                         *)
(* The handlers run to their end in the callback of the Bluetooth           *)
(* controller, but the power can go while the file is written: flash holds  *)
(* the files that are still to be written.  Nobody reads the file before    *)
(* they are, so that a file is written in one step, unless the power goes.  *)
(***************************************************************************)
EXTENDS ConfigFile, CfgGatt, MemoryCard

CONSTANTS
    AttMax,       \* ATT_MAX_LEN, in units
    Mtus,         \* MTUs that clients ask for, in units
    MaxMtu,       \* bt_att_get_le_max_mtu()
    Files,        \* what an adapter may find on its file system
    Edits,        \* mappings that clients write: sequences of units
    MaxOps        \* bound on the settings, mappings and commands that clients send,
                  \* and on the writes of the file that a power cut ends

MinMtu == 2       \* of a client that does not ask: 23 bytes, one unit and its head

(* A file that a firmware wrote has the layout of its version. *)
LayoutFits(cfg) ==
    cfg.layout = CASE cfg.ver = 0 -> "v0" [] cfg.ver = 1 -> "v1" [] OTHER -> "v3"

ASSUME SvcAssumption ==
    /\ AttMax \in Nat \ {0} /\ MaxMtu \in Nat /\ MaxMtu >= MinMtu
    /\ Mtus \subseteq Nat /\ \A m \in Mtus : m >= MinMtu
    /\ MaxOps \in Nat
    /\ \A f \in Files : f = NoFile \/ (f \in File /\ f.exists /\ LayoutFits(f.cfg))
    /\ \A e \in Edits : /\ Len(e) \in 1 .. MappingMax + 1 /\ e = [k \in 1 .. Len(e) |-> e[k]]
                        /\ e[1] \in Nat /\ \A k \in 2 .. Len(e) : e[k] \in Entry

VARIABLES
    file,      \* the configuration file
    flash,     \* what is written to it before the handler returns
    ram,       \* config
    power,     \* "off", "boot", "on"
    fs,        \* fs_init succeeded
    svc,       \* the static variables of att_cfg.c
    conn,      \* the link of the client
    job,       \* what the client is writing
    ops,       \* what clients sent, and cuts ended, so far
    card,      \* the memory card in memory
    cardFile,  \* its file
    reading,   \* the client's reading of the card; prep: it prepared a write to it
    acked,     \* history: the configuration the clients were told is kept
    faults     \* history of the run since the start: what excuses a difference

mcVars == <<card, cardFile>>
vars == <<file, flash, ram, power, fs, svc, conn, job, ops, card, cardFile, reading, acked, faults>>

NoSvc == [mtu |-> MinMtu, id |-> 0, off |-> 0, outId |-> 0, ota |-> FALSE, mc |-> 0]
NoConn == [up |-> FALSE, mtu |-> MinMtu]
NoJob == [units |-> <<>>]
NoReading == [on |-> FALSE, prep |-> FALSE]
Least(a, b) == IF a <= b THEN a ELSE b

Init ==
    /\ file \in Files /\ flash = <<>> /\ ram = Zero
    /\ power = "off" /\ fs = FALSE
    /\ svc = NoSvc /\ conn = NoConn /\ job = NoJob /\ ops = 0
    /\ card = NewCard /\ cardFile = NoCardFile /\ reading = NoReading
    /\ acked = Zero /\ faults = {}

-----------------------------------------------------------------------------
(* Power. *)

(* app_main up to config_init: fs_init mounts the file system, formats it    *)
(* when that fails, or fails.                                               *)
Boot(mount) ==
    /\ power = "off"
    /\ LET found == IF mount = "formatted" THEN NoFile ELSE file
           up == mount # "failed"
           loaded == Load(up, found, Zero)
       IN /\ file' = found /\ fs' = up
          /\ ram' = loaded.cfg /\ flash' = loaded.states
          /\ acked' = loaded.cfg
          /\ faults' = {}
    /\ cardFile' = IF mount = "formatted" THEN NoCardFile ELSE cardFile
    /\ power' = "boot" /\ svc' = NoSvc
    /\ UNCHANGED <<conn, job, ops, card, reading>>

(* The rest of app_main, once the file is written.  mc_init runs when       *)
(* Bluetooth is up, and clients may connect while it creates the card.      *)
Started ==
    /\ power = "boot" /\ flash = <<>>
    /\ power' = "on"
    /\ LET init == McInit(ram.bank, fs, NewCard, cardFile) IN
       card' = init.card /\ cardFile' = init.onFile
    /\ UNCHANGED <<file, flash, ram, fs, svc, conn, job, ops, reading, acked, faults>>

CardStore ==
    /\ card.left > 0
    /\ LET stored == StoreNext(card, cardFile) IN
       card' = stored.card /\ cardFile' = stored.onFile
    /\ UNCHANGED <<file, flash, ram, power, fs, svc, conn, job, ops, reading, acked, faults>>

(* bt_mon_tx, of any packet to or from the Bluetooth controller *)
Trace(n) ==
    /\ power = "on" /\ ram.bank = BankDbg /\ HasRoom(card, n)
    /\ card' = MonTx(ram.bank, card, n)
    /\ UNCHANGED <<file, flash, ram, power, fs, svc, conn, job, ops, cardFile, reading, acked, faults>>

(* A file is written to its end. *)
Flash ==
    /\ flash # <<>>
    /\ file' = Head(flash) /\ flash' = Tail(flash)
    /\ UNCHANGED <<ram, power, fs, svc, conn, job, ops, mcVars, reading, acked, faults>>

(* The power goes; of the file that was to be written nothing is there yet,  *)
(* or a beginning, which counts as an operation for the bound.              *)
PowerCut ==
    /\ power # "off"
    /\ \/ UNCHANGED <<file, ops>>
       \/ /\ flash # <<>> /\ ops < MaxOps
          /\ file' \in Cuts(Head(flash)) /\ ops' = ops + 1
    /\ power' = "off" /\ flash' = <<>> /\ ram' = Zero /\ fs' = FALSE
    /\ svc' = NoSvc /\ conn' = NoConn /\ job' = NoJob
    /\ card' = NewCard /\ reading' = NoReading
    /\ faults' = faults \cup (IF flash # <<>> THEN {"cut"} ELSE {})
                        \cup (IF ~fs THEN {"fs"} ELSE {})
    /\ UNCHANGED <<cardFile, acked>>

-----------------------------------------------------------------------------
(* The link. *)

Ready == power = "on" /\ flash = <<>> /\ conn.up

Connect ==
    /\ power = "on" /\ ~conn.up
    /\ conn' = [up |-> TRUE, mtu |-> MinMtu]
    /\ UNCHANGED <<file, flash, ram, power, fs, svc, job, ops, mcVars, reading, acked, faults>>

(* What was prepared stays in config; the static variables stay too. *)
Disconnect ==
    /\ Ready
    /\ conn' = NoConn /\ job' = NoJob /\ reading' = NoReading
    /\ faults' = IF job # NoJob /\ job.sent > 0 THEN faults \cup {"dropped"} ELSE faults
    /\ UNCHANGED <<file, flash, ram, power, fs, svc, ops, mcVars, acked>>

(* BT_ATT_OP_MTU_REQ *)
MtuReq(m) ==
    /\ Ready /\ conn.mtu = MinMtu
    /\ svc' = [svc EXCEPT !.mtu = Least(m, MaxMtu)]
    /\ conn' = [conn EXCEPT !.mtu = Least(m, MaxMtu)]
    /\ UNCHANGED <<file, flash, ram, power, fs, job, ops, mcVars, reading, acked, faults>>

-----------------------------------------------------------------------------
(* BT_ATT_OP_WRITE_REQ, PREPARE_WRITE_REQ and EXEC_WRITE_REQ. *)

(* A client sends something new when it is through with its last mapping;   *)
(* otherwise it goes on with that.                                          *)
Idle == Ready /\ job = NoJob /\ ~reading.prep /\ ops < MaxOps /\ ops' = ops + 1
Request == Idle /\ reading' = NoReading
Continue == Ready /\ job # NoJob /\ UNCHANGED <<ops, reading>>

(* Every WRITE_REQ first ends the debug trace. *)
NoTrace(cfg) == IF cfg.bank = BankDbg THEN [cfg EXCEPT !.bank = BankOff] ELSE cfg

(* memcpy into in_cfg[id] at offset at: the head is map_size. *)
Put(cfg, id, at, units) ==
    [cfg EXCEPT !.maps[id] =
        [size |-> IF at = 0 THEN units[1] ELSE @.size,
         ents |-> [j \in Index |-> IF j + 1 \in at .. at + Len(units) - 1
                                   THEN units[j + 2 - at] ELSE @.ents[j]]]]

(* config_update(config_get_src()) *)
Update(cfg) == ram' = cfg /\ flash' = Store(fs, cfg)

(* BR_GLBL_CFG_CHRC_HDL *)
WriteGlobal(bank) ==
    /\ Request
    /\ Update([ram EXCEPT !.bank = bank])
    /\ acked' = [acked EXCEPT !.bank = bank]
    /\ UNCHANGED <<file, power, fs, svc, conn, job, faults, mcVars>>

(* BR_OUT_CFG_CTRL_CHRC_HDL, and then BR_OUT_CFG_DATA_CHRC_HDL *)
SelectOut(i) ==
    /\ Request
    /\ svc' = [svc EXCEPT !.outId = i]
    /\ ram' = NoTrace(ram)
    /\ UNCHANGED <<file, flash, power, fs, conn, job, acked, faults, mcVars>>

WriteOut(mode) ==
    /\ Request
    /\ Update([NoTrace(ram) EXCEPT !.out[svc.outId] = mode])
    /\ acked' = [NoTrace(acked) EXCEPT !.out[svc.outId] = mode]
    /\ UNCHANGED <<file, power, fs, svc, conn, job, faults, mcVars>>

(* A client takes up a mapping. *)
Begin(id, units) ==
    /\ Request
    /\ job' = [id |-> id, units |-> units, win |-> 0, sent |-> 0, selected |-> FALSE]
    /\ UNCHANGED <<file, flash, ram, power, fs, svc, conn, acked, faults, mcVars>>

Window == SubSeq(job.units, job.win + 1, Least(job.win + AttMax, Len(job.units)))

(* The window is written: on to the next, or done *)
NextWindow ==
    job' = IF job.win + AttMax < Len(job.units)
           THEN [job EXCEPT !.win = @ + AttMax, !.sent = 0, !.selected = FALSE]
           ELSE NoJob

(* BR_IN_CFG_CTRL_CHRC_HDL *)
SelectIn ==
    /\ Continue /\ ~job.selected
    /\ svc' = [svc EXCEPT !.id = job.id, !.off = job.win]
    /\ ram' = NoTrace(ram)
    /\ job' = [job EXCEPT !.selected = TRUE]
    /\ UNCHANGED <<file, flash, power, fs, conn, acked, faults, mcVars>>

(* BR_IN_CFG_DATA_CHRC_HDL in one request *)
WriteIn ==
    /\ Continue /\ job.selected /\ job.sent = 0
    /\ Len(Window) < conn.mtu
    /\ Update(Put(NoTrace(ram), svc.id, svc.off, Window))
    /\ acked' = Put(NoTrace(acked), job.id, job.win, Window)
    /\ NextWindow
    /\ UNCHANGED <<file, power, fs, svc, conn, faults, mcVars>>

(* Where a prepared part goes: in place, at once *)
PrepareAt(offset) == svc.off + offset

(* BT_ATT_OP_PREPARE_WRITE_REQ; a part is a unit. *)
PrepareIn ==
    /\ Continue /\ job.selected /\ job.sent < Len(Window)
    /\ ~(Len(Window) < conn.mtu)
    /\ ram' = Put(ram, svc.id, PrepareAt(job.sent), <<Window[job.sent + 1]>>)
    /\ job' = [job EXCEPT !.sent = @ + 1]
    /\ UNCHANGED <<file, flash, power, fs, svc, conn, acked, faults, mcVars>>

(* Mutant: what is executed is stored with the next write. *)
ExecStoresNot == FALSE

ExecStores == ~svc.ota

(* BT_ATT_OP_EXEC_WRITE_REQ; during an update of the firmware it is taken   *)
(* for the end of a part of the firmware.                                   *)
ExecIn ==
    /\ Continue /\ job.sent > 0 /\ job.sent = Len(Window)
    /\ flash' = IF ExecStores THEN Store(fs, ram) ELSE flash
    /\ acked' = Put(NoTrace(acked), job.id, job.win, Window)
    /\ faults' = IF svc.ota THEN faults \cup {"ota"} ELSE faults
    /\ NextWindow
    /\ UNCHANGED <<file, ram, power, fs, svc, conn, mcVars>>

(* The client gives up: BT_ATT_FLAG_CANCEL. *)
CancelIn ==
    /\ Continue /\ job.sent > 0
    /\ job' = NoJob /\ faults' = faults \cup {"cancelled"}
    /\ UNCHANGED <<file, flash, ram, power, fs, svc, conn, acked, mcVars>>

-----------------------------------------------------------------------------
(* BR_CFG_CMD_CHRC_HDL: bt_att_cfg_cmd_wr_hdlr. *)

(* CFG_CMD_SET_DEFAULT_CFG: config_init; without a game there is no file to *)
(* remove.                                                                  *)
SetDefault ==
    /\ Request
    /\ LET loaded == Load(fs, file, NoTrace(ram)) IN
       /\ ram' = loaded.cfg /\ flash' = loaded.states
       /\ acked' = loaded.cfg
    /\ UNCHANGED <<file, power, fs, svc, conn, job, faults, mcVars>>

(* CFG_CMD_SET_GAMEID_CFG: config_update, of the only file there is *)
SetGameid ==
    /\ Request
    /\ Update(NoTrace(ram))
    /\ acked' = NoTrace(acked)
    /\ UNCHANGED <<file, power, fs, svc, conn, job, faults, mcVars>>

(* CFG_CMD_OTA_START, which may fail, OTA_END and OTA_ABORT.  When the boot  *)
(* partition cannot be set, the handle stays.                               *)
Ota(started) ==
    /\ Request
    /\ svc' = [svc EXCEPT !.ota = started]
    /\ ram' = NoTrace(ram)
    /\ UNCHANGED <<file, flash, power, fs, conn, job, acked, faults, mcVars>>

(* CFG_CMD_DEL_FILE, of the configuration *)
DelFile ==
    /\ Request /\ fs
    /\ file' = NoFile /\ ram' = NoTrace(ram)
    /\ faults' = faults \cup {"deleted"}
    /\ UNCHANGED <<flash, power, fs, svc, conn, job, acked, mcVars>>

-----------------------------------------------------------------------------
(* The memory card. *)

(* BR_MC_CTRL_CHRC_HDL: the client selects an address to read from. *)
SelectCard(at) ==
    /\ Idle
    /\ svc' = [svc EXCEPT !.mc = at]
    /\ ram' = NoTrace(ram)
    /\ reading' = [on |-> TRUE, prep |-> FALSE, from |-> at, was |-> card.buf, got |-> <<>>]
    /\ UNCHANGED <<file, flash, power, fs, conn, job, acked, faults, mcVars>>

(* BR_MC_DATA_CHRC_HDL: READ_REQ, READ_BLOB_REQ; either goes on where the    *)
(* last one ended.                                                          *)
ReadCard ==
    /\ Ready /\ reading.on /\ svc.mc < CardSize
    /\ LET n == CardRdLen(svc.mc, svc.mtu) IN
       /\ reading' = [reading EXCEPT !.got = @ \o McRead(card, svc.mc, n)]
       /\ svc' = [svc EXCEPT !.mc = @ + n]
    /\ UNCHANGED <<file, flash, ram, power, fs, conn, job, ops, acked, faults, mcVars>>

(* BR_MC_DATA_CHRC_HDL: WRITE_REQ, and PREPARE_WRITE_REQ, which leaves a      *)
(* trace on and writes at once.  Clients write within the card.             *)
WriteCard(n, prepared) ==
    /\ Idle
    /\ svc.mc + n <= CardSize /\ n < conn.mtu
    /\ ram' = IF prepared THEN ram ELSE NoTrace(ram)
    /\ card' = McWrite(ram'.bank, card, svc.mc, n, "client")
    /\ svc' = [svc EXCEPT !.mc = @ + n]
    /\ reading' = [on |-> FALSE, prep |-> prepared]
    /\ UNCHANGED <<file, flash, power, fs, conn, job, cardFile, acked, faults>>

(* EXEC_WRITE_REQ after that stores the configuration. *)
ExecCard ==
    /\ Ready /\ reading.prep
    /\ flash' = IF ExecStores THEN Store(fs, ram) ELSE flash
    /\ reading' = NoReading
    /\ UNCHANGED <<file, ram, power, fs, svc, conn, job, ops, acked, faults, mcVars>>

-----------------------------------------------------------------------------
Next ==
    \/ \E mount \in {"mounted", "formatted", "failed"} : Boot(mount)
    \/ Started \/ Flash \/ PowerCut
    \/ Connect \/ Disconnect \/ \E m \in Mtus : MtuReq(m)
    \/ \E bank \in {0, BankDbg} : WriteGlobal(bank)
    \/ \E i \in Dev : SelectOut(i)
    \/ WriteOut("mouse")
    \/ \E id \in Dev, units \in Edits : Begin(id, units)
    \/ SelectIn \/ WriteIn \/ PrepareIn \/ ExecIn \/ CancelIn
    \/ SetDefault \/ SetGameid
    \/ \E started \in BOOLEAN : Ota(started)
    \/ DelFile
    \/ CardStore \/ \E n \in 1 .. 2 : Trace(n)
    \/ SelectCard(1)
    \/ ReadCard \/ \E prepared \in BOOLEAN : WriteCard(2, prepared)
    \/ ExecCard

Spec == Init /\ [][Next]_vars

-----------------------------------------------------------------------------
(* Reading: what a request for IN_CFG_DATA is answered with. *)

(* Units of an in_cfg that hold something *)
CfgLen(map) == 1 + map.size

(* Mutant: an offset at the end of the window is refused. *)
RdLenNarrow(map, off, offset, mtu) ==
    IF off + offset > CfgLen(map) \/ offset > AttMax THEN 0
    ELSE Least(Least(CfgLen(map) - (off + offset), mtu - 1), AttMax - 1 - offset)

(* bt_att_cmd_in_cfg_rd_rsp: how many units, from off + offset *)
RdLen(map, off, offset, mtu) ==
    IF off + offset > CfgLen(map) \/ offset > AttMax THEN 0
    ELSE Least(Least(CfgLen(map) - (off + offset), mtu - 1), AttMax - offset)

(* The length of the window at off as a client reads it: READ_REQ, then     *)
(* READ_BLOB_REQ as long as an answer is full                               *)
WindowLen(map, off, mtu) ==
    LET from[offset \in 0 .. AttMax] ==
            LET n == RdLen(map, off, offset, mtu) IN
            IF n < mtu - 1 \/ n = 0 THEN n ELSE n + from[offset + n]
    IN from[0]

(* The length of a mapping, read window by window until one is not full *)
ReadLen(map, mtu) ==
    LET from[k \in 0 .. MappingMax + 2] ==
            LET n == WindowLen(map, k * AttMax, mtu) IN
            IF n < AttMax THEN n ELSE n + from[k + 1]
    IN from[0]

-----------------------------------------------------------------------------
(* Properties. *)

(* The configuration cfg is the one that clients were told of.  The bank   *)
(* for debugging may have ended: every WRITE_REQ ends the trace in memory,  *)
(* and the next store, of whatever else, takes that along.                  *)
Kept(cfg, told) ==
    /\ cfg.out = told.out /\ cfg.maps = told.maps
    /\ cfg.bank = told.bank \/ (told.bank = BankDbg /\ cfg.bank = BankOff)

(* What a client was told is kept is there after the next start, and        *)
(* nothing else: executed and written mappings, device modes and the bank.  *)
(* Not so when the power went while the file was written, when the file     *)
(* system was missing, when a client dropped or cancelled what it had       *)
(* prepared, which is in config already, when it executed during an update  *)
(* of the firmware, which is not stored, or deleted the file.               *)
Survives ==
    [][Boot("mounted") /\ acked # Zero /\ faults = {} => Kept(ram', acked)]_vars

(* Of the mapping last, this much was in the file, and no more. *)
Beginning(map, last) ==
    \/ map = Zero.maps[0]
    \/ /\ map.size = last.size
       /\ \E n \in 0 .. MappingMax : \A j \in Index :
            /\ j < n => map.ents[j] = last.ents[j]
            /\ j = n => map.ents[j] \in {"none", "junk"}
            /\ j > n => map.ents[j] = "none"

(* A power cut in the middle of a store, at whatever byte, costs settings,   *)
(* and those of the last devices first: after the start the configuration   *)
(* has the latest version and either all mappings are the default, or up to *)
(* some device they are the stored ones, that device has a beginning of its *)
(* own, with at most one entry that is none of them, and the devices behind *)
(* have none; each device has the mode it was given or that of a pad.       *)
(* Unless the file was of an older version (config_store_on_file,           *)
(* config_load_from_file).                                                  *)
CutBounded ==
    [][Boot("mounted") /\ faults = {"cut"} /\ file.cfg.ver = Latest /\ file.cfg.layout = "v3"
        => /\ ram'.ver = Latest
           /\ \A i \in Dev : ram'.out[i] \in {file.cfg.out[i], "pad"}
           /\ \/ \A i \in Dev : ram'.maps[i] = MappingBank(Zero.maps[i])
              \/ \E d \in 0 .. Devs : \A i \in Dev :
                    /\ i < d => ram'.maps[i] = file.cfg.maps[i]
                    /\ i = d => Beginning(ram'.maps[i], file.cfg.maps[i])
                    /\ i > d => ram'.maps[i] = Zero.maps[i]]_vars

(* Starting with the file of an older firmware keeps every entry of every    *)
(* mapping and adds the combo of the menu behind them, once; for versions 1 *)
(* and 2, and mappings with room for it (config_v1_update,                  *)
(* config_v2_update).                                                       *)
UpgradeKeeps ==
    [][Boot("mounted") /\ file = Whole(file.cfg) /\ file.cfg.ver \in {1, 2}
        /\ (\A i \in Dev : file.cfg.maps[i].size < MappingMax)
        => \A i \in Dev : LET old == file.cfg.maps[i] IN
              /\ ram'.maps[i].size = old.size + 1
              /\ \A j \in 0 .. old.size - 1 : ram'.maps[i].ents[j] = old.ents[j]
              /\ ram'.maps[i].ents[old.size] = "combo"]_vars

(* A client that reads the mapping of a device gets all of it, whatever its *)
(* length, the MTU and the windows; unless it asks for no MTU of its own    *)
(* and the service goes on with the one of an earlier client                *)
(* (bt_att_cmd_in_cfg_rd_rsp).                                              *)
ReadWhole ==
    Ready /\ conn.mtu = svc.mtu
        => \A i \in Dev : ram.maps[i].size <= MappingMax
                => ReadLen(ram.maps[i], svc.mtu) = CfgLen(ram.maps[i])

(* A client that selects an address of the card and reads from there on gets *)
(* the words that follow it, each once, as they were when it selected: no   *)
(* answer runs past a block, the address goes on by what was sent, and the  *)
(* trace that another task writes to the same buffer has ended.  Not so     *)
(* once something was written past the end of a block.                      *)
CardReads ==
    reading.on /\ ~card.over
        => \A k \in DOMAIN reading.got : reading.got[k] = reading.was[reading.from + k - 1]

(* A client that discovers the services of an adapter, however it goes on    *)
(* from one answer to the next, finds each service and each characteristic  *)
(* once, in both builds, and can read and write them as they are declared:  *)
(* the handles, the answers and the requests agree though each is written   *)
(* out by hand.                                                             *)
Discovery == Ready => DiscoveryRight
=============================================================================
