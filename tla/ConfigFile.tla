----------------------------- MODULE ConfigFile -----------------------------
(***************************************************************************)
(* The configuration and its file (adapter/config.c): defaults, the upgrade *)
(* of older files, loading and storing.                                     *)
(*                                                                         *)
(* struct config is a record: ver stands for the magic (-1: none of them),  *)
(* layout for how the bytes behind it are laid out, maps for in_cfg[]; an   *)
(* in_cfg is its map_size and its entries.  over: something was written     *)
(* past the end of the struct.                                              *)
(*                                                                         *)
(* A file is [exists, has, cfg]: has is where it ends.  Part 0 is the head   *)
(* (the magic, the bank, the out_cfg's), part 1 + i in_cfg[i] (its map_size, *)
(* its entries): a file that ends at [part, units, torn] has the parts       *)
(* before that one, so many units of that one and, torn, some bytes of the  *)
(* next entry.  A call that stores returns the files it writes, one after   *)
(* the other.                                                               *)
(*                                                                         *)
(* gid_get() is empty at this commit, the task that calls gid_update is not *)
(* started, so there is one configuration file.                             *)
(***************************************************************************)
EXTENDS Integers, Sequences

CONSTANTS
    Devs,         \* WIRED_MAX_DEV
    MappingMax,   \* ADAPTER_MAPPING_MAX
    KbmMax,       \* KBM_MAX: entries of a default mapping
    OldFits,      \* in_cfg's of version 1 within the first sizeof(struct config) bytes
    NvsBank,      \* "bank" of the NVS, -1: it has none
    NvsMap,       \* entries of the NVS, a function of their index
    Entry         \* entries of a mapping

BankDbg == \hDB               \* CONFIG_BANKSEL_DBG
BankOff == \hFF

ASSUME ConfigAssumption ==
    /\ Devs \in Nat \ {0} /\ KbmMax \in Nat \ {0}
    /\ MappingMax \in 0 .. 255 /\ KbmMax + 2 <= MappingMax
    /\ OldFits \in 0 .. Devs - 1
    /\ {"none", "default", "combo", "junk"} \subseteq Entry
    /\ NvsBank \in -1 .. 255 /\ DOMAIN NvsMap \subseteq 0 .. MappingMax - 1
    /\ \A j \in DOMAIN NvsMap : NvsMap[j] \in Entry

Dev == 0 .. Devs - 1
Index == 0 .. MappingMax - 1
ComboCnt == 1                 \* BR_COMBO_CNT
Latest == 3                   \* CONFIG_VERSION

(* struct in_cfg, struct config, and the file *)
Map == [size : Nat, ents : [Index -> Entry]]
Config ==
    [ver : -1 .. Latest, bank : 0 .. 255, layout : {"v0", "v1", "v3"}, over : BOOLEAN,
     out : [Dev -> {"pad", "mouse"}], maps : [Dev -> Map]]
Place == [part : 0 .. 1 + Devs, units : Nat, torn : BOOLEAN]
File == [exists : BOOLEAN, has : Place, cfg : Config]

(* struct config before anything is loaded *)
Zero ==
    [ver |-> -1, bank |-> 0, layout |-> "v3", over |-> FALSE,
     out |-> [i \in Dev |-> "pad"],
     maps |-> [i \in Dev |-> [size |-> 0, ents |-> [j \in Index |-> "none"]]]]

At(part, units, torn) == [part |-> part, units |-> units, torn |-> torn]
WholeAt == At(1 + Devs, 0, FALSE)
NoFile == [exists |-> FALSE, has |-> At(0, 0, FALSE), cfg |-> Zero]
Whole(cfg) == [exists |-> TRUE, has |-> WholeAt, cfg |-> cfg]

(* A unit of a part is in the file, or begun. *)
In(has, part, unit) == part < has.part \/ (part = has.part /\ unit < has.units)
Begun(has, part, unit) == has.torn /\ part = has.part /\ unit = has.units

-----------------------------------------------------------------------------
(* Defaults. *)

(* config_init_mapping_bank *)
MappingBank(map) ==
    [size |-> KbmMax + ComboCnt,
     ents |-> [j \in Index |-> CASE j < KbmMax -> "default"
                                 [] j \in KbmMax .. KbmMax + ComboCnt - 1 -> "combo"
                                 [] OTHER -> map.ents[j]]]

(* config_init_struct *)
InitStruct(cfg) ==
    [cfg EXCEPT !.ver = Latest, !.layout = "v3", !.bank = 0, !.out = [i \in Dev |-> "pad"],
                !.maps = [i \in Dev |-> MappingBank(@[i])]]

(* config_init_nvs_patch *)
NvsPatch(cfg) ==
    [cfg EXCEPT
        !.bank = IF NvsBank >= 0 THEN NvsBank ELSE @,
        !.maps = [i \in Dev |->
            [size |-> @[i].size,
             ents |-> [j \in Index |-> IF j \in DOMAIN NvsMap THEN NvsMap[j] ELSE @[i].ents[j]]]]]

(* The configuration of an adapter that was never configured *)
Defaults(cfg) == NvsPatch(InitStruct(cfg))

-----------------------------------------------------------------------------
(* Storing: config_store_on_file.  fs: the file system is there, or fopen    *)
(* fails and nothing is told of it.  The struct has the size of the latest  *)
(* version, so that of version 1 only the first in_cfg's are written.       *)

Stored(cfg) ==
    [exists |-> TRUE, cfg |-> cfg,
     has |-> IF cfg.layout = "v1" THEN At(1 + OldFits, 0, FALSE) ELSE WholeAt]

Store(fs, cfg) == IF fs THEN <<Stored(cfg)>> ELSE <<>>

(* The file after a call, when the power lasts *)
After(file, states) == IF states = <<>> THEN file ELSE states[Len(states)]

(* Where a file may end: before any unit, or in an entry *)
Ends ==
    {at \in [part : 0 .. Devs, units : 0 .. 1 + Devs + MappingMax, torn : BOOLEAN] :
        /\ at.units <= IF at.part = 0 THEN 1 + Devs ELSE MappingMax
        /\ at.torn => at.part > 0 /\ at.units > 0}

(* What a cut may leave of a file that is being written: fopen "wb" emptied  *)
(* it, and fwrite got as far as this.                                       *)
Cuts(stored) == {[stored EXCEPT !.has = at] : at \in {e \in Ends : e.part < stored.has.part}}

-----------------------------------------------------------------------------
(* The upgrades.  Each marks its result with the magic of the latest version *)
(* and stores it; the result is [cfg, states].                              *)

(* config_v0_update: a byte is inserted, the rest keeps its layout. *)
V0Update(fs, file, cfg) ==
    LET new == [cfg EXCEPT !.ver = Latest, !.layout = "v1"] IN
    [cfg |-> new, states |-> Store(fs, new)]

Clamp(size) == IF size > MappingMax THEN MappingMax ELSE size

(* config_v1_update: the in_cfg's are read again from the file, at their     *)
(* places in version 1; when the file does not hold them all, defaults.     *)
V1Update(fs, file, cfg) ==
    LET head == [cfg EXCEPT !.ver = Latest, !.bank = 0]
        read == file.exists /\ file.cfg.layout = "v1" /\ file.has = WholeAt
        new == IF read
               THEN [head EXCEPT !.layout = "v3",
                                 !.maps = [i \in Dev |-> [file.cfg.maps[i] EXCEPT !.size = Clamp(@)]]]
               ELSE Defaults(head)
    IN [cfg |-> new, states |-> Store(fs, new)]

(* One default combo behind the entries of slot i.  When they fill map_cfg[] *)
(* it is written over the head and the first entry of the next in_cfg: its  *)
(* dst_id, i, becomes the map_size there.                                   *)
AddCombo(cfg, i) ==
    LET j == cfg.maps[i].size
        sized == [cfg EXCEPT !.maps[i].size = (@ + ComboCnt) % 256]
    IN IF j < MappingMax THEN [sized EXCEPT !.maps[i].ents[j] = "combo"]
       ELSE IF i + 1 \in Dev
            THEN [sized EXCEPT !.maps[i + 1].size = i, !.maps[i + 1].ents[0] = "junk"]
       ELSE [sized EXCEPT !.over = TRUE]

(* Mutant: only the first mapping gets its combos. *)
V2UpdateFirst(fs, file, cfg) ==
    LET new == [AddCombo(cfg, 0) EXCEPT !.ver = Latest] IN
    [cfg |-> new, states |-> Store(fs, new)]

(* config_v2_update *)
V2Update(fs, file, cfg) ==
    LET added[i \in 0 .. Devs] ==
            IF i = 0 THEN [cfg EXCEPT !.ver = Latest] ELSE AddCombo(added[i - 1], i - 1)
    IN [cfg |-> added[Devs], states |-> Store(fs, added[Devs])]

(* config_ver_update[v], after so, the [cfg, states] of the updates before it *)
VerUpdate(fs, file, v, so) ==
    LET now == After(file, so.states)
        new == CASE v = 0 -> V0Update(fs, now, so.cfg)
                 [] v = 1 -> V1Update(fs, now, so.cfg)
                 [] OTHER -> V2Update(fs, now, so.cfg)
    IN [cfg |-> new.cfg, states |-> so.states \o new.states]

(* The updates from version v on *)
Upgrade(fs, file, v, cfg) ==
    LET step[i \in v .. Latest] ==
            IF i = v THEN [cfg |-> cfg, states |-> <<>>]
            ELSE VerUpdate(fs, file, i - 1, step[i - 1])
    IN step[Latest]

-----------------------------------------------------------------------------
(* Loading. *)

(* fread into struct config: what the file does not hold stays as it was,    *)
(* and of an entry that the file holds in part both are left.               *)
ReadMap(has, part, new, old) ==
    [size |-> IF In(has, part, 0) THEN new.size ELSE old.size,
     ents |-> [j \in Index |-> CASE In(has, part, 1 + j) -> new.ents[j]
                                 [] Begun(has, part, 1 + j) -> "junk"
                                 [] OTHER -> old.ents[j]]]

Fread(file, cfg) ==
    LET From(unit) == IF In(file.has, 0, unit) THEN file.cfg ELSE cfg IN
    [ver |-> From(0).ver, layout |-> From(0).layout, bank |-> From(1).bank,
     out |-> [i \in Dev |-> From(2 + i).out[i]],
     maps |-> [i \in Dev |-> ReadMap(file.has, 1 + i, file.cfg.maps[i], cfg.maps[i])],
     over |-> cfg.over]

(* Bytes of version 1 under the magic of the latest version, which a cut     *)
(* after config_v0_update leaves, are taken for a configuration of that     *)
(* version all the same.  Nothing is said of what it is then: junk here.    *)
TakenFor(cfg) ==
    IF cfg.layout = "v3" THEN cfg
    ELSE [cfg EXCEPT !.layout = "v3",
                     !.maps = [i \in Dev |-> [size |-> 0, ents |-> [j \in Index |-> "junk"]]]]

(* Mutant: a configuration without a magic is taken as it is. *)
LoadAny(fs, file, cfg) ==
    IF ~fs \/ ~file.exists
    THEN [cfg |-> Defaults(cfg), states |-> Store(fs, Defaults(cfg))]
    ELSE LET read == Fread(file, cfg) IN
         CASE read.ver \in {-1, Latest} -> [cfg |-> TakenFor(read), states |-> <<>>]
           [] OTHER -> Upgrade(fs, file, read.ver, read)

(* config_load_from_file: [cfg, states].  The result of fread is not looked *)
(* at: the magic alone says whether what is now in memory is any good.      *)
Load(fs, file, cfg) ==
    IF ~fs \/ ~file.exists
    THEN [cfg |-> Defaults(cfg), states |-> Store(fs, Defaults(cfg))]
    ELSE LET read == Fread(file, cfg) IN
         CASE read.ver = Latest -> [cfg |-> TakenFor(read), states |-> <<>>]
           [] read.ver = -1 -> [cfg |-> InitStruct(read), states |-> Store(fs, InitStruct(read))]
           [] OTHER -> Upgrade(fs, file, read.ver, read)
=============================================================================
