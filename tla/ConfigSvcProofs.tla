-------------------------- MODULE ConfigSvcProofs ---------------------------
(***************************************************************************)
(* Proofs about ConfigSvc and the modules it extends, for every number of   *)
(* devices, size of the mappings and of the card, file that a firmware may  *)
(* have written, mapping that clients write, MTU and number of requests.    *)
(*                                                                         *)
(* The inductive invariant is SvcIInv: the file, and every content it goes  *)
(* through, is one a firmware wrote (FileInv); memory holds a configuration *)
(* of the latest version while the power is on (CfgInv); a client that has  *)
(* selected a window is the last that did (JobInv); without faults the file *)
(* ends as, and memory is, what clients were told, with what is prepared of *)
(* the next window on top (Durable); the address of the card goes on with   *)
(* the reading (CardInv).                                                   *)
(*                                                                         *)
(* Most of the work is about data: what loading, storing and each upgrade   *)
(* return, and that loading what was stored gives what was stored.  The     *)
(* recursive functions of the model have no induction theorem here; that    *)
(* they exist, and what they compute, is shown by a least index at which    *)
(* that would be wrong (LeastNat).                                          *)
(***************************************************************************)
EXTENDS ConfigSvc, SequenceTheorems, WellFoundedInduction, TLAPS

(* What is on the flash under the name of the file: nothing, or parts of a   *)
(* configuration, laid out as its version has it; the latest version may    *)
(* also have been put before the layout of version 1 (config_v0_update).    *)
FileFits(f) ==
    /\ f \in File
    /\ f.exists \/ f = NoFile
    /\ f.cfg.ver # Latest => LayoutFits(f.cfg)

(* What config_load_from_file leaves in memory *)
Current(cfg) == cfg \in Config /\ cfg.ver = Latest /\ cfg.layout = "v3"

(* What is to be written to the flash is there once it is.                   *)
FileWritten(f) == FileFits(f) /\ f.exists

Loaded(f) == Load(TRUE, f, Zero).cfg

-----------------------------------------------------------------------------
(* The sizes of the build                                                   *)
LEMMA Sizes ==
    /\ Devs \in Nat /\ Devs > 0 /\ MappingMax \in Nat /\ MappingMax <= 255 /\ MappingMax > 1
    /\ OldFits \in Nat /\ OldFits < Devs
BY ConfigAssumption

(* The latest version is one of them.                                       *)
LEMMA LatestIn == Latest \in -1 .. Latest
BY DEF Latest

(* Memory before anything is loaded, and a file that is not there           *)
LEMMA ZeroType == Zero \in Config /\ Zero.ver = -1 /\ FileFits(NoFile)
<1>1. Zero.maps \in [Dev -> Map]
  BY ConfigAssumption DEF Zero, Map
<1>2. Zero \in Config
  BY <1>1 DEF Zero, Config, Latest
<1>3. Zero.ver = -1 /\ LayoutFits(Zero)
  BY DEF Zero, LayoutFits
<1>4. NoFile \in File
  BY <1>2, Sizes DEF NoFile, File, At, Place
<1> QED BY <1>2, <1>3, <1>4 DEF FileFits, NoFile

(* The default mapping of a device is a mapping.                            *)
LEMMA BankType ==
    ASSUME NEW map \in Map
    PROVE  MappingBank(map) \in Map
<1> DEFINE ents == [j \in Index |-> CASE j < KbmMax -> "default"
                                 [] j \in KbmMax .. KbmMax + ComboCnt - 1 -> "combo"
                                 [] OTHER -> map.ents[j]]
<1>1. ASSUME NEW j \in Index PROVE ents[j] \in Entry
  <2>1. map.ents[j] \in Entry
    BY DEF Map
  <2> QED BY <2>1, ConfigAssumption
<1>2. ents \in [Index -> Entry]
  BY <1>1
<1>3. KbmMax + ComboCnt \in Nat
  BY ConfigAssumption DEF ComboCnt
<1> QED BY <1>2, <1>3 DEF MappingBank, Map

(* config_init_struct leaves a configuration of the latest version with the *)
(* default mappings.                                                        *)
LEMMA InitStructType ==
    ASSUME NEW cfg \in Config
    PROVE  /\ Current(InitStruct(cfg))
           /\ InitStruct(cfg).maps = [i \in Dev |-> MappingBank(cfg.maps[i])]
<1> DEFINE maps == [i \in Dev |-> MappingBank(cfg.maps[i])]
<1>1. maps \in [Dev -> Map]
  BY BankType DEF Config
<1>2. InitStruct(cfg) = [cfg EXCEPT !.ver = Latest, !.layout = "v3", !.bank = 0,
                                    !.out = [i \in Dev |-> "pad"], !.maps = maps]
  BY DEF InitStruct
<1> DEFINE pads == [i \in Dev |-> "pad"]
           new == InitStruct(cfg)
<1>3. pads \in [Dev -> {"pad", "mouse"}]
  OBVIOUS
<1>4. new = [cfg EXCEPT !.ver = Latest, !.layout = "v3", !.bank = 0, !.out = pads, !.maps = maps]
  BY <1>2
<1> HIDE DEF maps, pads, new
<1>5. /\ new = [ver |-> new.ver, bank |-> new.bank, layout |-> new.layout,
                over |-> new.over, out |-> new.out, maps |-> new.maps]
      /\ new.ver = Latest /\ new.layout = "v3" /\ new.bank = 0 /\ new.over = cfg.over
      /\ new.out = pads /\ new.maps = maps
  BY <1>4 DEF Config
<1>6. cfg.over \in BOOLEAN
  BY DEF Config
<1>7. Current(new)
  BY <1>1, <1>3, <1>5, <1>6 DEF Current, Config, Latest
<1> QED BY <1>5, <1>7 DEF new, maps

(* The patch from the NVS keeps it one.                                     *)
LEMMA NvsPatchType ==
    ASSUME NEW cfg, Current(cfg)
    PROVE  Current(NvsPatch(cfg))
<1> DEFINE ents(i) == [j \in Index |-> IF j \in DOMAIN NvsMap THEN NvsMap[j]
                                       ELSE cfg.maps[i].ents[j]]
           maps == [i \in Dev |-> [size |-> cfg.maps[i].size, ents |-> ents(i)]]
           bank == IF NvsBank >= 0 THEN NvsBank ELSE cfg.bank
<1>0. cfg \in Config /\ cfg.ver = Latest /\ cfg.layout = "v3"
  BY DEF Current
<1>1. ASSUME NEW i \in Dev PROVE maps[i] \in Map
  <2>1. cfg.maps[i] \in Map
    BY <1>0 DEF Config
  <2>2. ents(i) \in [Index -> Entry]
    BY <2>1, ConfigAssumption DEF Map
  <2> HIDE DEF ents
  <2> QED BY <2>1, <2>2 DEF Map
<1>2. maps \in [Dev -> Map]
  BY <1>1
<1>3. bank \in 0 .. 255
  BY <1>0, ConfigAssumption DEF Config
<1>4. NvsPatch(cfg) = [cfg EXCEPT !.bank = bank, !.maps = maps]
  BY DEF NvsPatch
<1> DEFINE mid == [cfg EXCEPT !.bank = bank]
           new == NvsPatch(cfg)
<1> HIDE DEF maps, bank
<1>5. mid \in Config /\ mid.ver = Latest /\ mid.layout = "v3"
  BY <1>0, <1>3 DEF Config
<1>6. new = [mid EXCEPT !.maps = maps]
  BY <1>4
<1> HIDE DEF mid, new
<1>7. new \in Config /\ new.ver = mid.ver /\ new.layout = mid.layout
  BY <1>2, <1>5, <1>6 DEF Config
<1> QED BY <1>5, <1>7 DEF Current, new

(* So are the defaults.                                                     *)
LEMMA DefaultsType ==
    ASSUME NEW cfg \in Config
    PROVE  Current(Defaults(cfg))
BY InitStructType, NvsPatchType DEF Defaults

(* Version 1 is stored shorter than the others.                             *)
LEMMA StoredType ==
    ASSUME NEW cfg \in Config
    PROVE  /\ Stored(cfg) \in File /\ Stored(cfg).exists /\ Stored(cfg).cfg = cfg
           /\ cfg.layout # "v1" => Stored(cfg) = Whole(cfg)
<1>1. WholeAt \in Place /\ At(1 + OldFits, 0, FALSE) \in Place
  BY Sizes DEF WholeAt, At, Place
<1> QED BY <1>1 DEF Stored, Whole, File

(* config_store_on_file *)
LEMMA StoreType ==
    ASSUME NEW cfg \in Config, cfg.ver = Latest, NEW up \in BOOLEAN, NEW f
    PROVE  /\ Store(up, cfg) \in Seq(File)
           /\ \A k \in 1 .. Len(Store(up, cfg)) : FileWritten(Store(up, cfg)[k])
           /\ up => Store(up, cfg) # <<>> /\ After(f, Store(up, cfg)) = Stored(cfg)
           /\ ~up => Store(up, cfg) = <<>>
<1>1. CASE ~up
  <2>1. Store(up, cfg) = <<>>
    BY <1>1 DEF Store
  <2> QED BY <1>1, <2>1, EmptySeq
<1>2. CASE up
  <2>1. Stored(cfg) \in File /\ FileWritten(Stored(cfg))
    BY StoredType DEF FileWritten, FileFits
  <2> DEFINE one == Stored(cfg)
             s == <<one>>
  <2>2. Store(up, cfg) = s
    BY <1>2 DEF Store
  <2> HIDE DEF one
  <2>3. s \in Seq(File) /\ Len(s) = 1 /\ s[1] = one /\ s # <<>>
    BY <2>1 DEF one
  <2> HIDE DEF s
  <2>4. \A k \in 1 .. Len(s) : FileWritten(s[k])
    BY <2>1, <2>3 DEF one
  <2>5. After(f, s) = one
    BY <2>3 DEF After
  <2> QED BY <1>2, <2>2, <2>3, <2>4, <2>5 DEF one
<1> QED BY <1>1, <1>2

-----------------------------------------------------------------------------
(* The mapping of slot i with a combo behind its entries *)
WithCombo(map) == [size |-> map.size + 1, ents |-> [map.ents EXCEPT ![map.size] = "combo"]]

(* Fields that an update of the mappings leaves alone *)
SameHead(a, b) == a.ver = b.ver /\ a.layout = b.layout /\ a.bank = b.bank /\ a.out = b.out

(* The fields of a configuration                                            *)
LEMMA CfgFields ==
    ASSUME NEW cfg \in Config
    PROVE  /\ cfg.ver \in -1 .. Latest /\ cfg.bank \in 0 .. 255 /\ cfg.layout \in {"v0", "v1", "v3"}
           /\ cfg.over \in BOOLEAN /\ cfg.out \in [Dev -> {"pad", "mouse"}]
           /\ cfg.maps \in [Dev -> Map]
BY DEF Config

(* The fields of a mapping                                                  *)
LEMMA MapFields ==
    ASSUME NEW map \in Map
    PROVE  /\ map.size \in Nat /\ map.ents \in [Index -> Entry]
           /\ map = [size |-> map.size, ents |-> map.ents]
BY DEF Map

(* All mappings replaced                                                    *)
LEMMA NewMaps ==
    ASSUME NEW cfg \in Config, NEW maps \in [Dev -> Map]
    PROVE  LET new == [cfg EXCEPT !.maps = maps] IN
           new \in Config /\ new.maps = maps /\ new.over = cfg.over /\ SameHead(new, cfg)
BY DEF Config, SameHead

(* The mapping of one device replaced *)
LEMMA NewMap ==
    ASSUME NEW cfg \in Config, NEW i \in Dev, NEW map \in Map
    PROVE  LET new == [cfg EXCEPT !.maps[i] = map] IN
           /\ new \in Config /\ new.maps = [cfg.maps EXCEPT ![i] = map]
           /\ new.over = cfg.over /\ SameHead(new, cfg)
<1> DEFINE maps == [cfg.maps EXCEPT ![i] = map]
<1>1. maps \in [Dev -> Map]
  BY CfgFields
<1>2. [cfg EXCEPT !.maps[i] = map] = [cfg EXCEPT !.maps = maps]
  OBVIOUS
<1> HIDE DEF maps
<1>3. LET new == [cfg EXCEPT !.maps = maps] IN
      new \in Config /\ new.maps = maps /\ new.over = cfg.over /\ SameHead(new, cfg)
  BY <1>1, NewMaps
<1> QED BY <1>2, <1>3 DEF maps

(* One combo added: the mapping of the device grows by it, if it has room.  *)
LEMMA AddComboType ==
    ASSUME NEW cfg \in Config, NEW i \in Dev
    PROVE  /\ AddCombo(cfg, i) \in Config /\ SameHead(AddCombo(cfg, i), cfg)
           /\ cfg.maps[i].size < MappingMax =>
                 AddCombo(cfg, i).maps = [cfg.maps EXCEPT ![i] = WithCombo(cfg.maps[i])]
<1> DEFINE j == cfg.maps[i].size
           n == (j + ComboCnt) % 256
           new == AddCombo(cfg, i)
           short == [size |-> n, ents |-> cfg.maps[i].ents]
           sized == [cfg EXCEPT !.maps[i] = short]
<1>0. cfg.maps \in [Dev -> Map]
  BY CfgFields
<1>1. cfg.maps[i] \in Map /\ j \in Nat /\ i \in Nat /\ cfg.maps[i].ents \in [Index -> Entry]
  <2>1. cfg.maps[i] \in Map
    BY <1>0
  <2>2. i \in Nat
    BY Sizes DEF Dev
  <2> QED BY <2>1, <2>2, MapFields
<1>2. n \in Nat /\ (j < MappingMax => n = j + 1)
  <2>1. j + 1 \in Nat /\ (j < MappingMax => j + 1 \in 0 .. 255)
    <3>1. \A x \in Nat : x + 1 \in Nat /\ (x < MappingMax => x + 1 \in 0 .. 255)
      BY Sizes
    <3> QED BY <1>1, <3>1
  <2>2. \A x \in Nat : x % 256 \in Nat /\ (x \in 0 .. 255 => x % 256 = x)
    OBVIOUS
  <2> QED BY <2>1, <2>2 DEF ComboCnt
<1>3. short \in Map
  BY <1>1, <1>2 DEF Map
<1>4. [cfg EXCEPT !.maps[i].size = (@ + ComboCnt) % 256] = sized
  <2>1. [cfg.maps[i] EXCEPT !.size = (@ + ComboCnt) % 256] = short
    BY <1>1, MapFields
  <2> HIDE DEF short
  <2> QED BY <2>1
<1> HIDE DEF short
<1>5. /\ sized \in Config /\ sized.maps = [cfg.maps EXCEPT ![i] = short] /\ SameHead(sized, cfg)
  BY <1>3, NewMap
<1> HIDE DEF sized
<1>6. sized.maps \in [Dev -> Map] /\ sized.maps[i] = short
  BY <1>0, <1>3, <1>5
<1>8. CASE j < MappingMax
  <2> DEFINE long == [size |-> n, ents |-> [cfg.maps[i].ents EXCEPT ![j] = "combo"]]
  <2>1. long \in Map /\ long = WithCombo(cfg.maps[i])
    BY <1>1, <1>2, <1>8, ConfigAssumption DEF Map, WithCombo
  <2>2. new = [sized EXCEPT !.maps[i].ents[j] = "combo"]
    BY <1>4, <1>8 DEF AddCombo
  <2>3. [sized.maps[i] EXCEPT !.ents[j] = "combo"] = long
    BY <1>1, <1>6 DEF short
  <2> HIDE DEF long
  <2>4. new = [sized EXCEPT !.maps[i] = long]
    BY <2>2, <2>3
  <2>5. new \in Config /\ SameHead(new, sized) /\ new.maps = [sized.maps EXCEPT ![i] = long]
    BY <1>5, <2>1, <2>4, NewMap
  <2>6. new.maps = [cfg.maps EXCEPT ![i] = long]
    BY <1>0, <1>5, <2>5
  <2> QED BY <1>5, <2>1, <2>5, <2>6 DEF SameHead
<1>9. CASE ~(j < MappingMax) /\ i + 1 \in Dev
  <2> DEFINE before == sized.maps[i + 1]
             half == [size |-> i, ents |-> before.ents]
             junk == [size |-> i, ents |-> [before.ents EXCEPT ![0] = "junk"]]
             first == [sized EXCEPT !.maps[i + 1] = half]
  <2>1. 0 \in Index /\ before \in Map
    BY <1>6, <1>9, ConfigAssumption DEF Index
  <2>2. junk \in Map /\ half \in Map /\ before.ents \in [Index -> Entry]
    BY <1>1, <2>1, ConfigAssumption, MapFields DEF Map
  <2>3. /\ first \in Config /\ SameHead(first, sized)
        /\ first.maps = [sized.maps EXCEPT ![i + 1] = half]
    BY <1>5, <1>9, <2>2, NewMap
  <2>4. first.maps[i + 1] = half
    BY <1>6, <1>9, <2>3
  <2>5. [sized EXCEPT !.maps[i + 1].size = i] = first
    <3>1. [before EXCEPT !.size = i] = half
      BY <2>1, MapFields
    <3> HIDE DEF half
    <3> QED BY <3>1
  <2>6. new = [first EXCEPT !.maps[i + 1].ents[0] = "junk"]
    BY <1>4, <1>9, <2>5 DEF AddCombo
  <2>7. [first.maps[i + 1] EXCEPT !.ents[0] = "junk"] = junk
    BY <2>2, <2>4
  <2> HIDE DEF junk, first
  <2>8. new = [first EXCEPT !.maps[i + 1] = junk]
    BY <2>6, <2>7
  <2>9. new \in Config /\ SameHead(new, first)
    BY <1>9, <2>2, <2>3, <2>8, NewMap
  <2> QED BY <1>5, <1>9, <2>3, <2>9 DEF SameHead
<1>10. CASE ~(j < MappingMax) /\ i + 1 \notin Dev
  <2>1. new = [sized EXCEPT !.over = TRUE]
    BY <1>4, <1>10 DEF AddCombo
  <2>2. new \in Config /\ SameHead(new, sized)
    BY <1>5, <2>1 DEF Config, SameHead
  <2> QED BY <1>5, <1>10, <2>2 DEF SameHead
<1> QED BY <1>8, <1>9, <1>10

-----------------------------------------------------------------------------
(* Induction over the numbers, by the least counterexample. *)
LEMMA LeastNat ==
    ASSUME NEW T \in SUBSET Nat, T # {}
    PROVE  \E x \in T : \A y \in T : x <= y
<1> DEFINE R == OpToRel(<, Nat)
<1>1. IsWellFoundedOn(R, Nat)
  BY NatLessThanWellFounded
<1>2. \A y, x \in Nat : y < x => <<y, x>> \in R
  BY DEF OpToRel
<1> HIDE DEF R
<1>3. PICK x \in T : \A y \in T : ~ (<<y, x>> \in R)
  BY <1>1, WFMin
<1>4. ASSUME NEW y \in T PROVE x <= y
  <2>1. x \in Nat /\ y \in Nat
    OBVIOUS
  <2>2. ~(y < x)
    BY <1>2, <1>3, <2>1
  <2> QED BY <2>1, <2>2
<1> QED BY <1>4

(* The least of a set that is not empty: 0, or its predecessor is not in it *)
LEMMA LeastCase ==
    ASSUME NEW T \in SUBSET Nat, T # {}
    PROVE  \E x \in T : x = 0 \/ (x - 1 \in Nat /\ x - 1 \notin T)
<1>1. PICK x \in T : \A y \in T : x <= y
  BY LeastNat
<1>2. CASE x = 0
  BY <1>2
<1>3. CASE x # 0
  <2>1. x \in Nat /\ x - 1 \in Nat /\ ~(x <= x - 1)
    BY <1>3
  <2> QED BY <1>1, <2>1
<1> QED BY <1>2, <1>3

(* f is the function that config_v2_update computes, up to device n *)
AddRun(f, cfg, n) ==
    f = [i \in 0 .. n |-> IF i = 0 THEN [cfg EXCEPT !.ver = Latest] ELSE AddCombo(f[i - 1], i - 1)]

(* The function config_v2_update is modelled by exists for every number of  *)
(* devices.                                                                 *)
LEMMA AddRunExists ==
    ASSUME NEW cfg
    PROVE  \A n \in Nat : \E f : AddRun(f, cfg, n)
<1> DEFINE T == {n \in Nat : ~\E f : AddRun(f, cfg, n)}
<1> SUFFICES ASSUME T # {} PROVE FALSE
  OBVIOUS
<1>1. PICK n \in T : n = 0 \/ (n - 1 \in Nat /\ n - 1 \notin T)
  BY LeastCase
<1>2. CASE n = 0
  <2> DEFINE f == [i \in 0 .. 0 |-> [cfg EXCEPT !.ver = Latest]]
  <2>1. AddRun(f, cfg, 0)
    BY DEF AddRun
  <2> QED BY <1>1, <1>2, <2>1
<1>3. CASE n # 0
  <2>1. n \in Nat /\ n - 1 \in Nat
    BY <1>1, <1>3
  <2>2. PICK f : AddRun(f, cfg, n - 1)
    BY <1>1, <1>3
  <2> DEFINE h == [i \in 0 .. n |-> IF i = n THEN AddCombo(f[n - 1], n - 1) ELSE f[i]]
  <2>3. \A i \in 0 .. n - 1 :
          f[i] = IF i = 0 THEN [cfg EXCEPT !.ver = Latest] ELSE AddCombo(f[i - 1], i - 1)
    BY <2>2 DEF AddRun
  <2>4. ASSUME NEW i \in 0 .. n
        PROVE  h[i] = IF i = 0 THEN [cfg EXCEPT !.ver = Latest] ELSE AddCombo(h[i - 1], i - 1)
    <3>1. CASE i = n
      BY <1>3, <2>1, <3>1
    <3>2. CASE i # n
      <4>1. i \in 0 .. n - 1
        BY <2>1, <3>2
      <4>2. i # 0 => i - 1 \in 0 .. n /\ i - 1 # n
        BY <2>1
      <4> QED BY <2>3, <3>2, <4>1, <4>2
    <3> QED BY <3>1, <3>2
  <2>5. AddRun(h, cfg, n)
    BY <2>4 DEF AddRun
  <2> QED BY <2>5
<1> QED BY <1>2, <1>3

(* What config_v2_update has done when it comes to device i *)
Added(new, cfg, i) ==
    /\ new \in Config /\ new.ver = Latest /\ new.layout = cfg.layout
    /\ new.bank = cfg.bank /\ new.out = cfg.out
    /\ (\A d \in Dev : cfg.maps[d].size < MappingMax) =>
          \A d \in Dev : new.maps[d] = IF d < i THEN WithCombo(cfg.maps[d]) ELSE cfg.maps[d]

(* Adding the combo of device i takes config_v2_update to device i + 1.     *)
LEMMA AddedNext ==
    ASSUME NEW cfg \in Config, NEW new, NEW i \in Dev, Added(new, cfg, i)
    PROVE  Added(AddCombo(new, i), cfg, i + 1)
<1> DEFINE next == AddCombo(new, i)
<1>1. new \in Config
  BY DEF Added
<1>2. /\ next \in Config /\ SameHead(next, new)
      /\ new.maps[i].size < MappingMax =>
            next.maps = [new.maps EXCEPT ![i] = WithCombo(new.maps[i])]
  BY <1>1, AddComboType
<1> HIDE DEF next
<1>3. ASSUME \A d \in Dev : cfg.maps[d].size < MappingMax, NEW d \in Dev
      PROVE  next.maps[d] = IF d < i + 1 THEN WithCombo(cfg.maps[d]) ELSE cfg.maps[d]
  <2>1. \A e \in Dev : new.maps[e] = IF e < i THEN WithCombo(cfg.maps[e]) ELSE cfg.maps[e]
    BY <1>3 DEF Added
  <2>2. i \in Int /\ d \in Int
    BY Sizes DEF Dev
  <2>3. new.maps[i] = cfg.maps[i]
    BY <2>1, <2>2
  <2>4. next.maps = [new.maps EXCEPT ![i] = WithCombo(cfg.maps[i])]
    BY <1>2, <1>3, <2>3
  <2>5. new.maps \in [Dev -> Map]
    BY <1>1, CfgFields
  <2>6. next.maps[d] = IF d = i THEN WithCombo(cfg.maps[i]) ELSE new.maps[d]
    BY <2>4, <2>5
  <2>7. d < i + 1 <=> d = i \/ d < i
    BY <2>2
  <2> QED BY <2>1, <2>6, <2>7
<1>4. Added(next, cfg, i + 1)
  BY <1>2, <1>3 DEF Added, SameHead
<1> QED BY <1>4 DEF next

(* So it gets to the last device: there is no first one it does not get to. *)
LEMMA AddRunAdded ==
    ASSUME NEW cfg \in Config, NEW f, AddRun(f, cfg, Devs)
    PROVE  Added(f[Devs], cfg, Devs)
<1>0. /\ f[0] = [cfg EXCEPT !.ver = Latest]
      /\ \A i \in 1 .. Devs : f[i] = AddCombo(f[i - 1], i - 1)
  <2>1. 0 \in 0 .. Devs /\ \A i \in 1 .. Devs : i \in 0 .. Devs /\ i # 0
    BY Sizes
  <2>2. \A i \in 0 .. Devs :
          f[i] = IF i = 0 THEN [cfg EXCEPT !.ver = Latest] ELSE AddCombo(f[i - 1], i - 1)
    BY DEF AddRun
  <2> QED BY <2>1, <2>2
<1> DEFINE T == {n \in 0 .. Devs : ~Added(f[n], cfg, n)}
<1>1. SUFFICES ASSUME T # {} PROVE FALSE
  <2>1. Devs \in 0 .. Devs
    BY Sizes
  <2> QED BY <2>1
<1>2. T \in SUBSET Nat
  BY Sizes
<1>3. PICK n \in T : n = 0 \/ (n - 1 \in Nat /\ n - 1 \notin T)
  BY <1>1, <1>2, LeastCase
<1>4. CASE n = 0
  <2>1. f[0] \in Config /\ f[0].ver = Latest /\ f[0].layout = cfg.layout
        /\ f[0].bank = cfg.bank /\ f[0].out = cfg.out /\ f[0].maps = cfg.maps
    BY <1>0 DEF Config, Latest
  <2>2. \A d \in Dev : ~(d < 0)
    BY Sizes DEF Dev
  <2>3. Added(f[0], cfg, 0)
    BY <2>1, <2>2 DEF Added
  <2> QED BY <1>3, <1>4, <2>3
<1>5. CASE n # 0
  <2>1. n \in 1 .. Devs /\ n - 1 \in 0 .. Devs /\ n - 1 \in Dev /\ (n - 1) + 1 = n
    BY <1>3, <1>5, Sizes DEF Dev
  <2>2. Added(f[n - 1], cfg, n - 1)
    BY <1>3, <1>5, <2>1
  <2>3. Added(AddCombo(f[n - 1], n - 1), cfg, (n - 1) + 1)
    BY <2>1, <2>2, AddedNext
  <2>4. Added(f[n], cfg, n)
    BY <1>0, <2>1, <2>3
  <2> QED BY <1>3, <2>4
<1> QED BY <1>4, <1>5

(* config_v2_update adds its combos to every device.                        *)
LEMMA V2UpdateType ==
    ASSUME NEW cfg \in Config, NEW up, NEW f
    PROVE  /\ Added(V2Update(up, f, cfg).cfg, cfg, Devs)
           /\ V2Update(up, f, cfg).states = Store(up, V2Update(up, f, cfg).cfg)
<1>1. \E g : AddRun(g, cfg, Devs)
  BY AddRunExists, Sizes
<1> DEFINE g == CHOOSE h : AddRun(h, cfg, Devs)
<1>2. AddRun(g, cfg, Devs)
  BY <1>1
<1>3. V2Update(up, f, cfg) = [cfg |-> g[Devs], states |-> Store(up, g[Devs])]
  BY DEF V2Update, AddRun
<1> HIDE DEF g
<1>4. Added(g[Devs], cfg, Devs)
  BY <1>2, AddRunAdded
<1> QED BY <1>3, <1>4

-----------------------------------------------------------------------------
(* A configuration and what was written of it *)
Stage(so) ==
    /\ so.cfg \in Config /\ so.states \in Seq(File)
    /\ \A k \in 1 .. Len(so.states) : FileWritten(so.states[k])

(* The file after some of the contents it goes through                      *)
LEMMA AfterFits ==
    ASSUME NEW f, FileFits(f), NEW states \in Seq(File),
           \A k \in 1 .. Len(states) : FileWritten(states[k])
    PROVE  FileFits(After(f, states))
<1>1. CASE states = <<>>
  BY <1>1 DEF After
<1>2. CASE states # <<>>
  <2>1. Len(states) \in 1 .. Len(states)
    BY <1>2
  <2> QED BY <1>2, <2>1 DEF After, FileWritten
<1> QED BY <1>1, <1>2

(* What a store appends *)
LEMMA StoreAppends ==
    ASSUME NEW cfg \in Config, cfg.ver = Latest, NEW f, NEW states \in Seq(File),
           \A k \in 1 .. Len(states) : FileWritten(states[k])
    PROVE  LET all == states \o Store(TRUE, cfg) IN
           /\ Stage([cfg |-> cfg, states |-> all]) /\ all # <<>>
           /\ After(f, all) = Stored(cfg)
<1> DEFINE s == Store(TRUE, cfg)
           all == states \o s
<1>1. /\ s \in Seq(File) /\ s # <<>> /\ After(f, s) = Stored(cfg)
      /\ \A k \in 1 .. Len(s) : FileWritten(s[k])
  BY StoreType
<1> HIDE DEF s
<1>2. /\ all \in Seq(File) /\ Len(all) = Len(states) + Len(s)
      /\ \A k \in 1 .. Len(all) :
            all[k] = IF k <= Len(states) THEN states[k] ELSE s[k - Len(states)]
  BY <1>1
<1>3. Len(s) \in Nat /\ Len(states) \in Nat /\ Len(s) > 0
  BY <1>1
<1> HIDE DEF all
<1>4. ASSUME NEW k \in 1 .. Len(all) PROVE FileWritten(all[k])
  <2>1. CASE k <= Len(states)
    BY <1>2, <1>3, <2>1
  <2>2. CASE ~(k <= Len(states))
    <3>1. k - Len(states) \in 1 .. Len(s)
      BY <1>2, <1>3, <2>2
    <3> QED BY <1>1, <1>2, <2>2, <3>1
  <2> QED BY <2>1, <2>2
<1>5. all # <<>> /\ all[Len(all)] = s[Len(s)]
  BY <1>2, <1>3
<1>6. After(f, all) = After(f, s)
  BY <1>1, <1>5 DEF After
<1>7. Stage([cfg |-> cfg, states |-> all])
  BY <1>2, <1>4 DEF Stage
<1> QED BY <1>1, <1>5, <1>6, <1>7 DEF all, s

(* config_v0_update keeps the layout of version 1.                          *)
LEMMA V0UpdateType ==
    ASSUME NEW cfg \in Config, NEW up, NEW f
    PROVE  LET r == V0Update(up, f, cfg) IN
           /\ r.cfg \in Config /\ r.cfg.ver = Latest /\ r.cfg.layout = "v1"
           /\ r.states = Store(up, r.cfg)
<1> DEFINE new == [cfg EXCEPT !.ver = Latest, !.layout = "v1"]
<1>1. new \in Config /\ new.ver = Latest /\ new.layout = "v1"
  BY LatestIn DEF Config
<1>2. V0Update(up, f, cfg) = [cfg |-> new, states |-> Store(up, new)]
  BY DEF V0Update
<1> HIDE DEF new
<1> QED BY <1>1, <1>2

(* config_v1_update *)
Clamped(map) == [size |-> Clamp(map.size), ents |-> map.ents]

(* config_v1_update takes the mappings from the file when it holds them all. *)
LEMMA V1UpdateType ==
    ASSUME NEW cfg \in Config, NEW up, NEW f \in File
    PROVE  LET r == V1Update(up, f, cfg) IN
           /\ Current(r.cfg) /\ r.states = Store(up, r.cfg)
           /\ f.exists /\ f.cfg.layout = "v1" /\ f.has = WholeAt =>
                 r.cfg.maps = [i \in Dev |-> Clamped(f.cfg.maps[i])]
<1> DEFINE head == [cfg EXCEPT !.ver = Latest, !.bank = 0]
           read == f.exists /\ f.cfg.layout = "v1" /\ f.has = WholeAt
           maps == [i \in Dev |-> [f.cfg.maps[i] EXCEPT !.size = Clamp(@)]]
           new == [head EXCEPT !.layout = "v3", !.maps = maps]
           r == V1Update(up, f, cfg)
<1>1. head \in Config /\ head.ver = Latest
  <2> DEFINE latest == [cfg EXCEPT !.ver = Latest]
  <2>1. latest \in Config /\ latest.ver = Latest /\ head = [latest EXCEPT !.bank = 0]
    BY LatestIn DEF Config
  <2> HIDE DEF latest, head
  <2> QED BY <2>1 DEF Config
<1>2. f.cfg \in Config
  BY DEF File
<1>3. \A i \in Dev : maps[i] = Clamped(f.cfg.maps[i]) /\ maps[i] \in Map
  <2> TAKE i \in Dev
  <2>1. f.cfg.maps[i] \in Map
    BY <1>2, CfgFields
  <2>2. \A n \in Nat : Clamp(n) \in Nat
    BY Sizes DEF Clamp
  <2>3. maps[i] = Clamped(f.cfg.maps[i])
    BY <2>1, MapFields DEF Clamped
  <2>4. Clamped(f.cfg.maps[i]) \in Map
    BY <2>1, <2>2, MapFields DEF Clamped, Map
  <2> QED BY <2>3, <2>4
<1>4. maps \in [Dev -> Map] /\ maps = [i \in Dev |-> Clamped(f.cfg.maps[i])]
  BY <1>3
<1>5. r = IF read THEN [cfg |-> new, states |-> Store(up, new)]
          ELSE [cfg |-> Defaults(head), states |-> Store(up, Defaults(head))]
  BY DEF V1Update
<1> HIDE DEF head, maps, r
<1>6. Current(new) /\ new.maps = maps
  BY <1>1, <1>4 DEF Current, Config
<1>7. Current(Defaults(head))
  BY <1>1, DefaultsType
<1>8. /\ Current(r.cfg) /\ r.states = Store(up, r.cfg)
      /\ read => r.cfg.maps = maps
  BY <1>5, <1>6, <1>7
<1> QED BY <1>4, <1>8 DEF r

(* One entry of config_ver_update[] writes a whole file, of the next layout. *)
LEMMA VerUpdateType ==
    ASSUME NEW f, FileFits(f), NEW so, Stage(so), NEW v \in 0 .. 2,
           v = 2 => so.cfg.layout = "v3"
    PROVE  LET r == VerUpdate(TRUE, f, v, so) IN
           /\ Stage(r) /\ r.cfg.ver = Latest
           /\ r.cfg.layout = IF v = 0 THEN "v1" ELSE "v3"
           /\ r.states # <<>> /\ After(f, r.states) = Stored(r.cfg)
<1> DEFINE now == After(f, so.states)
           r == VerUpdate(TRUE, f, v, so)
<1>1. FileFits(now) /\ so.cfg \in Config /\ so.states \in Seq(File)
      /\ \A k \in 1 .. Len(so.states) : FileWritten(so.states[k])
  BY AfterFits DEF Stage
<1>2. now \in File
  BY <1>1 DEF FileFits
<1> HIDE DEF now
<1> DEFINE Good(new) ==
        /\ new.cfg \in Config /\ new.cfg.ver = Latest /\ new.states = Store(TRUE, new.cfg)
        /\ new.cfg.layout = IF v = 0 THEN "v1" ELSE "v3"
        /\ r = [cfg |-> new.cfg, states |-> so.states \o new.states]
<1>3. \E new : Good(new)
  <2>1. CASE v = 0
    <3> DEFINE new == V0Update(TRUE, now, so.cfg)
    <3>1. r = [cfg |-> new.cfg, states |-> so.states \o new.states]
      BY <2>1 DEF VerUpdate, now
    <3>2. new.cfg \in Config /\ new.cfg.ver = Latest /\ new.cfg.layout = "v1"
          /\ new.states = Store(TRUE, new.cfg)
      BY <1>1, V0UpdateType
    <3> HIDE DEF new, r
    <3> QED BY <2>1, <3>1, <3>2
  <2>2. CASE v = 1
    <3> DEFINE new == V1Update(TRUE, now, so.cfg)
    <3>1. r = [cfg |-> new.cfg, states |-> so.states \o new.states]
      BY <2>2 DEF VerUpdate, now
    <3>2. Current(new.cfg) /\ new.states = Store(TRUE, new.cfg)
      BY <1>1, <1>2, V1UpdateType
    <3> HIDE DEF new, r
    <3>3. new.cfg \in Config /\ new.cfg.ver = Latest /\ new.cfg.layout = "v3" /\ v # 0
      BY <2>2, <3>2 DEF Current
    <3>4. Good(new)
      BY <3>1, <3>2, <3>3
    <3> QED BY <3>4
  <2>3. CASE v = 2
    <3> DEFINE new == V2Update(TRUE, now, so.cfg)
    <3>1. r = [cfg |-> new.cfg, states |-> so.states \o new.states]
      BY <2>3 DEF VerUpdate, now
    <3>2. Added(new.cfg, so.cfg, Devs) /\ new.states = Store(TRUE, new.cfg)
      BY <1>1, V2UpdateType
    <3> HIDE DEF new, r
    <3>3. new.cfg \in Config /\ new.cfg.ver = Latest /\ new.cfg.layout = "v3" /\ v # 0
      BY <2>3, <3>2 DEF Added
    <3>4. Good(new)
      BY <3>1, <3>2, <3>3
    <3> QED BY <3>4
  <2>4. v = 0 \/ v = 1 \/ v = 2
    OBVIOUS
  <2> HIDE DEF Good
  <2> QED BY <2>1, <2>2, <2>3, <2>4
<1> HIDE DEF r
<1>4. PICK new : Good(new)
  BY <1>3
<1>5. LET all == so.states \o Store(TRUE, new.cfg) IN
      /\ Stage([cfg |-> new.cfg, states |-> all]) /\ all # <<>>
      /\ After(f, all) = Stored(new.cfg)
  BY <1>1, <1>4, StoreAppends
<1>6. /\ Stage(r) /\ r.cfg.ver = Latest
      /\ r.cfg.layout = IF v = 0 THEN "v1" ELSE "v3"
      /\ r.states # <<>> /\ After(f, r.states) = Stored(r.cfg)
  BY <1>4, <1>5
<1> QED BY <1>6 DEF r

Start(cfg) == [cfg |-> cfg, states |-> <<>>]

(* The function that config_load_from_file steps through config_ver_update[] by *)
UpRun(g, f, v, cfg) ==
    g = [i \in v .. Latest |-> IF i = v THEN [cfg |-> cfg, states |-> <<>>]
                               ELSE VerUpdate(TRUE, f, i - 1, g[i - 1])]

UpPath(g, f, v, cfg) ==
    /\ g[v] = Start(cfg) /\ Upgrade(TRUE, f, v, cfg) = g[3]
    /\ \A i \in v + 1 .. 3 : g[i] = VerUpdate(TRUE, f, i - 1, g[i - 1])

(* The function exists, and has the three steps the code goes through.      *)
LEMMA UpgradeRun ==
    ASSUME NEW f, NEW v \in 0 .. 2, NEW cfg
    PROVE  \E g : UpPath(g, f, v, cfg)
<1> DEFINE s1 == VerUpdate(TRUE, f, v, Start(cfg))
           s2 == VerUpdate(TRUE, f, v + 1, s1)
           s3 == VerUpdate(TRUE, f, v + 2, s2)
           h == [i \in v .. Latest |-> IF i = v THEN Start(cfg) ELSE IF i = v + 1 THEN s1
                                       ELSE IF i = v + 2 THEN s2 ELSE s3]
<1>1. UpRun(h, f, v, cfg)
  <2> SUFFICES ASSUME NEW i \in v .. Latest
               PROVE  h[i] = IF i = v THEN Start(cfg) ELSE VerUpdate(TRUE, f, i - 1, h[i - 1])
    BY DEF UpRun, Start
  <2> HIDE DEF s1, s2, s3
  <2>1. i \in Int /\ v \in Int /\ i \in {v, v + 1, v + 2, v + 3} /\ v <= i /\ i <= 3
    BY DEF Latest
  <2>2. CASE i = v
    BY <2>2
  <2>3. CASE i = v + 1
    <3>1. i # v /\ i - 1 = v /\ v \in v .. Latest
      BY <2>1, <2>3 DEF Latest
    <3> QED BY <2>3, <3>1 DEF s1
  <2>4. CASE i = v + 2
    <3>1. i # v /\ i # v + 1 /\ i - 1 = v + 1 /\ v + 1 \in v .. Latest /\ v + 1 # v
      BY <2>1, <2>4 DEF Latest
    <3> QED BY <2>4, <3>1 DEF s2
  <2>5. CASE i = v + 3
    <3>1. i # v /\ i # v + 1 /\ i # v + 2 /\ i - 1 = v + 2 /\ v + 2 \in v .. Latest
          /\ v + 2 # v /\ v + 2 # v + 1
      BY <2>1, <2>5 DEF Latest
    <3> QED BY <2>5, <3>1 DEF s3
  <2> QED BY <2>1, <2>2, <2>3, <2>4, <2>5
<1> HIDE DEF h
<1> DEFINE g == CHOOSE x : UpRun(x, f, v, cfg)
<1>2. UpRun(g, f, v, cfg)
  BY <1>1
<1>3. Upgrade(TRUE, f, v, cfg) = g[3]
  BY DEF Upgrade, UpRun, Latest
<1> HIDE DEF g
<1>4. \A i \in v .. Latest :
        g[i] = IF i = v THEN Start(cfg) ELSE VerUpdate(TRUE, f, i - 1, g[i - 1])
  BY <1>2 DEF UpRun, Start
<1>5. v \in v .. Latest /\ \A i \in v + 1 .. 3 : i \in v .. Latest /\ i # v
  BY DEF Latest
<1> QED BY <1>3, <1>4, <1>5 DEF UpPath

(* Before the first update nothing is stored.                               *)
LEMMA StartStage ==
    ASSUME NEW cfg \in Config
    PROVE  Stage(Start(cfg))
BY EmptySeq DEF Start, Stage

(* The upgrade of a file of version v: config_load_from_file leaves a        *)
(* configuration of the latest version and the file that holds all of it.   *)
LEMMA UpgradeType ==
    ASSUME NEW f, FileFits(f), NEW v \in 0 .. 2, NEW cfg \in Config,
           v = 2 => cfg.layout = "v3"
    PROVE  LET r == Upgrade(TRUE, f, v, cfg) IN
           /\ Stage(r) /\ Current(r.cfg)
           /\ r.states # <<>> /\ After(f, r.states) = Whole(r.cfg)
<1>0. PICK g : UpPath(g, f, v, cfg)
  BY UpgradeRun
<1>1. /\ g[v] = Start(cfg) /\ Upgrade(TRUE, f, v, cfg) = g[3]
      /\ \A i \in v + 1 .. 3 : g[i] = VerUpdate(TRUE, f, i - 1, g[i - 1])
  BY <1>0 DEF UpPath
<1>2. Stage(g[v]) /\ g[v].cfg = cfg
  <2>1. Start(cfg).cfg = cfg
    BY DEF Start
  <2> QED BY <1>1, <2>1, StartStage
<1>3. v <= 1 => Stage(g[1])
  <2>1. CASE v = 1
    BY <1>2, <2>1
  <2>2. CASE v = 0
    <3>1. g[1] = VerUpdate(TRUE, f, 0, g[0])
      <4>1. 1 \in v + 1 .. 3 /\ 1 - 1 = 0
        BY <2>2
      <4> QED BY <1>1, <4>1
    <3>2. 0 \in 0 .. 2 /\ 0 # 2 /\ Stage(g[0])
      BY <1>2, <2>2
    <3>3. Stage(VerUpdate(TRUE, f, 0, g[0]))
      BY <3>2, VerUpdateType
    <3> QED BY <3>1, <3>3
  <2>3. CASE v = 2
    BY <2>3
  <2>4. v = 0 \/ v = 1 \/ v = 2
    OBVIOUS
  <2> QED BY <2>1, <2>2, <2>3, <2>4
<1>4. Stage(g[2]) /\ g[2].cfg.layout = "v3"
  <2>1. CASE v = 2
    BY <1>2, <2>1
  <2>2. CASE v # 2
    <3>1. v <= 1 /\ 2 \in v + 1 .. 3 /\ 2 - 1 = 1
      BY <2>2
    <3>2. g[2] = VerUpdate(TRUE, f, 1, g[1])
      BY <1>1, <3>1
    <3>3. 1 \in 0 .. 2 /\ 1 # 2 /\ 1 # 0 /\ Stage(g[1])
      BY <1>3, <3>1
    <3>4. LET r == VerUpdate(TRUE, f, 1, g[1]) IN
          /\ Stage(r) /\ r.cfg.ver = Latest
          /\ r.cfg.layout = IF 1 = 0 THEN "v1" ELSE "v3"
          /\ r.states # <<>> /\ After(f, r.states) = Stored(r.cfg)
      BY <3>3, VerUpdateType
    <3> QED BY <3>2, <3>3, <3>4
  <2> QED BY <2>1, <2>2
<1>5. g[3] = VerUpdate(TRUE, f, 2, g[2])
  <2>1. 3 \in v + 1 .. 3 /\ 3 - 1 = 2
    OBVIOUS
  <2> QED BY <1>1, <2>1
<1>6. /\ Stage(g[3]) /\ g[3].cfg.ver = Latest /\ g[3].cfg.layout = "v3"
      /\ g[3].states # <<>> /\ After(f, g[3].states) = Stored(g[3].cfg)
  <2>1. 2 \in 0 .. 2 /\ 2 # 0
    OBVIOUS
  <2>2. LET r == VerUpdate(TRUE, f, 2, g[2]) IN
        /\ Stage(r) /\ r.cfg.ver = Latest
        /\ r.cfg.layout = IF 2 = 0 THEN "v1" ELSE "v3"
        /\ r.states # <<>> /\ After(f, r.states) = Stored(r.cfg)
    BY <1>4, <2>1, VerUpdateType
  <2> QED BY <1>5, <2>1, <2>2
<1>7. Current(g[3].cfg) /\ Stored(g[3].cfg) = Whole(g[3].cfg)
  BY <1>6, StoredType DEF Current, Stage
<1> QED BY <1>1, <1>6, <1>7

-----------------------------------------------------------------------------
(* Loading. *)

ReadMaps(f, cfg) == [i \in Dev |-> ReadMap(f.has, 1 + i, f.cfg.maps[i], cfg.maps[i])]
HasMagic(f) == In(f.has, 0, 0)

(* The units of the head and of the mappings, one by one                     *)
LEMMA ReadMapType ==
    ASSUME NEW has \in Place, NEW part \in Nat \ {0}, NEW new \in Map, NEW old \in Map
    PROVE  /\ ReadMap(has, part, new, old) \in Map
           /\ part < has.part => ReadMap(has, part, new, old) = new
           /\ has.part < part => ReadMap(has, part, new, old) = old
<1> DEFINE r == ReadMap(has, part, new, old)
<1>0. /\ has.part \in Nat /\ has.units \in Nat
      /\ new = [size |-> new.size, ents |-> new.ents] /\ old = [size |-> old.size, ents |-> old.ents]
      /\ new.size \in Nat /\ new.ents \in [Index -> Entry]
      /\ old.size \in Nat /\ old.ents \in [Index -> Entry] /\ "junk" \in Entry
  BY ConfigAssumption DEF Place, Map
<1>1. r \in Map
  <2>1. r.size \in Nat
    BY <1>0 DEF ReadMap
  <2>2. \A j \in Index : new.ents[j] \in Entry /\ old.ents[j] \in Entry
    BY <1>0
  <2>3. r.ents \in [Index -> Entry]
    BY <1>0, <2>2 DEF ReadMap
  <2>4. r = [size |-> r.size, ents |-> r.ents]
    BY DEF ReadMap
  <2> HIDE DEF r
  <2> QED BY <2>1, <2>3, <2>4 DEF Map
<1>2. ASSUME part < has.part PROVE r = new
  <2>1. In(has, part, 0) /\ \A j \in Index : In(has, part, 1 + j)
    BY <1>2 DEF In
  <2>2. r = [size |-> new.size, ents |-> [j \in Index |-> new.ents[j]]]
    <3>1. r = [size |-> r.size, ents |-> r.ents] /\ r.size = new.size
      BY <2>1 DEF ReadMap
    <3>2. \A j \in Index : (CASE In(has, part, 1 + j) -> new.ents[j]
                               [] Begun(has, part, 1 + j) -> "junk"
                               [] OTHER -> old.ents[j]) = new.ents[j]
      <4> TAKE j \in Index
      <4>1. In(has, part, 1 + j) /\ ~Begun(has, part, 1 + j)
        BY <1>0, <1>2, <2>1 DEF Begun
      <4> QED BY <4>1
    <3>3. r.ents = [j \in Index |-> new.ents[j]]
      BY <3>2 DEF ReadMap
    <3> HIDE DEF r
    <3> QED BY <3>1, <3>3
  <2>3. new.ents = [j \in Index |-> new.ents[j]]
    BY <1>0
  <2> QED BY <1>0, <2>2, <2>3
<1>3. ASSUME has.part < part PROVE r = old
  <2>1. \A unit : ~In(has, part, unit) /\ ~Begun(has, part, unit)
    BY <1>0, <1>3 DEF In, Begun
  <2>2. r = [size |-> old.size, ents |-> [j \in Index |-> old.ents[j]]]
    BY <2>1 DEF ReadMap
  <2>3. old.ents = [j \in Index |-> old.ents[j]]
    BY <1>0
  <2> QED BY <1>0, <2>2, <2>3
<1> QED BY <1>1, <1>2, <1>3

(* fread leaves what the file does not hold.                                *)
LEMMA FreadType ==
    ASSUME NEW f \in File, NEW cfg \in Config
    PROVE  LET r == Fread(f, cfg) IN
           /\ r \in Config /\ r.over = cfg.over
           /\ r.ver = IF HasMagic(f) THEN f.cfg.ver ELSE cfg.ver
           /\ r.layout = IF HasMagic(f) THEN f.cfg.layout ELSE cfg.layout
           /\ r.bank = IF In(f.has, 0, 1) THEN f.cfg.bank ELSE cfg.bank
           /\ r.out = [i \in Dev |-> IF In(f.has, 0, 2 + i) THEN f.cfg.out[i] ELSE cfg.out[i]]
           /\ r.maps = ReadMaps(f, cfg)
           /\ ~HasMagic(f) => r = cfg
           /\ f.has = WholeAt => HasMagic(f) /\ SameHead(r, f.cfg) /\ r.maps = f.cfg.maps
<1> DEFINE r == Fread(f, cfg)
           out == [i \in Dev |-> IF In(f.has, 0, 2 + i) THEN f.cfg.out[i] ELSE cfg.out[i]]
<1>0. /\ f.cfg \in Config /\ f.has \in Place
      /\ f.has.part \in Nat /\ f.has.units \in Nat
  BY DEF File, Place
<1>1. \A i \in Dev : f.cfg.maps[i] \in Map /\ cfg.maps[i] \in Map /\ 1 + i \in Nat \ {0}
  BY <1>0, CfgFields, Sizes DEF Dev
<1>2. /\ r.over = cfg.over
      /\ r.ver = IF HasMagic(f) THEN f.cfg.ver ELSE cfg.ver
      /\ r.layout = IF HasMagic(f) THEN f.cfg.layout ELSE cfg.layout
      /\ r.bank = IF In(f.has, 0, 1) THEN f.cfg.bank ELSE cfg.bank
      /\ r.out = out
      /\ r.maps = ReadMaps(f, cfg)
      /\ r = [ver |-> r.ver, bank |-> r.bank, layout |-> r.layout, over |-> r.over,
              out |-> r.out, maps |-> r.maps]
  BY DEF Fread, ReadMaps, HasMagic
<1>3. ReadMaps(f, cfg) \in [Dev -> Map]
  BY <1>0, <1>1, ReadMapType DEF ReadMaps
<1>4. out \in [Dev -> {"pad", "mouse"}]
  BY <1>0, CfgFields
<1> HIDE DEF r, out
<1>5. r \in Config
  <2>1. f.cfg.ver \in -1 .. Latest /\ cfg.ver \in -1 .. Latest
        /\ f.cfg.bank \in 0 .. 255 /\ cfg.bank \in 0 .. 255 /\ cfg.over \in BOOLEAN
        /\ f.cfg.layout \in {"v0", "v1", "v3"} /\ cfg.layout \in {"v0", "v1", "v3"}
    BY <1>0, CfgFields
  <2>2. r.ver \in -1 .. Latest /\ r.bank \in 0 .. 255 /\ r.over \in BOOLEAN
        /\ r.layout \in {"v0", "v1", "v3"}
    BY <1>2, <2>1
  <2> QED BY <1>2, <1>3, <1>4, <2>2 DEF Config
<1>6. ASSUME ~HasMagic(f) PROVE r = cfg
  <2>1. f.has.part = 0 /\ f.has.units = 0
    BY <1>0, <1>6 DEF HasMagic, In
  <2>2. \A unit \in Nat : ~In(f.has, 0, unit)
    BY <1>0, <2>1 DEF In
  <2>3. \A i \in Dev : 2 + i \in Nat
    BY Sizes DEF Dev
  <2>4. out = cfg.out
    BY <2>2, <2>3, CfgFields DEF out
  <2>5. \A i \in Dev : ReadMaps(f, cfg)[i] = cfg.maps[i]
    <3> TAKE i \in Dev
    <3>1. f.has.part < 1 + i
      BY <2>1, Sizes DEF Dev
    <3> QED BY <1>0, <1>1, <3>1, ReadMapType DEF ReadMaps
  <2>6. ReadMaps(f, cfg) = cfg.maps
    BY <2>5, CfgFields DEF ReadMaps
  <2>7. r.bank = cfg.bank
    BY <1>2, <2>2
  <2>8. r.ver = cfg.ver /\ r.layout = cfg.layout /\ r.over = cfg.over
    BY <1>2, <1>6
  <2>9. cfg = [ver |-> cfg.ver, bank |-> cfg.bank, layout |-> cfg.layout, over |-> cfg.over,
               out |-> cfg.out, maps |-> cfg.maps]
    BY DEF Config
  <2> QED BY <1>2, <2>4, <2>6, <2>7, <2>8, <2>9
<1>7. ASSUME f.has = WholeAt PROVE HasMagic(f) /\ SameHead(r, f.cfg) /\ r.maps = f.cfg.maps
  <2>1. f.has.part = 1 + Devs /\ 0 < f.has.part
    BY <1>7, Sizes DEF WholeAt, At
  <2>2. HasMagic(f) /\ \A unit : In(f.has, 0, unit)
    BY <2>1 DEF HasMagic, In
  <2>3. out = f.cfg.out
    BY <1>0, <2>2, CfgFields DEF out
  <2>4. \A i \in Dev : ReadMaps(f, cfg)[i] = f.cfg.maps[i]
    <3> TAKE i \in Dev
    <3>1. 1 + i < f.has.part
      BY <2>1, Sizes DEF Dev
    <3> QED BY <1>0, <1>1, <3>1, ReadMapType DEF ReadMaps
  <2>5. ReadMaps(f, cfg) = f.cfg.maps
    BY <1>0, <2>4, CfgFields DEF ReadMaps
  <2> QED BY <1>2, <2>2, <2>3, <2>5 DEF SameHead
<1>8. /\ r \in Config /\ r.over = cfg.over
      /\ r.ver = IF HasMagic(f) THEN f.cfg.ver ELSE cfg.ver
      /\ r.layout = IF HasMagic(f) THEN f.cfg.layout ELSE cfg.layout
      /\ r.bank = IF In(f.has, 0, 1) THEN f.cfg.bank ELSE cfg.bank
      /\ r.out = out
      /\ r.maps = ReadMaps(f, cfg)
      /\ ~HasMagic(f) => r = cfg
      /\ f.has = WholeAt => HasMagic(f) /\ SameHead(r, f.cfg) /\ r.maps = f.cfg.maps
  BY <1>2, <1>5, <1>6, <1>7
<1> QED BY <1>8 DEF r, out

JunkMaps == [i \in Dev |-> [size |-> 0, ents |-> [j \in Index |-> "junk"]]]

(* A file of the latest version is taken as it is, or for a mess of         *)
(* mappings.                                                                *)
LEMMA TakenForType ==
    ASSUME NEW cfg \in Config, cfg.ver = Latest
    PROVE  LET r == TakenFor(cfg) IN
           /\ Current(r) /\ r.bank = cfg.bank /\ r.out = cfg.out
           /\ r.maps = IF cfg.layout = "v3" THEN cfg.maps ELSE JunkMaps
<1>1. CASE cfg.layout = "v3"
  BY <1>1 DEF TakenFor, Current
<1>2. CASE cfg.layout # "v3"
  <2> DEFINE r == TakenFor(cfg)
             a == [cfg EXCEPT !.layout = "v3"]
  <2>1. JunkMaps \in [Dev -> Map]
    BY ConfigAssumption DEF JunkMaps, Map
  <2>2. a \in Config /\ a.ver = Latest /\ a.layout = "v3" /\ a.bank = cfg.bank /\ a.out = cfg.out
    BY DEF Config
  <2>3. r = [a EXCEPT !.maps = JunkMaps]
    <3>1. r = [cfg EXCEPT !.layout = "v3", !.maps = JunkMaps]
      BY <1>2 DEF TakenFor, JunkMaps
    <3> HIDE DEF r
    <3> QED BY <3>1 DEF Config
  <2> HIDE DEF a, r
  <2>4. LET new == [a EXCEPT !.maps = JunkMaps] IN
        new \in Config /\ new.maps = JunkMaps /\ new.over = a.over /\ SameHead(new, a)
    BY <2>1, <2>2, NewMaps
  <2>5. Current(r) /\ r.bank = cfg.bank /\ r.out = cfg.out /\ r.maps = JunkMaps
    BY <2>2, <2>3, <2>4 DEF SameHead, Current
  <2> QED BY <1>2, <2>5 DEF r
<1> QED BY <1>1, <1>2

(* The file holds all of the configuration that is in memory. *)
Written(f, l) == l.states # <<>> /\ After(f, l.states) = Whole(l.cfg)

(* A store that lasts leaves the file with all of the configuration.        *)
LEMMA StoreWritten ==
    ASSUME NEW cfg, Current(cfg), NEW f, NEW l, l.cfg = cfg, l.states = Store(TRUE, cfg)
    PROVE  Stage(l) /\ Written(f, l)
<1>1. cfg \in Config /\ cfg.ver = Latest /\ Stored(cfg) = Whole(cfg)
  BY StoredType DEF Current
<1>2. /\ Store(TRUE, cfg) \in Seq(File) /\ Store(TRUE, cfg) # <<>>
      /\ After(f, Store(TRUE, cfg)) = Stored(cfg)
      /\ \A k \in 1 .. Len(Store(TRUE, cfg)) : FileWritten(Store(TRUE, cfg)[k])
  BY <1>1, StoreType
<1> QED BY <1>1, <1>2 DEF Stage, Written

(* What was in the file was of the latest version, and is taken. *)
Taken(f, cfg, l) ==
    /\ l.states = <<>> /\ f.exists
    /\ Fread(f, cfg).ver = Latest /\ l.cfg = TakenFor(Fread(f, cfg))

(* A file with the magic of the latest version is taken.                    *)
LEMMA LoadTaken ==
    ASSUME NEW f, f.exists, NEW cfg, Fread(f, cfg).ver = Latest
    PROVE  Load(TRUE, f, cfg) = [cfg |-> TakenFor(Fread(f, cfg)), states |-> <<>>]
<1> DEFINE l == Load(TRUE, f, cfg)
           read == Fread(f, cfg)
<1>1. l = CASE read.ver = Latest -> [cfg |-> TakenFor(read), states |-> <<>>]
            [] read.ver = -1 -> [cfg |-> InitStruct(read), states |-> Store(TRUE, InitStruct(read))]
            [] OTHER -> Upgrade(TRUE, f, read.ver, read)
  BY DEF Load
<1>2. Latest # -1
  BY DEF Latest
<1>3. read.ver = Latest
  OBVIOUS
<1> HIDE DEF read, l
<1>4. l = [cfg |-> TakenFor(read), states |-> <<>>]
  BY <1>1, <1>2, <1>3
<1> QED BY <1>4 DEF l, read

(* Memory without any magic gets the defaults, which are stored.            *)
LEMMA LoadNone ==
    ASSUME NEW f, f.exists, NEW cfg, Fread(f, cfg).ver = -1
    PROVE  Load(TRUE, f, cfg) = [cfg |-> InitStruct(Fread(f, cfg)),
                                 states |-> Store(TRUE, InitStruct(Fread(f, cfg)))]
<1> DEFINE l == Load(TRUE, f, cfg)
           read == Fread(f, cfg)
<1>1. l = CASE read.ver = Latest -> [cfg |-> TakenFor(read), states |-> <<>>]
            [] read.ver = -1 -> [cfg |-> InitStruct(read), states |-> Store(TRUE, InitStruct(read))]
            [] OTHER -> Upgrade(TRUE, f, read.ver, read)
  BY DEF Load
<1>2. Latest # -1
  BY DEF Latest
<1>3. read.ver = -1
  OBVIOUS
<1> HIDE DEF read, l
<1>4. l = [cfg |-> InitStruct(read), states |-> Store(TRUE, InitStruct(read))]
  BY <1>1, <1>2, <1>3
<1> QED BY <1>4 DEF l, read

(* config_load_from_file with the file system up: the file is of the latest *)
(* version, or a configuration of the latest version is written.            *)
LEMMA LoadType ==
    ASSUME NEW f, FileFits(f), NEW cfg \in Config, cfg.layout = "v3"
    PROVE  LET l == Load(TRUE, f, cfg) IN
           /\ Stage(l) /\ Current(l.cfg) /\ (Written(f, l) \/ Taken(f, cfg, l))
<1> DEFINE l == Load(TRUE, f, cfg)
           read == Fread(f, cfg)
           Goal == Stage(l) /\ Current(l.cfg) /\ (Written(f, l) \/ Taken(f, cfg, l))
<1> SUFFICES Goal
  OBVIOUS
<1>1. f \in File
  BY DEF FileFits
<1>2. CASE ~f.exists
  <2>1. l = [cfg |-> Defaults(cfg), states |-> Store(TRUE, Defaults(cfg))]
    BY <1>2 DEF Load
  <2> DEFINE new == Defaults(cfg)
  <2>0. Current(new)
    BY DefaultsType
  <2> HIDE DEF l, new
  <2>2. l.cfg = new /\ l.states = Store(TRUE, new)
    BY <2>1 DEF new
  <2>3. Current(l.cfg) /\ l.states = Store(TRUE, l.cfg)
    BY <2>0, <2>2
  <2> QED BY <2>3, StoreWritten
<1>3. CASE f.exists /\ read.ver = Latest
  <2>1. l = [cfg |-> TakenFor(read), states |-> <<>>]
    BY <1>3, LoadTaken
  <2>2. Current(TakenFor(read))
    BY <1>1, <1>3, FreadType, TakenForType
  <2> HIDE DEF l
  <2>3. Stage(l)
    BY <2>1, <2>2, EmptySeq DEF Stage, Current
  <2> QED BY <1>3, <2>1, <2>2, <2>3 DEF Taken
<1>4. CASE f.exists /\ read.ver = -1
  <2>1. l = [cfg |-> InitStruct(read), states |-> Store(TRUE, InitStruct(read))]
    BY <1>4, LoadNone
  <2>2. Current(InitStruct(read))
    BY <1>1, FreadType, InitStructType
  <2> HIDE DEF l
  <2>3. Current(l.cfg) /\ l.states = Store(TRUE, l.cfg)
    BY <2>1, <2>2
  <2> QED BY <2>3, StoreWritten
<1>5. CASE f.exists /\ read.ver \in 0 .. 2
  <2>1. l = Upgrade(TRUE, f, read.ver, read)
    <3>1. read.ver # Latest /\ read.ver # -1
      BY <1>5 DEF Latest
    <3> HIDE DEF read
    <3> QED BY <1>5, <3>1 DEF Load, read
  <2>2. read \in Config /\ (read.ver = 2 => read.layout = "v3")
    <3>1. /\ read \in Config
          /\ read.ver = IF HasMagic(f) THEN f.cfg.ver ELSE cfg.ver
          /\ read.layout = IF HasMagic(f) THEN f.cfg.layout ELSE cfg.layout
      BY <1>1, FreadType
    <3>2. 2 # Latest /\ (f.cfg.ver = 2 => f.cfg.layout = "v3")
      BY DEF FileFits, LayoutFits, Latest
    <3> HIDE DEF read
    <3> QED BY <3>1, <3>2
  <2> HIDE DEF read, l
  <2>3. LET r == Upgrade(TRUE, f, read.ver, read) IN
           /\ Stage(r) /\ Current(r.cfg)
           /\ r.states # <<>> /\ After(f, r.states) = Whole(r.cfg)
    BY <1>5, <2>2, UpgradeType
  <2> QED BY <2>1, <2>3 DEF Written
<1>6. read.ver \in {-1, Latest} \cup 0 .. 2
  <2>1. read \in Config
    BY <1>1, FreadType
  <2>2. read.ver \in -1 .. Latest
    BY <2>1, CfgFields
  <2> HIDE DEF read
  <2> QED BY <2>2 DEF Latest
<1> QED BY <1>2, <1>3, <1>4, <1>5, <1>6

(* The file system is not there: defaults, and nothing is stored. *)
LEMMA LoadFailed ==
    ASSUME NEW f, NEW cfg \in Config
    PROVE  LET l == Load(FALSE, f, cfg) IN Stage(l) /\ Current(l.cfg) /\ l.states = <<>>
<1> DEFINE new == Defaults(cfg)
           l == Load(FALSE, f, cfg)
<1>1. l = [cfg |-> new, states |-> <<>>]
  BY DEF Load, Store
<1>2. Current(new)
  BY DefaultsType
<1> HIDE DEF new, l
<1>3. l.cfg = new /\ l.states = <<>>
  BY <1>1
<1>4. Stage(l)
  BY <1>2, <1>3, EmptySeq DEF Stage, Current
<1>5. Stage(l) /\ Current(l.cfg) /\ l.states = <<>>
  BY <1>2, <1>3, <1>4
<1> QED BY <1>5 DEF l

(* The same settings *)
Settings(a, b) == a.out = b.out /\ a.maps = b.maps /\ a.bank = b.bank

(* The same settings are kept, and keep.                                    *)
LEMMA KeptTrivial ==
    ASSUME NEW a, NEW b, NEW c
    PROVE  /\ Settings(a, b) => Kept(a, b)
           /\ Settings(a, b) /\ Kept(b, c) => Kept(a, c)
           /\ Settings(b, c) /\ Kept(a, b) => Kept(a, c)
BY DEF Settings, Kept

(* A file that holds all of a configuration of the latest version loads as it. *)
LEMMA LoadedWhole ==
    ASSUME NEW cfg, Current(cfg)
    PROVE  FileFits(Whole(cfg)) /\ Settings(Loaded(Whole(cfg)), cfg)
<1> DEFINE f == Whole(cfg)
           r == Fread(f, Zero)
<1>0. cfg \in Config /\ cfg.ver = Latest /\ cfg.layout = "v3"
  BY DEF Current
<1>1. f \in File /\ f.exists /\ f.has = WholeAt /\ f.cfg = cfg
  BY <1>0, Sizes DEF Whole, WholeAt, At, Place, File
<1> HIDE DEF f
<1>2. FileFits(f)
  BY <1>0, <1>1 DEF FileFits
<1>3. r \in Config /\ SameHead(r, cfg) /\ r.maps = cfg.maps
  BY <1>1, FreadType, ZeroType
<1>5. r.ver = Latest /\ r.layout = "v3"
  BY <1>0, <1>3 DEF SameHead
<1>6. Load(TRUE, f, Zero) = [cfg |-> TakenFor(r), states |-> <<>>]
  BY <1>1, <1>5, LoadTaken
<1> HIDE DEF r
<1>7. /\ TakenFor(r).bank = r.bank /\ TakenFor(r).out = r.out
      /\ TakenFor(r).maps = IF r.layout = "v3" THEN r.maps ELSE JunkMaps
  BY <1>3, <1>5, TakenForType
<1>8. Loaded(f) = TakenFor(r)
  <2> DEFINE q == Load(TRUE, f, Zero)
  <2>1. Loaded(f) = q.cfg
    BY DEF Loaded
  <2> HIDE DEF q
  <2>2. q = [cfg |-> TakenFor(r), states |-> <<>>]
    BY <1>6 DEF q
  <2> QED BY <2>1, <2>2
<1>9. Settings(Loaded(f), cfg)
  BY <1>3, <1>5, <1>7, <1>8 DEF Settings, SameHead
<1> QED BY <1>2, <1>9 DEF f

(* What config_init leaves in the file loads as what it leaves in memory. *)
LEMMA LoadStable ==
    ASSUME NEW f, FileFits(f)
    PROVE  LET l == Load(TRUE, f, Zero) IN Kept(Loaded(After(f, l.states)), l.cfg)
<1> DEFINE l == Load(TRUE, f, Zero)
<1>0. Zero \in Config /\ Zero.layout = "v3"
  BY ZeroType DEF Zero
<1>1. Stage(l) /\ Current(l.cfg) /\ (Written(f, l) \/ Taken(f, Zero, l))
  BY <1>0, LoadType
<1>2. CASE Written(f, l)
  <2>1. After(f, l.states) = Whole(l.cfg)
    BY <1>2 DEF Written
  <2> HIDE DEF l
  <2>2. Settings(Loaded(Whole(l.cfg)), l.cfg)
    BY <1>1, LoadedWhole
  <2>3. Kept(Loaded(After(f, l.states)), l.cfg)
    BY <2>1, <2>2, KeptTrivial
  <2> QED BY <2>3 DEF l
<1>3. CASE Taken(f, Zero, l)
  <2>1. l.states = <<>>
    BY <1>3 DEF Taken
  <2>2. After(f, l.states) = f
    BY <2>1 DEF After
  <2>3. Loaded(f) = l.cfg
    BY DEF Loaded
  <2>4. Kept(l.cfg, l.cfg)
    BY DEF Kept
  <2> QED BY <2>2, <2>3, <2>4
<1> QED BY <1>1, <1>2, <1>3

(* Ending the trace changes the bank and nothing else.                      *)
LEMMA NoTraceType ==
    ASSUME NEW cfg \in Config
    PROVE  LET r == NoTrace(cfg) IN
           /\ r \in Config /\ r.out = cfg.out /\ r.maps = cfg.maps
           /\ r.ver = cfg.ver /\ r.layout = cfg.layout
           /\ r.bank = IF cfg.bank = BankDbg THEN BankOff ELSE cfg.bank
           /\ r.bank # BankDbg
<1>1. BankOff \in 0 .. 255 /\ BankOff # BankDbg
  BY DEF BankOff, BankDbg
<1>2. CASE cfg.bank = BankDbg
  BY <1>1, <1>2 DEF NoTrace, Config
<1>3. CASE cfg.bank # BankDbg
  BY <1>3 DEF NoTrace
<1> QED BY <1>2, <1>3

(* CFG_CMD_SET_DEFAULT_CFG loads over what is in memory. *)
LEMMA LoadAgain ==
    ASSUME NEW f, FileFits(f), NEW cfg, Current(cfg), NEW told,
           Kept(cfg, told), Kept(Loaded(f), told)
    PROVE  LET l == Load(TRUE, f, NoTrace(cfg)) IN Kept(Loaded(After(f, l.states)), l.cfg)
<1> DEFINE base == NoTrace(cfg)
           l == Load(TRUE, f, base)
<1>0. cfg \in Config /\ cfg.ver = Latest /\ cfg.layout = "v3" /\ f \in File
  BY DEF Current, FileFits
<1>1. base \in Config /\ base.ver = Latest /\ base.layout = "v3" /\ base.maps = cfg.maps
      /\ base.out = cfg.out /\ base.bank = IF cfg.bank = BankDbg THEN BankOff ELSE cfg.bank
  BY <1>0, NoTraceType
<1> HIDE DEF base
<1>2. Stage(l) /\ Current(l.cfg) /\ (Written(f, l) \/ Taken(f, base, l))
  BY <1>1, LoadType
<1> HIDE DEF l
<1>3. Kept(Loaded(After(f, l.states)), l.cfg)
  <2>1. CASE Written(f, l)
    <3>1. Settings(Loaded(Whole(l.cfg)), l.cfg)
      BY <1>2, LoadedWhole
    <3> QED BY <2>1, <3>1, KeptTrivial DEF Written
  <2>2. CASE Taken(f, base, l)
    <3> DEFINE r == Fread(f, base)
               z == Fread(f, Zero)
    <3>0. l.states = <<>> /\ f.exists /\ r.ver = Latest /\ l.cfg = TakenFor(r)
      BY <2>2 DEF Taken
    <3>1. After(f, l.states) = f
      BY <3>0 DEF After
    <3>2. /\ r \in Config /\ (~HasMagic(f) => r = base)
          /\ r.ver = IF HasMagic(f) THEN f.cfg.ver ELSE base.ver
          /\ r.layout = IF HasMagic(f) THEN f.cfg.layout ELSE base.layout
          /\ r.bank = IF In(f.has, 0, 1) THEN f.cfg.bank ELSE base.bank
          /\ r.out = [i \in Dev |-> IF In(f.has, 0, 2 + i) THEN f.cfg.out[i] ELSE base.out[i]]
          /\ r.maps = ReadMaps(f, base)
      BY <1>0, <1>1, FreadType
    <3>3. /\ z \in Config /\ (~HasMagic(f) => z = Zero)
          /\ z.ver = IF HasMagic(f) THEN f.cfg.ver ELSE Zero.ver
          /\ z.layout = IF HasMagic(f) THEN f.cfg.layout ELSE Zero.layout
          /\ z.bank = IF In(f.has, 0, 1) THEN f.cfg.bank ELSE Zero.bank
          /\ z.out = [i \in Dev |-> IF In(f.has, 0, 2 + i) THEN f.cfg.out[i] ELSE Zero.out[i]]
          /\ z.maps = ReadMaps(f, Zero)
      BY <1>0, ZeroType, FreadType
    <3>4. /\ l.cfg.bank = r.bank /\ l.cfg.out = r.out
          /\ l.cfg.maps = IF r.layout = "v3" THEN r.maps ELSE JunkMaps
      BY <3>0, <3>2, TakenForType
    <3>5. CASE ~HasMagic(f)
      <4>1. z.ver = -1 /\ z = Zero
        BY <3>3, <3>5, ZeroType
      <4>2. Loaded(f) = InitStruct(Zero)
        <5>1. Load(TRUE, f, Zero) = [cfg |-> InitStruct(z), states |-> Store(TRUE, InitStruct(z))]
          BY <3>0, <4>1, LoadNone
        <5> HIDE DEF z
        <5>2. Loaded(f) = InitStruct(z)
          <6> DEFINE q == Load(TRUE, f, Zero)
          <6>1. Loaded(f) = q.cfg
            BY DEF Loaded
          <6> HIDE DEF q
          <6>2. q = [cfg |-> InitStruct(z), states |-> Store(TRUE, InitStruct(z))]
            BY <5>1 DEF q
          <6> QED BY <6>1, <6>2
        <5> QED BY <4>1, <5>2
      <4>3. InitStruct(Zero).bank = 0
        BY DEF InitStruct, Zero
      <4>4. Loaded(f).bank = 0 /\ 0 # BankOff
        BY <4>2, <4>3 DEF BankOff
      <4>5. told.bank = 0 /\ cfg.bank = 0 /\ base.bank = 0
        BY <1>1, <4>4 DEF Kept, BankDbg
      <4>6. Settings(l.cfg, base)
        BY <1>1, <3>2, <3>4, <3>5 DEF Settings
      <4>7. Settings(Loaded(f), base)
        BY <1>1, <4>4, <4>5 DEF Settings, Kept
      <4>8. Settings(Loaded(f), l.cfg)
        BY <4>6, <4>7 DEF Settings
      <4> QED BY <3>1, <4>8, KeptTrivial
    <3>6. CASE HasMagic(f)
      <4>1. z.ver = Latest /\ z.layout = r.layout
        BY <3>0, <3>2, <3>3, <3>6
      <4>2. Loaded(f) = TakenFor(z)
        <5>1. Load(TRUE, f, Zero) = [cfg |-> TakenFor(z), states |-> <<>>]
          BY <3>0, <4>1, LoadTaken
        <5> HIDE DEF z
        <5> DEFINE q == Load(TRUE, f, Zero)
        <5>2. Loaded(f) = q.cfg
          BY DEF Loaded
        <5> HIDE DEF q
        <5>3. q = [cfg |-> TakenFor(z), states |-> <<>>]
          BY <5>1 DEF q
        <5> QED BY <5>2, <5>3
      <4>3. /\ Loaded(f).bank = z.bank /\ Loaded(f).out = z.out
            /\ Loaded(f).maps = IF z.layout = "v3" THEN z.maps ELSE JunkMaps
        BY <3>3, <4>1, <4>2, TakenForType
      <4>4. z.bank = r.bank
        <5>1. CASE In(f.has, 0, 1)
          BY <3>2, <3>3, <5>1
        <5>2. CASE ~In(f.has, 0, 1)
          <6>1. Loaded(f).bank = 0 /\ 0 # BankOff
            BY <3>3, <4>3, <5>2 DEF BankOff, Zero
          <6>2. told.bank = 0 /\ cfg.bank = 0 /\ base.bank = 0
            BY <1>1, <6>1 DEF Kept, BankDbg
          <6> QED BY <3>2, <3>3, <4>3, <5>2, <6>1, <6>2
        <5> QED BY <5>1, <5>2
      <4>5. z.out = base.out
        BY <1>1, <4>3 DEF Kept
      <4>6. r.out = z.out
        <5>1. \A i \in Dev : r.out[i] = z.out[i]
          <6> TAKE i \in Dev
          <6>1. CASE In(f.has, 0, 2 + i)
            BY <3>2, <3>3, <6>1
          <6>2. CASE ~In(f.has, 0, 2 + i)
            BY <3>2, <4>5, <6>2
          <6> QED BY <6>1, <6>2
        <5> QED BY <3>2, <3>3, <5>1, CfgFields
      <4>7. z.layout = "v3" => r.maps = z.maps
        <5> HAVE z.layout = "v3"
        <5>1. z.maps = base.maps /\ z.maps = ReadMaps(f, Zero) /\ r.maps = ReadMaps(f, base)
          BY <1>1, <3>2, <3>3, <4>3 DEF Kept
        <5> HIDE DEF z, r
        <5>2. \A i \in Dev : ReadMaps(f, base)[i] = ReadMaps(f, Zero)[i]
          <6> TAKE i \in Dev
          <6> DEFINE new == f.cfg.maps[i]
                     a == ReadMap(f.has, 1 + i, new, Zero.maps[i])
          <6>1. base.maps[i] = a
            BY <5>1 DEF ReadMaps
          <6> HIDE DEF new
          <6>2. ReadMap(f.has, 1 + i, new, a) = a
            BY DEF ReadMap
          <6> QED BY <6>1, <6>2 DEF ReadMaps, new
        <5> QED BY <5>1, <5>2 DEF ReadMaps
      <4>8. Settings(Loaded(f), l.cfg)
        BY <3>4, <4>1, <4>3, <4>4, <4>6, <4>7 DEF Settings
      <4> QED BY <3>1, <4>8, KeptTrivial
    <3> QED BY <3>5, <3>6
  <2> QED BY <1>2, <2>1, <2>2
<1> QED BY <1>3 DEF l, base

-----------------------------------------------------------------------------
(* Writing a mapping. *)

(* What a client writes is a size and entries.                              *)
LEMMA EditSeq ==
    ASSUME NEW e \in Edits
    PROVE  /\ e \in Seq(Nat \cup Entry) /\ Len(e) \in Nat /\ Len(e) > 0
           /\ e[1] \in Nat /\ \A k \in 2 .. Len(e) : e[k] \in Entry
<1>1. /\ Len(e) \in 1 .. MappingMax + 1 /\ e = [k \in 1 .. Len(e) |-> e[k]]
      /\ e[1] \in Nat /\ \A k \in 2 .. Len(e) : e[k] \in Entry
  BY SvcAssumption
<1>2. Len(e) \in Nat /\ Len(e) > 0
  BY <1>1, Sizes
<1>3. \A k \in 1 .. Len(e) : e[k] \in Nat \cup Entry
  <2> TAKE k \in 1 .. Len(e)
  <2>1. k = 1 \/ k \in 2 .. Len(e)
    BY <1>2
  <2> QED BY <1>1, <2>1
<1> DEFINE n == Len(e)
           h == [k \in 1 .. n |-> e[k]]
<1> HIDE DEF n
<1>4. n \in Nat /\ \A k \in 1 .. n : e[k] \in Nat \cup Entry
  BY <1>2, <1>3 DEF n
<1>5. h \in Seq(Nat \cup Entry)
  BY <1>4
<1>6. e = h
  BY <1>1 DEF n
<1> QED BY <1>1, <1>2, <1>5, <1>6

(* The mapping map with n units of e from win on *)
Partly(map, e, win, n) ==
    [size |-> IF win = 0 /\ n > 0 THEN e[1] ELSE map.size,
     ents |-> [j \in Index |-> IF j + 1 \in win .. win + n - 1 THEN e[j + 2] ELSE map.ents[j]]]

(* What memcpy makes of a mapping *)
PutMap(map, at, units) ==
    [size |-> IF at = 0 THEN units[1] ELSE map.size,
     ents |-> [j \in Index |-> IF j + 1 \in at .. at + Len(units) - 1
                               THEN units[j + 2 - at] ELSE map.ents[j]]]

(* A mapping written in part is a mapping.                                  *)
LEMMA PartlyType ==
    ASSUME NEW map \in Map, NEW e \in Edits, NEW win \in Nat, NEW n \in Nat, win + n <= Len(e)
    PROVE  Partly(map, e, win, n) \in Map /\ (n = 0 => Partly(map, e, win, n) = map)
<1> DEFINE ents == [j \in Index |-> IF j + 1 \in win .. win + n - 1 THEN e[j + 2] ELSE map.ents[j]]
           size == IF win = 0 /\ n > 0 THEN e[1] ELSE map.size
<1>1. map.size \in Nat /\ map.ents \in [Index -> Entry]
      /\ map = [size |-> map.size, ents |-> map.ents]
  BY MapFields
<1>2. Len(e) \in Nat /\ e[1] \in Nat /\ \A k \in 2 .. Len(e) : e[k] \in Entry
  BY EditSeq
<1>3. \A j \in Index : ents[j] \in Entry /\ (n = 0 => ents[j] = map.ents[j])
  <2> TAKE j \in Index
  <2>1. j \in Nat /\ (j + 1 \in win .. win + n - 1 => j + 2 \in 2 .. Len(e) /\ n # 0)
    BY <1>2, Sizes DEF Index
  <2> QED BY <1>1, <1>2, <2>1
<1>4. ents \in [Index -> Entry] /\ (n = 0 => ents = map.ents)
  BY <1>1, <1>3
<1>5. size \in Nat /\ (n = 0 => size = map.size)
  BY <1>1, <1>2
<1>6. Partly(map, e, win, n) = [size |-> size, ents |-> ents]
  BY DEF Partly
<1> HIDE DEF size, ents
<1> QED BY <1>1, <1>4, <1>5, <1>6 DEF Map

(* A prepared unit *)
LEMMA PartlyNext ==
    ASSUME NEW map \in Map, NEW e \in Edits, NEW win \in Nat, NEW n \in Nat, win + n < Len(e)
    PROVE  PutMap(Partly(map, e, win, n), win + n, <<e[win + n + 1]>>) = Partly(map, e, win, n + 1)
<1> DEFINE m == Partly(map, e, win, n)
           u == <<e[win + n + 1]>>
           at == win + n
<1>1. Len(u) = 1 /\ u[1] = e[win + n + 1]
  OBVIOUS
<1>2. (IF at = 0 THEN u[1] ELSE m.size) = (IF win = 0 /\ n + 1 > 0 THEN e[1] ELSE map.size)
  <2>1. m.size = IF win = 0 /\ n > 0 THEN e[1] ELSE map.size
    BY DEF Partly
  <2>2. (at = 0 <=> win = 0 /\ n = 0) /\ (n > 0 <=> n # 0) /\ n + 1 > 0
        /\ (at = 0 => win + n + 1 = 1)
    OBVIOUS
  <2> HIDE DEF m, u, at
  <2> QED BY <1>1, <2>1, <2>2
<1>3. ASSUME NEW j \in Index
      PROVE  (IF j + 1 \in at .. at + Len(u) - 1 THEN u[j + 2 - at] ELSE m.ents[j])
             = (IF j + 1 \in win .. win + (n + 1) - 1 THEN e[j + 2] ELSE map.ents[j])
  <2>1. m.ents[j] = IF j + 1 \in win .. win + n - 1 THEN e[j + 2] ELSE map.ents[j]
    BY DEF Partly
  <2>2. j \in Nat
    BY Sizes DEF Index
  <2>3. j + 1 \in at .. at + Len(u) - 1 <=> j + 1 = win + n
    BY <1>1, <2>2
  <2>4. j + 1 = win + n => j + 2 - at = 1 /\ win + n + 1 = j + 2
    BY <2>2
  <2>5. j + 1 \in win .. win + (n + 1) - 1 <=> j + 1 = win + n \/ j + 1 \in win .. win + n - 1
    BY <2>2
  <2> HIDE DEF m, u, at
  <2> QED BY <1>1, <2>1, <2>3, <2>4, <2>5
<1> HIDE DEF m, u, at
<1>4. PutMap(m, at, u) = Partly(map, e, win, n + 1)
  BY <1>2, <1>3 DEF PutMap, Partly
<1> QED BY <1>4 DEF m, u, at

(* A window in one request *)
LEMMA PartlyWhole ==
    ASSUME NEW map \in Map, NEW e \in Edits, NEW win \in Nat,
           NEW n \in Nat, n > 0, win + n <= Len(e)
    PROVE  PutMap(map, win, SubSeq(e, win + 1, win + n)) = Partly(map, e, win, n)
<1> DEFINE u == SubSeq(e, win + 1, win + n)
<1>1. e \in Seq(Nat \cup Entry) /\ Len(e) \in Nat
  BY EditSeq
<1>2. Len(u) = n /\ \A k \in 1 .. n : u[k] = e[win + k]
  <2>1. Len(u) = n
    BY <1>1
  <2>2. \A k \in 1 .. n : u[k] = e[win + 1 + k - 1]
    BY <1>1
  <2>3. \A k \in 1 .. n : win + 1 + k - 1 = win + k
    OBVIOUS
  <2> QED BY <2>1, <2>2, <2>3
<1> HIDE DEF u
<1>3. (IF win = 0 THEN u[1] ELSE map.size) = (IF win = 0 /\ n > 0 THEN e[1] ELSE map.size)
  <2>1. 1 \in 1 .. n /\ (win = 0 => win + 1 = 1)
    OBVIOUS
  <2> QED BY <1>2, <2>1
<1>4. ASSUME NEW j \in Index
      PROVE  (IF j + 1 \in win .. win + Len(u) - 1 THEN u[j + 2 - win] ELSE map.ents[j])
             = (IF j + 1 \in win .. win + n - 1 THEN e[j + 2] ELSE map.ents[j])
  <2>1. j \in Nat
    BY Sizes DEF Index
  <2>2. j + 1 \in win .. win + n - 1 => j + 2 - win \in 1 .. n /\ win + (j + 2 - win) = j + 2
    BY <2>1
  <2> QED BY <1>2, <2>2
<1>5. PutMap(map, win, u) = Partly(map, e, win, n)
  BY <1>3, <1>4 DEF PutMap, Partly
<1> QED BY <1>5 DEF u

(* A write of units to one device leaves the others.                        *)
LEMMA PutType ==
    ASSUME NEW cfg \in Config, NEW id \in Dev, NEW at, NEW units,
           PutMap(cfg.maps[id], at, units) \in Map
    PROVE  LET r == Put(cfg, id, at, units) IN
           /\ r \in Config /\ SameHead(r, cfg)
           /\ r.maps = [cfg.maps EXCEPT ![id] = PutMap(cfg.maps[id], at, units)]
<1> DEFINE new == PutMap(cfg.maps[id], at, units)
<1>1. Put(cfg, id, at, units) = [cfg EXCEPT !.maps[id] = new]
  BY DEF Put, PutMap
<1> HIDE DEF new
<1>2. new \in Map
  BY DEF new
<1>3. LET r == [cfg EXCEPT !.maps[id] = new] IN
      /\ r \in Config /\ r.maps = [cfg.maps EXCEPT ![id] = new]
      /\ r.over = cfg.over /\ SameHead(r, cfg)
  BY <1>2, NewMap
<1> QED BY <1>1, <1>3 DEF new

-----------------------------------------------------------------------------
(* The card is a record of its fields, whatever is done to it. *)
CardShape(c) ==
    c = [buf |-> c.buf, dirty |-> c.dirty, ready |-> c.ready,
         trace |-> c.trace, left |-> c.left, over |-> c.over]

(* Every operation on the card keeps its size and its words.                *)
LEMMA CardShapes ==
    /\ CardShape(NewCard)
    /\ \A c, bank, at, n, by : CardShape(c) => CardShape(McWrite(bank, c, at, n, by))
    /\ \A c, bank, n : CardShape(c) => CardShape(MonTx(bank, c, n))
    /\ \A c, f : CardShape(c) => /\ CardShape(StoreNext(c, f).card)
                                 /\ StoreNext(c, f).card.buf = c.buf
    /\ \A c, bank, up, f : CardShape(c) => CardShape(McInit(bank, up, c, f).card)
<1>1. CardShape(NewCard)
  BY DEF NewCard, CardShape
<1>2. ASSUME NEW c, NEW bank, NEW at, NEW n, NEW by, CardShape(c)
      PROVE  CardShape(McWrite(bank, c, at, n, by))
  <2> DEFINE buf == [a \in DOMAIN c.buf |-> IF a \in at .. at + n - 1 THEN [by |-> by, at |-> a]
                                            ELSE c.buf[a]]
             over == c.over \/ BlockOf(at) # BlockOf(at + n - 1)
             dirty == IF bank < BankMax THEN c.dirty \cup {BlockOf(at)} ELSE c.dirty
             new == McWrite(bank, c, at, n, by)
  <2>1. new = [c EXCEPT !.buf = buf, !.over = over, !.dirty = dirty]
    BY DEF McWrite
  <2> HIDE DEF buf, over, dirty, new
  <2>2. CardShape(new)
    BY <1>2, <2>1 DEF CardShape
  <2> QED BY <2>2 DEF new
<1>3. ASSUME NEW c, NEW bank, NEW n, CardShape(c) PROVE CardShape(MonTx(bank, c, n))
  <2> DEFINE h == McWrite(bank, c, c.trace, 1, "trace")
             w == McWrite(bank, h, c.trace + 1, n, "trace")
  <2>1. CardShape(h)
    BY <1>2, <1>3
  <2> HIDE DEF h
  <2>2. CardShape(w)
    BY <1>2, <2>1
  <2>3. MonTx(bank, c, n) = [w EXCEPT !.trace = c.trace + 1 + n]
    BY DEF MonTx, h
  <2> HIDE DEF w
  <2> QED BY <2>2, <2>3 DEF CardShape
<1>4. ASSUME NEW c, NEW f, CardShape(c)
      PROVE  CardShape(StoreNext(c, f).card) /\ StoreNext(c, f).card.buf = c.buf
  <2> DEFINE new == StoreNext(c, f).card
             dirty == IF c.left = 1 THEN {} ELSE c.dirty
  <2>1. new = [c EXCEPT !.left = @ - 1, !.ready = c.left = 1, !.dirty = dirty]
    BY DEF StoreNext
  <2> HIDE DEF new, dirty
  <2> QED BY <1>4, <2>1 DEF CardShape, new
<1>5. ASSUME NEW c, NEW bank, NEW up, NEW f, CardShape(c)
      PROVE  CardShape(McInit(bank, up, c, f).card)
  <2> DEFINE new == McInit(bank, up, c, f).card
  <2>1. new \in {c, Restore(c, f), [c EXCEPT !.left = Blocks]}
    <3>1. CASE bank >= BankMax \/ ~up
      BY <3>1 DEF McInit
    <3>2. CASE ~(bank >= BankMax \/ ~up) /\ bank < BankMax /\ up /\ f.exists
      BY <3>2 DEF McInit
    <3>3. CASE ~(bank >= BankMax \/ ~up) /\ ~(bank < BankMax /\ up /\ f.exists)
      BY <3>3 DEF McInit
    <3> QED BY <3>1, <3>2, <3>3
  <2>2. CardShape(Restore(c, f))
    <3> DEFINE buf == [a \in DOMAIN c.buf |-> IF BlockOf(a) < f.has THEN f.buf[a] ELSE c.buf[a]]
               ready == f.has = Blocks
    <3>1. Restore(c, f) = [c EXCEPT !.buf = buf, !.ready = ready]
      BY DEF Restore
    <3> HIDE DEF buf, ready
    <3> QED BY <1>5, <3>1 DEF CardShape
  <2>3. CardShape([c EXCEPT !.left = Blocks])
    BY <1>5 DEF CardShape
  <2> HIDE DEF new
  <2> QED BY <1>5, <2>1, <2>2, <2>3 DEF new
<1> QED BY <1>1, <1>2, <1>3, <1>4, <1>5

(* The inductive invariant. *)

FileInv ==
    /\ FileFits(file) /\ flash \in Seq(File)
    /\ \A k \in 1 .. Len(flash) : FileWritten(flash[k])

CfgInv ==
    /\ ram \in Config /\ acked \in Config
    /\ power \in {"off", "boot", "on"} /\ fs \in BOOLEAN
    /\ power = "off" => flash = <<>> /\ job = NoJob
    /\ power # "off" => Current(ram) /\ acked.ver = Latest

SvcInv ==
    /\ svc \in [mtu : Nat, id : Dev, off : Nat, outId : Dev, ota : BOOLEAN, mc : Nat]
    /\ conn \in [up : BOOLEAN, mtu : Nat]
    /\ svc.mtu >= MinMtu /\ conn.mtu >= MinMtu

(* The client is in a window of its mapping; the service has the address it  *)
(* selected, and the trace has ended.                                       *)
JobInv ==
    \/ job = NoJob
    \/ /\ job \in [id : Dev, units : Edits, win : Nat, sent : Nat, selected : BOOLEAN]
       /\ job.win < Len(job.units)
       /\ job.sent <= Least(AttMax, Len(job.units) - job.win)
       /\ job.sent > 0 => job.selected
       /\ job.selected => svc.id = job.id /\ svc.off = job.win /\ ram.bank # BankDbg

(* The mappings that clients were told are kept, with what is prepared of    *)
(* the next                                                                 *)
Prepared ==
    IF job = NoJob THEN acked.maps
    ELSE [acked.maps EXCEPT ![job.id] = Partly(@, job.units, job.win, job.sent)]

RamKept ==
    /\ ram.out = acked.out /\ ram.maps = Prepared
    /\ ram.bank = acked.bank \/ (acked.bank = BankDbg /\ ram.bank = BankOff)

(* Nothing has happened that excuses a difference: the file, once it is      *)
(* written, holds what clients were told is kept, and so does the memory.   *)
Durable ==
    faults = {} =>
        /\ power = "off" /\ acked # Zero => Kept(Loaded(file), acked)
        /\ power # "off" /\ fs => Kept(Loaded(After(file, flash)), acked) /\ RamKept

(* The reading of the card *)
CardInv ==
    /\ CardShape(card)
    /\ reading.on \in BOOLEAN /\ reading.prep \in BOOLEAN
    /\ reading.on \/ reading.prep => power = "on" /\ job = NoJob
    /\ reading.on =>
          /\ ram.bank # BankDbg /\ reading.was = card.buf
          /\ reading.from \in Nat /\ Len(reading.got) \in Nat
          /\ reading.got = [k \in 1 .. Len(reading.got) |-> reading.was[reading.from + k - 1]]
          /\ svc.mc = reading.from + Len(reading.got)
          /\ reading = [on |-> reading.on, prep |-> reading.prep, from |-> reading.from,
                        was |-> reading.was, got |-> reading.got]

CfgStep == FileInv /\ CfgInv /\ SvcInv /\ JobInv
SvcIInv == CfgStep /\ Durable /\ CardInv

(* A client that writes a mapping is not idle.                              *)
LEMMA JobIs ==
    ASSUME NEW j, j.units \in Edits
    PROVE  j # NoJob
<1>1. Len(j.units) > 0
  BY EditSeq
<1>2. NoJob.units = <<>> /\ Len(<<>>) = 0
  BY DEF NoJob
<1> QED BY <1>1, <1>2

(* Nothing is loaded, nothing was told.                                     *)
LEMMA InitInv == Init => SvcIInv
<1> SUFFICES ASSUME Init PROVE SvcIInv
  OBVIOUS
<1> USE DEF Init
<1>1. FileInv
  <2>1. file \in Files
    OBVIOUS
  <2>2. file = NoFile \/ (file \in File /\ file.exists /\ LayoutFits(file.cfg))
    BY <2>1, SvcAssumption
  <2>3. FileFits(file)
    BY <2>2, ZeroType DEF FileFits
  <2> QED BY <2>3, EmptySeq DEF FileInv
<1>2. CfgInv
  BY ZeroType DEF CfgInv
<1>3. SvcInv
  BY Sizes DEF SvcInv, NoSvc, NoConn, MinMtu, Dev
<1>4. JobInv
  BY DEF JobInv
<1>5. Durable
  BY DEF Durable
<1>6. CardInv
  BY CardShapes DEF CardInv, NoReading
<1> QED BY <1>1, <1>2, <1>3, <1>4, <1>5, <1>6 DEF SvcIInv, CfgStep

(* Steps that leave the file and what clients were told alone *)
LEMMA QuietStep ==
    ASSUME SvcIInv, UNCHANGED <<file, flash, fs, acked, faults, job>>,
           ram' = ram \/ ram' = NoTrace(ram),
           power' = power \/ (power = "boot" /\ power' = "on"),
           svc'.id = svc.id, svc'.off = svc.off
    PROVE  FileInv' /\ CfgInv' /\ JobInv' /\ Durable'
<1> USE DEF SvcIInv, CfgStep
<1>1. ram \in Config
  BY DEF CfgInv
<1>2. /\ ram' \in Config /\ ram'.out = ram.out /\ ram'.maps = ram.maps
      /\ ram'.ver = ram.ver /\ ram'.layout = ram.layout
      /\ ram'.bank = ram.bank \/ (ram.bank = BankDbg /\ ram'.bank = BankOff)
      /\ ram.bank # BankDbg => ram'.bank = ram.bank
  BY <1>1, NoTraceType
<1>3. FileInv'
  BY DEF FileInv
<1>4. CfgInv'
  BY <1>2 DEF CfgInv, Current
<1>5. JobInv'
  BY <1>2 DEF JobInv
<1>6. Durable'
  <2>1. Prepared' = Prepared
    BY DEF Prepared
  <2>2. power' = "off" <=> power = "off"
    BY DEF CfgInv
  <2>3. RamKept => RamKept'
    BY <1>2, <2>1 DEF RamKept
  <2> QED BY <2>2, <2>3 DEF Durable
<1> QED BY <1>3, <1>4, <1>5, <1>6

(* A configuration is stored: config_update *)
LEMMA StoreStep ==
    ASSUME SvcIInv, Current(ram'), flash' = Store(fs, ram'), power = "on",
           UNCHANGED <<file, power, fs, faults>>,
           acked' \in Config, acked'.ver = Latest,
           faults = {} /\ fs => RamKept' /\ Kept(ram', acked')
    PROVE  FileInv' /\ CfgInv' /\ Durable'
<1> USE DEF SvcIInv, CfgStep
<1>1. ram' \in Config /\ ram'.ver = Latest /\ ram'.layout = "v3" /\ fs \in BOOLEAN
  BY DEF Current, CfgInv
<1>2. /\ flash' \in Seq(File) /\ \A k \in 1 .. Len(flash') : FileWritten(flash'[k])
      /\ fs => After(file, flash') = Stored(ram')
  BY <1>1, StoreType
<1>3. FileInv'
  BY <1>2 DEF FileInv
<1>4. CfgInv'
  BY <1>1 DEF CfgInv
<1>5. ASSUME faults = {}, fs PROVE Kept(Loaded(After(file, flash')), acked')
  <2>1. Stored(ram') = Whole(ram')
    BY <1>1, StoredType
  <2>2. Settings(Loaded(Whole(ram')), ram')
    BY LoadedWhole
  <2> QED BY <1>2, <1>5, <2>1, <2>2, KeptTrivial
<1>6. Durable'
  BY <1>5 DEF Durable
<1> QED BY <1>3, <1>4, <1>6

(* All but what is about the card *)
CfgPart == FileInv /\ CfgInv /\ SvcInv /\ JobInv /\ Durable

(* The steps, one by one: what each leaves of the file, of the settings and *)
(* of what clients were told.  First those that leave all of that alone.    *)
LEMMA StartedCfg == SvcIInv /\ Started => CfgPart'
<1> SUFFICES ASSUME SvcIInv, Started PROVE CfgPart'
  OBVIOUS
<1>1. FileInv' /\ CfgInv' /\ JobInv' /\ Durable'
  BY QuietStep DEF Started
<1>2. SvcInv'
  BY DEF Started, SvcIInv, CfgStep, SvcInv
<1> QED BY <1>1, <1>2 DEF CfgPart

LEMMA CardStoreCfg == SvcIInv /\ CardStore => CfgPart'
<1> SUFFICES ASSUME SvcIInv, CardStore PROVE CfgPart'
  OBVIOUS
<1>1. FileInv' /\ CfgInv' /\ JobInv' /\ Durable'
  BY QuietStep DEF CardStore
<1>2. SvcInv'
  BY DEF CardStore, SvcIInv, CfgStep, SvcInv
<1> QED BY <1>1, <1>2 DEF CfgPart

LEMMA TraceCfg == \A n : SvcIInv /\ Trace(n) => CfgPart'
<1> SUFFICES ASSUME NEW n, SvcIInv, Trace(n) PROVE CfgPart'
  OBVIOUS
<1>1. FileInv' /\ CfgInv' /\ JobInv' /\ Durable'
  BY QuietStep DEF Trace
<1>2. SvcInv'
  BY DEF Trace, SvcIInv, CfgStep, SvcInv
<1> QED BY <1>1, <1>2 DEF CfgPart

LEMMA ConnectCfg == SvcIInv /\ Connect => CfgPart'
<1> SUFFICES ASSUME SvcIInv, Connect PROVE CfgPart'
  OBVIOUS
<1>1. FileInv' /\ CfgInv' /\ JobInv' /\ Durable'
  BY QuietStep DEF Connect
<1>2. SvcInv'
  <2>1. conn' \in [up : BOOLEAN, mtu : Nat] /\ conn'.mtu >= MinMtu
    BY DEF Connect, MinMtu
  <2> QED BY <2>1 DEF Connect, SvcIInv, CfgStep, SvcInv
<1> QED BY <1>1, <1>2 DEF CfgPart

LEMMA MtuReqCfg == \A m \in Mtus : SvcIInv /\ MtuReq(m) => CfgPart'
<1> SUFFICES ASSUME NEW m \in Mtus, SvcIInv, MtuReq(m) PROVE CfgPart'
  OBVIOUS
<1> DEFINE n == Least(m, MaxMtu)
<1>1. n \in Nat /\ n >= MinMtu
  BY SvcAssumption DEF Least, MinMtu
<1>2. svc' = [svc EXCEPT !.mtu = n] /\ conn' = [conn EXCEPT !.mtu = n]
  BY DEF MtuReq
<1> HIDE DEF n
<1>3. SvcInv' /\ svc'.id = svc.id /\ svc'.off = svc.off
  BY <1>1, <1>2 DEF SvcIInv, CfgStep, SvcInv
<1>4. FileInv' /\ CfgInv' /\ JobInv' /\ Durable'
  BY <1>3, QuietStep DEF MtuReq
<1> QED BY <1>3, <1>4 DEF CfgPart

(* A WRITE_REQ that ends the trace and stores nothing                       *)
LEMMA SelectOutCfg == \A i \in Dev : SvcIInv /\ SelectOut(i) => CfgPart'
<1> SUFFICES ASSUME NEW i \in Dev, SvcIInv, SelectOut(i) PROVE CfgPart'
  OBVIOUS
<1>1. SvcInv' /\ svc'.id = svc.id /\ svc'.off = svc.off
  BY DEF SelectOut, SvcIInv, CfgStep, SvcInv
<1>2. FileInv' /\ CfgInv' /\ JobInv' /\ Durable'
  BY <1>1, QuietStep DEF SelectOut
<1> QED BY <1>1, <1>2 DEF CfgPart

LEMMA OtaCfg == \A b \in BOOLEAN : SvcIInv /\ Ota(b) => CfgPart'
<1> SUFFICES ASSUME NEW b \in BOOLEAN, SvcIInv, Ota(b) PROVE CfgPart'
  OBVIOUS
<1>1. SvcInv' /\ svc'.id = svc.id /\ svc'.off = svc.off
  BY DEF Ota, SvcIInv, CfgStep, SvcInv
<1>2. FileInv' /\ CfgInv' /\ JobInv' /\ Durable'
  BY <1>1, QuietStep DEF Ota
<1> QED BY <1>1, <1>2 DEF CfgPart

LEMMA SelectCardCfg == \A at \in Nat : SvcIInv /\ SelectCard(at) => CfgPart'
<1> SUFFICES ASSUME NEW at \in Nat, SvcIInv, SelectCard(at) PROVE CfgPart'
  OBVIOUS
<1>1. SvcInv' /\ svc'.id = svc.id /\ svc'.off = svc.off
  BY DEF SelectCard, SvcIInv, CfgStep, SvcInv
<1>2. FileInv' /\ CfgInv' /\ JobInv' /\ Durable'
  BY <1>1, QuietStep DEF SelectCard
<1> QED BY <1>1, <1>2 DEF CfgPart

(* No answer crosses the end of a block. *)
LEMMA CardRdLenType ==
    ASSUME NEW at \in Nat, NEW mtu \in Nat, mtu >= MinMtu
    PROVE  LET n == CardRdLen(at, mtu) IN
           /\ n \in Nat /\ n > 0
           /\ \A k \in 1 .. n : BlockOf(at + k - 1) = BlockOf(at)
<1> DEFINE b == BlockOf(at)
           n == CardRdLen(at, mtu)
<1>1. BlockSize \in Nat /\ BlockSize > 0
  BY CardAssumption
<1>2. \A a \in Nat, q \in Int :
        a \div BlockSize = q <=> q * BlockSize <= a /\ a < (q + 1) * BlockSize
  BY <1>1
<1>3. b \in Int /\ b * BlockSize <= at /\ at < (b + 1) * BlockSize
  BY <1>1, <1>2 DEF BlockOf
<1> HIDE DEF b
<1>4. (b + 1) * BlockSize \in Int
  BY <1>1, <1>3
<1> DEFINE room == (b + 1) * BlockSize - at
<1>5. room \in Nat /\ room > 0 /\ at + room = (b + 1) * BlockSize
  BY <1>3, <1>4
<1>6. n = IF room > mtu - 1 THEN mtu - 1 ELSE room
  BY DEF CardRdLen, b
<1> HIDE DEF n, room
<1>7. n \in Nat /\ n > 0 /\ n <= room
  BY <1>5, <1>6 DEF MinMtu
<1>8. ASSUME NEW k \in 1 .. n PROVE BlockOf(at + k - 1) = b
  <2>1. at + k - 1 \in Nat /\ at <= at + k - 1 /\ at + k - 1 < (b + 1) * BlockSize
    BY <1>4, <1>5, <1>7
  <2>2. b * BlockSize \in Int /\ b * BlockSize <= at + k - 1
    BY <1>1, <1>3, <2>1
  <2> QED BY <1>2, <1>3, <2>1, <2>2 DEF BlockOf
<1> QED BY <1>7, <1>8 DEF n, b

LEMMA ReadCardCfg == SvcIInv /\ ReadCard => CfgPart'
<1> SUFFICES ASSUME SvcIInv, ReadCard PROVE CfgPart'
  OBVIOUS
<1> DEFINE n == CardRdLen(svc.mc, svc.mtu)
<1>1. svc.mc \in Nat /\ svc.mtu \in Nat /\ svc.mtu >= MinMtu
  BY DEF SvcIInv, CfgStep, SvcInv
<1>2. n \in Nat
  BY <1>1, CardRdLenType
<1>3. svc' = [svc EXCEPT !.mc = @ + n] /\ UNCHANGED conn
  BY DEF ReadCard
<1> HIDE DEF n
<1>4. SvcInv' /\ svc'.id = svc.id /\ svc'.off = svc.off
  BY <1>1, <1>2, <1>3 DEF SvcIInv, CfgStep, SvcInv
<1>5. FileInv' /\ CfgInv' /\ JobInv' /\ Durable'
  BY <1>4, QuietStep DEF ReadCard
<1> QED BY <1>4, <1>5 DEF CfgPart

LEMMA WriteCardCfg == \A n \in Nat, b \in BOOLEAN : SvcIInv /\ WriteCard(n, b) => CfgPart'
<1> SUFFICES ASSUME NEW n \in Nat, NEW b \in BOOLEAN, SvcIInv, WriteCard(n, b) PROVE CfgPart'
  OBVIOUS
<1>1. SvcInv' /\ svc'.id = svc.id /\ svc'.off = svc.off
  BY DEF WriteCard, SvcIInv, CfgStep, SvcInv
<1>2. ram' = ram \/ ram' = NoTrace(ram)
  BY DEF WriteCard
<1>3. FileInv' /\ CfgInv' /\ JobInv' /\ Durable'
  BY <1>1, <1>2, QuietStep DEF WriteCard
<1> QED BY <1>1, <1>3 DEF CfgPart

(* A file is written: what the flash ends with stays.                        *)
LEMMA FlashCfg == SvcIInv /\ Flash => CfgPart'
<1> SUFFICES ASSUME SvcIInv, Flash PROVE CfgPart'
  OBVIOUS
<1> USE DEF SvcIInv, CfgStep
<1>1. /\ flash \in Seq(File) /\ flash # <<>> /\ \A k \in 1 .. Len(flash) : FileWritten(flash[k])
      /\ file' = Head(flash) /\ flash' = Tail(flash)
  BY DEF FileInv, Flash
<1>2. /\ Len(flash) \in Nat /\ Len(flash) > 0 /\ Head(flash) = flash[1]
      /\ Tail(flash) \in Seq(File) /\ Len(Tail(flash)) = Len(flash) - 1
      /\ \A k \in 1 .. Len(Tail(flash)) : Tail(flash)[k] = flash[k + 1]
  BY <1>1
<1>3. FileInv'
  <2>1. 1 \in 1 .. Len(flash) /\ \A k \in 1 .. Len(Tail(flash)) : k + 1 \in 1 .. Len(flash)
    BY <1>2
  <2>2. FileFits(file')
    BY <1>1, <1>2, <2>1 DEF FileWritten
  <2>3. \A k \in 1 .. Len(flash') : FileWritten(flash'[k])
    BY <1>1, <1>2, <2>1
  <2> QED BY <1>1, <1>2, <2>2, <2>3 DEF FileInv
<1>4. After(file', flash') = After(file, flash)
  <2>1. CASE Len(flash) = 1
    <3>0. \A q \in Seq(File) : Len(q) = 0 => q = <<>>
      BY EmptySeq
    <3>1. flash' = <<>> /\ file' = flash[Len(flash)]
      <4>1. Len(Tail(flash)) = 0
        BY <1>2, <2>1
      <4>2. Tail(flash) = <<>>
        BY <1>2, <3>0, <4>1
      <4> QED BY <1>1, <1>2, <2>1, <4>2
    <3> QED BY <1>1, <3>1 DEF After
  <2>2. CASE Len(flash) # 1
    <3> DEFINE n == Len(flash) - 1
    <3>0. n \in 1 .. n /\ n + 1 = Len(flash)
      BY <1>2, <2>2
    <3>1. /\ Len(flash') \in 1 .. Len(flash') /\ Len(flash') + 1 = Len(flash)
          /\ flash' # <<>>
      <4>1. Len(flash') = n
        BY <1>1, <1>2
      <4>2. Len(<<>>) = 0 /\ n # 0
        BY <3>0
      <4> HIDE DEF n
      <4> QED BY <3>0, <4>1, <4>2
    <3>2. flash'[Len(flash')] = flash[Len(flash)]
      BY <1>1, <1>2, <3>1
    <3> QED BY <1>1, <3>1, <3>2 DEF After
  <2> QED BY <2>1, <2>2
<1>5. power # "off"
  BY <1>1 DEF CfgInv
<1>6. CfgInv' /\ SvcInv' /\ JobInv'
  BY <1>5 DEF Flash, CfgInv, SvcInv, JobInv, Current
<1>7. RamKept' <=> RamKept
  BY DEF Flash, RamKept, Prepared
<1>8. Durable'
  BY <1>4, <1>5, <1>7 DEF Durable, Flash
<1> QED BY <1>3, <1>6, <1>8 DEF CfgPart

(* A start loads the file; what it loads is what clients are told from here. *)
LEMMA BootCfg == \A mount : SvcIInv /\ Boot(mount) => CfgPart'
<1> SUFFICES ASSUME NEW mount, SvcIInv, Boot(mount) PROVE CfgPart'
  OBVIOUS
<1> USE DEF SvcIInv, CfgStep
<1> DEFINE found == IF mount = "formatted" THEN NoFile ELSE file
           up == mount # "failed"
           loaded == Load(up, found, Zero)
<1>0. /\ power = "off" /\ file' = found /\ fs' = up /\ ram' = loaded.cfg /\ flash' = loaded.states
      /\ acked' = loaded.cfg /\ faults' = {} /\ power' = "boot" /\ svc' = NoSvc
      /\ UNCHANGED <<conn, job>>
  BY DEF Boot
<1>1. FileFits(found)
  BY ZeroType DEF FileInv
<1>2. Zero \in Config /\ Zero.layout = "v3"
  BY ZeroType DEF Zero
<1> HIDE DEF found
<1>3. up \in BOOLEAN
  OBVIOUS
<1>4. /\ Stage(loaded) /\ Current(loaded.cfg)
      /\ up => Kept(Loaded(After(found, loaded.states)), loaded.cfg)
  <2>1. CASE up = TRUE
    <3>1. loaded = Load(TRUE, found, Zero)
      BY <2>1
    <3> HIDE DEF loaded, up
    <3>2. LET l == Load(TRUE, found, Zero) IN Stage(l) /\ Current(l.cfg)
      BY <1>1, <1>2, LoadType
    <3>3. LET l == Load(TRUE, found, Zero) IN Kept(Loaded(After(found, l.states)), l.cfg)
      BY <1>1, LoadStable
    <3> QED BY <3>1, <3>2, <3>3
  <2>2. CASE up = FALSE
    <3>1. loaded = Load(FALSE, found, Zero)
      BY <2>2
    <3> HIDE DEF loaded, up
    <3>2. LET l == Load(FALSE, found, Zero) IN Stage(l) /\ Current(l.cfg)
      BY <1>2, LoadFailed
    <3> QED BY <2>2, <3>1, <3>2
  <2> QED BY <2>1, <2>2
<1> HIDE DEF loaded, up
<1>5. FileInv'
  BY <1>0, <1>1, <1>4 DEF FileInv, Stage
<1>6. job = NoJob /\ job' = NoJob
  BY <1>0 DEF CfgInv
<1>7. CfgInv'
  BY <1>0, <1>3, <1>4, <1>6 DEF CfgInv, Current
<1>8. SvcInv'
  <2>1. svc' \in [mtu : Nat, id : Dev, off : Nat, outId : Dev, ota : BOOLEAN, mc : Nat]
        /\ svc'.mtu >= MinMtu
    BY <1>0, Sizes DEF NoSvc, MinMtu, Dev
  <2> QED BY <1>0, <2>1 DEF SvcInv
<1>9. JobInv'
  BY <1>6 DEF JobInv
<1>10. Durable'
  <2>1. RamKept'
    BY <1>0, <1>6 DEF RamKept, Prepared
  <2> QED BY <1>0, <1>4, <2>1 DEF Durable
<1> QED BY <1>5, <1>7, <1>8, <1>9, <1>10 DEF CfgPart

(* A file that was cut is the beginning of one.                              *)
LEMMA CutsFit ==
    ASSUME NEW f, FileWritten(f), NEW c \in Cuts(f)
    PROVE  FileFits(c)
<1>1. f \in File /\ f.exists /\ (f.cfg.ver # Latest => LayoutFits(f.cfg))
  BY DEF FileWritten, FileFits
<1>2. PICK at \in Ends : c = [f EXCEPT !.has = at]
  BY DEF Cuts
<1>3. at \in Place
  BY Sizes DEF Ends, Place
<1>4. c \in File /\ c.exists /\ c.cfg = f.cfg
  BY <1>1, <1>2, <1>3 DEF File
<1> QED BY <1>1, <1>4 DEF FileFits

(* A power cut: without a store under way the file is what clients were     *)
(* told.                                                                    *)
LEMMA PowerCutCfg == SvcIInv /\ PowerCut => CfgPart'
<1> SUFFICES ASSUME SvcIInv, PowerCut PROVE CfgPart'
  OBVIOUS
<1> USE DEF SvcIInv, CfgStep
<1>0. /\ power # "off" /\ power' = "off" /\ flash' = <<>> /\ ram' = Zero /\ fs' = FALSE
      /\ svc' = NoSvc /\ conn' = NoConn /\ job' = NoJob /\ acked' = acked
      /\ file' = file \/ (flash # <<>> /\ file' \in Cuts(Head(flash)))
  BY DEF PowerCut
<1>1. FileInv'
  <2>1. CASE file' = file
    BY <1>0, <2>1, EmptySeq DEF FileInv
  <2>2. CASE flash # <<>> /\ file' \in Cuts(Head(flash))
    <3>1. FileWritten(Head(flash))
      <4>1. /\ flash \in Seq(File) /\ flash # <<>>
            /\ \A k \in 1 .. Len(flash) : FileWritten(flash[k])
        BY <2>2 DEF FileInv
      <4>2. 1 \in 1 .. Len(flash) /\ Head(flash) = flash[1]
        BY <4>1
      <4> QED BY <4>1, <4>2
    <3>2. FileFits(file')
      BY <2>2, <3>1, CutsFit
    <3> QED BY <1>0, <3>2, EmptySeq DEF FileInv
  <2> QED BY <1>0, <2>1, <2>2
<1>2. CfgInv'
  BY <1>0, ZeroType DEF CfgInv
<1>3. SvcInv'
  <2>1. svc' \in [mtu : Nat, id : Dev, off : Nat, outId : Dev, ota : BOOLEAN, mc : Nat]
        /\ svc'.mtu >= MinMtu
    BY <1>0, Sizes DEF NoSvc, MinMtu, Dev
  <2>2. conn' \in [up : BOOLEAN, mtu : Nat] /\ conn'.mtu >= MinMtu
    BY <1>0 DEF NoConn, MinMtu
  <2> QED BY <2>1, <2>2 DEF SvcInv
<1>4. JobInv'
  BY <1>0 DEF JobInv
<1>5. Durable'
  <2> SUFFICES ASSUME faults' = {} PROVE Kept(Loaded(file'), acked)
    BY <1>0 DEF Durable
  <2>1. faults = {} /\ flash = <<>> /\ fs /\ file' = file
    BY <1>0 DEF PowerCut, CfgInv
  <2>2. After(file, flash) = file
    BY <2>1 DEF After
  <2> QED BY <1>0, <2>1, <2>2 DEF Durable
<1> QED BY <1>1, <1>2, <1>3, <1>4, <1>5 DEF CfgPart

(* Without a job, or with nothing of it prepared, the mappings are the ones  *)
(* that clients were told are kept.                                         *)
LEMMA NonePrepared ==
    ASSUME NEW maps \in [Dev -> Map], NEW j,
           \/ j = NoJob
           \/ /\ j.id \in Dev /\ j.units \in Edits /\ j.win \in Nat /\ j.win < Len(j.units)
              /\ j.sent = 0
    PROVE  (IF j = NoJob THEN maps
            ELSE [maps EXCEPT ![j.id] = Partly(@, j.units, j.win, j.sent)]) = maps
<1>1. CASE j = NoJob
  BY <1>1
<1>2. CASE j # NoJob
  <2>1. maps[j.id] \in Map /\ Len(j.units) \in Nat
    BY <1>2, EditSeq
  <2>2. Partly(maps[j.id], j.units, j.win, 0) = maps[j.id]
    <3>1. 0 \in Nat /\ j.win + 0 <= Len(j.units)
      BY <1>2, <2>1
    <3> QED BY <1>2, <2>1, <3>1, PartlyType
  <2> QED BY <1>2, <2>2
<1> QED BY <1>1, <1>2

(* With nothing prepared the memory is what clients were told.              *)
LEMMA PreparedNone ==
    ASSUME CfgInv, JobInv, job = NoJob \/ job.sent = 0
    PROVE  Prepared = acked.maps /\ (RamKept => Kept(ram, acked))
<1>1. acked.maps \in [Dev -> Map]
  BY CfgFields DEF CfgInv
<1>2. \/ job = NoJob
      \/ /\ job.id \in Dev /\ job.units \in Edits /\ job.win \in Nat
         /\ job.win < Len(job.units) /\ job.sent = 0
  BY DEF JobInv
<1>3. Prepared = acked.maps
  BY <1>1, <1>2, NonePrepared DEF Prepared
<1> QED BY <1>3 DEF RamKept, Kept

(* The same after a step                                                    *)
LEMMA PreparedNonePrime ==
    ASSUME acked' \in Config, JobInv', job' = NoJob \/ job'.sent = 0
    PROVE  Prepared' = acked'.maps
<1>1. acked'.maps \in [Dev -> Map]
  BY CfgFields
<1>2. \/ job' = NoJob
      \/ /\ job'.id \in Dev /\ job'.units \in Edits /\ job'.win \in Nat
         /\ job'.win < Len(job'.units) /\ job'.sent = 0
  BY DEF JobInv
<1> QED BY <1>1, <1>2, NonePrepared DEF Prepared

(* A client that leaves in the middle of a mapping is one of the faults.    *)
LEMMA DisconnectCfg == SvcIInv /\ Disconnect => CfgPart'
<1> SUFFICES ASSUME SvcIInv, Disconnect PROVE CfgPart'
  OBVIOUS
<1> USE DEF SvcIInv, CfgStep
<1>0. /\ power = "on" /\ job' = NoJob /\ conn' = NoConn
      /\ UNCHANGED <<file, flash, ram, power, fs, svc, acked>>
  BY DEF Disconnect, Ready
<1>1. FileInv' /\ CfgInv' /\ JobInv'
  BY <1>0 DEF FileInv, CfgInv, JobInv, Current
<1>2. SvcInv'
  <2>1. conn' \in [up : BOOLEAN, mtu : Nat] /\ conn'.mtu >= MinMtu
    BY <1>0 DEF NoConn, MinMtu
  <2> QED BY <1>0, <2>1 DEF SvcInv
<1>3. Durable'
  <2> SUFFICES ASSUME faults' = {}, fs
               PROVE  Kept(Loaded(After(file, flash)), acked) /\ RamKept'
    BY <1>0 DEF Durable
  <2>1. faults = {} /\ (job = NoJob \/ ~(job.sent > 0))
    BY DEF Disconnect
  <2>2. job = NoJob \/ job.sent = 0
    BY <2>1 DEF JobInv
  <2>3. Kept(Loaded(After(file, flash)), acked) /\ RamKept
    BY <1>0, <2>1 DEF Durable
  <2>4. Prepared = acked.maps
    BY <2>2, PreparedNone
  <2>5. RamKept'
    BY <1>0, <2>3, <2>4 DEF RamKept, Prepared
  <2> QED BY <2>3, <2>5
<1> QED BY <1>1, <1>2, <1>3 DEF CfgPart

(* What a client can count on when it sends a request *)
LEMMA ReadyFacts ==
    ASSUME SvcIInv, Ready
    PROVE  /\ power = "on" /\ flash = <<>> /\ Current(ram) /\ ram \in Config
           /\ acked \in Config /\ acked.ver = Latest /\ fs \in BOOLEAN
           /\ After(file, flash) = file
BY DEF SvcIInv, CfgStep, CfgInv, Ready, After, Current

(* The requests that store: memory, the file it ends with, and what the     *)
(* client is told are the same.                                             *)
LEMMA WriteGlobalCfg == \A bank \in 0 .. 255 : SvcIInv /\ WriteGlobal(bank) => CfgPart'
<1> SUFFICES ASSUME NEW bank \in 0 .. 255, SvcIInv, WriteGlobal(bank) PROVE CfgPart'
  OBVIOUS
<1>0. /\ Ready /\ job = NoJob /\ ram' = [ram EXCEPT !.bank = bank] /\ flash' = Store(fs, ram')
      /\ acked' = [acked EXCEPT !.bank = bank]
      /\ UNCHANGED <<file, power, fs, svc, conn, job, faults>>
  BY DEF WriteGlobal, Request, Idle, Update
<1>1. /\ power = "on" /\ Current(ram) /\ ram \in Config
      /\ acked \in Config /\ acked.ver = Latest
  BY <1>0, ReadyFacts
<1>2. Current(ram') /\ ram'.out = ram.out /\ ram'.maps = ram.maps /\ ram'.bank = bank
  BY <1>0, <1>1 DEF Current, Config
<1>3. acked' \in Config /\ acked'.ver = Latest /\ acked'.out = acked.out
      /\ acked'.maps = acked.maps /\ acked'.bank = bank
  BY <1>0, <1>1 DEF Config
<1>4. ASSUME faults = {} /\ fs PROVE RamKept' /\ Kept(ram', acked')
  <2>1. ram.out = acked.out /\ ram.maps = acked.maps
    BY <1>0, <1>1, <1>4 DEF SvcIInv, Durable, RamKept, Prepared
  <2> QED BY <1>0, <1>2, <1>3, <2>1 DEF RamKept, Prepared, Kept
<1>5. FileInv' /\ CfgInv' /\ Durable'
  BY <1>0, <1>1, <1>2, <1>3, <1>4, StoreStep
<1>6. SvcInv' /\ JobInv'
  BY <1>0 DEF SvcIInv, CfgStep, SvcInv, JobInv
<1> QED BY <1>5, <1>6 DEF CfgPart

LEMMA WriteOutCfg == \A mode \in {"pad", "mouse"} : SvcIInv /\ WriteOut(mode) => CfgPart'
<1> SUFFICES ASSUME NEW mode \in {"pad", "mouse"}, SvcIInv, WriteOut(mode) PROVE CfgPart'
  OBVIOUS
<1> DEFINE i == svc.outId
           r == NoTrace(ram)
           a == NoTrace(acked)
<1>0. /\ Ready /\ job = NoJob /\ ram' = [r EXCEPT !.out[i] = mode] /\ flash' = Store(fs, ram')
      /\ acked' = [a EXCEPT !.out[i] = mode]
      /\ UNCHANGED <<file, power, fs, svc, conn, job, faults>>
  BY DEF WriteOut, Request, Idle, Update
<1>1. /\ power = "on" /\ Current(ram) /\ ram \in Config
      /\ acked \in Config /\ acked.ver = Latest /\ i \in Dev
  BY <1>0, ReadyFacts DEF SvcIInv, CfgStep, SvcInv
<1>2. /\ r \in Config /\ r.out = ram.out /\ r.maps = ram.maps /\ r.ver = ram.ver
      /\ r.layout = ram.layout /\ r.bank = IF ram.bank = BankDbg THEN BankOff ELSE ram.bank
  BY <1>1, NoTraceType
<1>3. /\ a \in Config /\ a.out = acked.out /\ a.maps = acked.maps /\ a.ver = acked.ver
      /\ a.bank = IF acked.bank = BankDbg THEN BankOff ELSE acked.bank
  BY <1>1, NoTraceType
<1> HIDE DEF r, a, i
<1> DEFINE ro == [r.out EXCEPT ![i] = mode]
           ao == [a.out EXCEPT ![i] = mode]
<1>4. ro \in [Dev -> {"pad", "mouse"}] /\ ao \in [Dev -> {"pad", "mouse"}]
  BY <1>1, <1>2, <1>3, CfgFields
<1>5. ram' = [r EXCEPT !.out = ro] /\ acked' = [a EXCEPT !.out = ao]
  BY <1>0
<1> HIDE DEF ro, ao
<1>6. Current(ram') /\ ram'.out = ro /\ ram'.maps = ram.maps /\ ram'.bank = r.bank
  BY <1>1, <1>2, <1>4, <1>5 DEF Current, Config
<1>7. acked' \in Config /\ acked'.ver = Latest /\ acked'.out = ao
      /\ acked'.maps = acked.maps /\ acked'.bank = a.bank
  BY <1>1, <1>3, <1>4, <1>5 DEF Config
<1>8. ASSUME faults = {} /\ fs PROVE RamKept' /\ Kept(ram', acked')
  <2>1. /\ ram.out = acked.out /\ ram.maps = acked.maps
        /\ ram.bank = acked.bank \/ (acked.bank = BankDbg /\ ram.bank = BankOff)
    BY <1>0, <1>1, <1>8 DEF SvcIInv, Durable, RamKept, Prepared
  <2>2. ro = ao
    BY <1>2, <1>3, <2>1 DEF ro, ao
  <2>3. r.bank = a.bank
    BY <1>2, <1>3, <2>1
  <2> QED BY <1>0, <1>6, <1>7, <2>1, <2>2, <2>3 DEF RamKept, Prepared, Kept
<1>9. FileInv' /\ CfgInv' /\ Durable'
  BY <1>0, <1>1, <1>6, <1>7, <1>8, StoreStep
<1>10. SvcInv' /\ JobInv'
  BY <1>0 DEF SvcIInv, CfgStep, SvcInv, JobInv
<1> QED BY <1>9, <1>10 DEF CfgPart

LEMMA SetGameidCfg == SvcIInv /\ SetGameid => CfgPart'
<1> SUFFICES ASSUME SvcIInv, SetGameid PROVE CfgPart'
  OBVIOUS
<1>0. /\ Ready /\ job = NoJob /\ ram' = NoTrace(ram) /\ flash' = Store(fs, ram')
      /\ acked' = NoTrace(acked)
      /\ UNCHANGED <<file, power, fs, svc, conn, job, faults>>
  BY DEF SetGameid, Request, Idle, Update
<1>1. /\ power = "on" /\ Current(ram) /\ ram \in Config
      /\ acked \in Config /\ acked.ver = Latest
  BY <1>0, ReadyFacts
<1>2. /\ ram' \in Config /\ ram'.out = ram.out /\ ram'.maps = ram.maps /\ ram'.ver = ram.ver
      /\ ram'.layout = ram.layout /\ ram'.bank = IF ram.bank = BankDbg THEN BankOff ELSE ram.bank
  BY <1>0, <1>1, NoTraceType
<1>3. /\ acked' \in Config /\ acked'.out = acked.out /\ acked'.maps = acked.maps
      /\ acked'.ver = acked.ver
      /\ acked'.bank = IF acked.bank = BankDbg THEN BankOff ELSE acked.bank
  BY <1>0, <1>1, NoTraceType
<1>4. Current(ram')
  BY <1>1, <1>2 DEF Current
<1>5. ASSUME faults = {} /\ fs PROVE RamKept' /\ Kept(ram', acked')
  <2>1. /\ ram.out = acked.out /\ ram.maps = acked.maps
        /\ ram.bank = acked.bank \/ (acked.bank = BankDbg /\ ram.bank = BankOff)
    BY <1>0, <1>1, <1>5 DEF SvcIInv, Durable, RamKept, Prepared
  <2>2. ram'.bank = acked'.bank
    BY <1>2, <1>3, <2>1
  <2> QED BY <1>0, <1>2, <1>3, <2>1, <2>2 DEF RamKept, Prepared, Kept
<1>6. FileInv' /\ CfgInv' /\ Durable'
  BY <1>0, <1>1, <1>3, <1>4, <1>5, StoreStep
<1>7. SvcInv' /\ JobInv'
  BY <1>0 DEF SvcIInv, CfgStep, SvcInv, JobInv
<1> QED BY <1>6, <1>7 DEF CfgPart

LEMMA SetDefaultCfg == SvcIInv /\ SetDefault => CfgPart'
<1> SUFFICES ASSUME SvcIInv, SetDefault PROVE CfgPart'
  OBVIOUS
<1> DEFINE loaded == Load(fs, file, NoTrace(ram))
<1>0. /\ Ready /\ job = NoJob /\ ram' = loaded.cfg /\ flash' = loaded.states
      /\ acked' = loaded.cfg
      /\ UNCHANGED <<file, power, fs, svc, conn, job, faults>>
  BY DEF SetDefault, Request, Idle
<1>1. /\ power = "on" /\ Current(ram) /\ ram \in Config /\ fs \in BOOLEAN
      /\ After(file, flash) = file /\ FileFits(file)
  BY <1>0, ReadyFacts DEF SvcIInv, CfgStep, FileInv
<1>2. NoTrace(ram) \in Config /\ NoTrace(ram).layout = "v3"
  BY <1>1, NoTraceType DEF Current
<1>3. /\ Stage(loaded) /\ Current(loaded.cfg)
      /\ faults = {} /\ fs => Kept(Loaded(After(file, loaded.states)), loaded.cfg)
  <2>1. CASE fs = TRUE
    <3>1. loaded = Load(TRUE, file, NoTrace(ram))
      BY <2>1
    <3> HIDE DEF loaded
    <3>2. LET l == Load(TRUE, file, NoTrace(ram)) IN Stage(l) /\ Current(l.cfg)
      BY <1>1, <1>2, LoadType
    <3>3. ASSUME faults = {}
          PROVE  LET l == Load(TRUE, file, NoTrace(ram)) IN Kept(Loaded(After(file, l.states)), l.cfg)
      <4>1. Kept(Loaded(file), acked) /\ RamKept
        BY <1>1, <2>1, <3>3 DEF SvcIInv, Durable
      <4>2. Kept(ram, acked)
        BY <1>0, <4>1, PreparedNone DEF SvcIInv, CfgStep
      <4> QED BY <1>1, <4>1, <4>2, LoadAgain
    <3> QED BY <3>1, <3>2, <3>3
  <2>2. CASE fs = FALSE
    <3>1. loaded = Load(FALSE, file, NoTrace(ram))
      BY <2>2
    <3> HIDE DEF loaded
    <3>2. LET l == Load(FALSE, file, NoTrace(ram)) IN Stage(l) /\ Current(l.cfg)
      BY <1>2, LoadFailed
    <3> QED BY <2>2, <3>1, <3>2
  <2> QED BY <1>1, <2>1, <2>2
<1> HIDE DEF loaded
<1>4. FileInv'
  BY <1>0, <1>1, <1>3 DEF FileInv, Stage
<1>5. CfgInv'
  BY <1>0, <1>1, <1>3 DEF CfgInv, Current
<1>6. Durable'
  <2>1. RamKept'
    BY <1>0 DEF RamKept, Prepared
  <2> QED BY <1>0, <1>1, <1>3, <2>1 DEF Durable
<1>7. SvcInv' /\ JobInv'
  BY <1>0 DEF SvcIInv, CfgStep, SvcInv, JobInv
<1> QED BY <1>4, <1>5, <1>6, <1>7 DEF CfgPart

(* A file that is deleted is one of the faults.                             *)
LEMMA DelFileCfg == SvcIInv /\ DelFile => CfgPart'
<1> SUFFICES ASSUME SvcIInv, DelFile PROVE CfgPart'
  OBVIOUS
<1>0. /\ Ready /\ job = NoJob /\ ram' = NoTrace(ram) /\ file' = NoFile
      /\ faults' = faults \cup {"deleted"}
      /\ UNCHANGED <<flash, power, fs, svc, conn, job, acked>>
  BY DEF DelFile, Request, Idle
<1>1. /\ power = "on" /\ Current(ram) /\ ram \in Config
  BY <1>0, ReadyFacts
<1>2. Current(ram') /\ ram' \in Config
  BY <1>0, <1>1, NoTraceType DEF Current
<1>3. FileInv'
  BY <1>0, ZeroType DEF SvcIInv, CfgStep, FileInv
<1>4. CfgInv'
  BY <1>0, <1>1, <1>2 DEF SvcIInv, CfgStep, CfgInv
<1>5. Durable'
  <2>1. faults' # {}
    BY <1>0
  <2> QED BY <2>1 DEF Durable
<1>6. SvcInv' /\ JobInv'
  BY <1>0 DEF SvcIInv, CfgStep, SvcInv, JobInv
<1> QED BY <1>3, <1>4, <1>5, <1>6 DEF CfgPart

(* The window that is written *)
LEMMA WindowIs ==
    ASSUME JobInv, job # NoJob
    PROVE  LET n == Least(AttMax, Len(job.units) - job.win) IN
           /\ n \in Nat /\ n > 0 /\ job.win + n <= Len(job.units)
           /\ Window = SubSeq(job.units, job.win + 1, job.win + n)
           /\ Len(Window) = n /\ \A k \in 1 .. n : Window[k] = job.units[job.win + k]
           /\ job.sent <= n
<1> DEFINE e == job.units
           win == job.win
           n == Least(AttMax, Len(e) - win)
<1>1. e \in Edits /\ win \in Nat /\ win < Len(e) /\ job.sent <= n
  BY DEF JobInv
<1>2. e \in Seq(Nat \cup Entry) /\ Len(e) \in Nat
  BY <1>1, EditSeq
<1>3. AttMax \in Nat /\ AttMax > 0
  BY SvcAssumption
<1>4. /\ n \in Nat /\ n > 0 /\ win + n <= Len(e) /\ Least(win + AttMax, Len(e)) = win + n
  BY <1>1, <1>2, <1>3 DEF Least
<1>5. Window = SubSeq(e, win + 1, win + n)
  BY <1>4 DEF Window
<1> HIDE DEF n, e, win
<1>6. Len(Window) = n
  BY <1>1, <1>2, <1>4, <1>5
<1>7. \A k \in 1 .. n : Window[k] = e[win + 1 + k - 1]
  BY <1>1, <1>2, <1>4, <1>5
<1>8. \A k \in 1 .. n : win + 1 + k - 1 = win + k
  BY <1>1, <1>4
<1>9. \A k \in 1 .. n : Window[k] = e[win + k]
  BY <1>7, <1>8
<1> QED BY <1>1, <1>4, <1>5, <1>6, <1>9 DEF n, e, win

JobType == [id : Dev, units : Edits, win : Nat, sent : Nat, selected : BOOLEAN]

(* What JobInv says of a client that writes                                 *)
LEMMA JobFacts ==
    ASSUME JobInv, job # NoJob
    PROVE  /\ job \in JobType /\ job.id \in Dev /\ job.units \in Edits /\ job.win \in Nat
           /\ job.sent \in Nat /\ job.win < Len(job.units) /\ Len(job.units) \in Nat
           /\ job.sent > 0 => job.selected
           /\ job.selected => svc.id = job.id /\ svc.off = job.win /\ ram.bank # BankDbg
<1>1. job \in JobType /\ job.win < Len(job.units)
      /\ (job.sent > 0 => job.selected)
      /\ (job.selected => svc.id = job.id /\ svc.off = job.win /\ ram.bank # BankDbg)
  BY DEF JobInv, JobType
<1>2. job.id \in Dev /\ job.units \in Edits /\ job.win \in Nat /\ job.sent \in Nat
  BY <1>1 DEF JobType
<1>3. Len(job.units) \in Nat
  BY <1>2, EditSeq
<1> QED BY <1>1, <1>2, <1>3

(* On to the next window *)
LEMMA NextWindowStep ==
    ASSUME JobInv, job # NoJob, NextWindow
    PROVE  JobInv' /\ (job' = NoJob \/ job'.sent = 0)
<1>1. /\ job \in JobType /\ job.units \in Edits /\ job.win \in Nat
      /\ Len(job.units) \in Nat /\ AttMax \in Nat /\ AttMax > 0
  BY JobFacts, SvcAssumption
<1>2. CASE job.win + AttMax < Len(job.units)
  <2>1. job' = [job EXCEPT !.win = @ + AttMax, !.sent = 0, !.selected = FALSE]
    BY <1>2 DEF NextWindow
  <2> DEFINE w == job.win + AttMax
  <2>2. w \in Nat
    BY <1>1
  <2>3. job' = [job EXCEPT !.win = w, !.sent = 0, !.selected = FALSE]
    BY <2>1
  <2> HIDE DEF w
  <2>4. job' = [id |-> job.id, units |-> job.units, win |-> w, sent |-> 0, selected |-> FALSE]
    BY <1>1, <2>3 DEF JobType
  <2>5. /\ job' \in JobType /\ job'.units = job.units /\ job'.win = w
        /\ job'.sent = 0 /\ job'.selected = FALSE
    BY <1>1, <2>2, <2>4 DEF JobType
  <2>6. /\ job' \in JobType /\ job'.units = job.units /\ job'.win = job.win + AttMax
        /\ job'.sent = 0 /\ job'.selected = FALSE
    BY <2>5 DEF w
  <2>7. 0 <= Least(AttMax, Len(job.units) - (job.win + AttMax))
    BY <1>1, <1>2 DEF Least
  <2> QED BY <1>2, <2>6, <2>7 DEF JobInv, JobType
<1>3. CASE ~(job.win + AttMax < Len(job.units))
  BY <1>3 DEF NextWindow, JobInv
<1> QED BY <1>2, <1>3

(* The mapping of a device, from the first window on                        *)
LEMMA BeginCfg == \A id \in Dev, units \in Edits : SvcIInv /\ Begin(id, units) => CfgPart'
<1> SUFFICES ASSUME NEW id \in Dev, NEW units \in Edits, SvcIInv, Begin(id, units)
             PROVE  CfgPart'
  OBVIOUS
<1> USE DEF SvcIInv, CfgStep
<1>0. /\ Ready /\ job = NoJob
      /\ job' = [id |-> id, units |-> units, win |-> 0, sent |-> 0, selected |-> FALSE]
      /\ UNCHANGED <<file, flash, ram, power, fs, svc, conn, acked, faults>>
  BY DEF Begin, Request, Idle
<1>1. power = "on" /\ acked \in Config
  BY <1>0, ReadyFacts
<1>2. FileInv' /\ CfgInv' /\ SvcInv'
  BY <1>0, <1>1 DEF FileInv, CfgInv, SvcInv, Current
<1>3. Len(units) \in Nat /\ Len(units) > 0 /\ AttMax \in Nat
  BY EditSeq, SvcAssumption
<1>4. JobInv'
  <2>1. 0 < Len(units) /\ 0 <= Least(AttMax, Len(units) - 0)
    BY <1>3 DEF Least
  <2> QED BY <1>0, <2>1 DEF JobInv
<1>5. Prepared' = Prepared
  <2>1. acked' = acked /\ job'.sent = 0
    BY <1>0
  <2>2. Prepared' = acked'.maps
    BY <1>1, <1>4, <2>1, PreparedNonePrime
  <2> QED BY <1>0, <2>1, <2>2 DEF Prepared
<1>6. Durable'
  BY <1>0, <1>5 DEF Durable, RamKept
<1> QED BY <1>2, <1>4, <1>6 DEF CfgPart

LEMMA CancelInCfg == SvcIInv /\ CancelIn => CfgPart'
<1> SUFFICES ASSUME SvcIInv, CancelIn PROVE CfgPart'
  OBVIOUS
<1> USE DEF SvcIInv, CfgStep
<1>0. /\ Ready /\ job' = NoJob /\ faults' = faults \cup {"cancelled"}
      /\ UNCHANGED <<file, flash, ram, power, fs, svc, conn, acked>>
  BY DEF CancelIn, Continue
<1>1. power = "on"
  BY <1>0, ReadyFacts
<1>2. FileInv' /\ CfgInv' /\ SvcInv' /\ JobInv'
  BY <1>0, <1>1 DEF FileInv, CfgInv, SvcInv, Current, JobInv
<1>3. faults' # {}
  BY <1>0
<1>4. Durable'
  BY <1>3 DEF Durable
<1> QED BY <1>2, <1>4 DEF CfgPart

(* The address a client selects is the one of its window.                   *)
LEMMA SelectInCfg == SvcIInv /\ SelectIn => CfgPart'
<1> SUFFICES ASSUME SvcIInv, SelectIn PROVE CfgPart'
  OBVIOUS
<1> USE DEF SvcIInv, CfgStep
<1>0. /\ Ready /\ job # NoJob /\ ~job.selected
      /\ svc' = [svc EXCEPT !.id = job.id, !.off = job.win]
      /\ ram' = NoTrace(ram) /\ job' = [job EXCEPT !.selected = TRUE]
      /\ UNCHANGED <<file, flash, power, fs, conn, acked, faults>>
  BY DEF SelectIn, Continue
<1>1. power = "on" /\ ram \in Config /\ Current(ram) /\ acked \in Config
  BY <1>0, ReadyFacts
<1>2. /\ job \in JobType /\ job.id \in Dev /\ job.units \in Edits /\ job.win \in Nat
      /\ job.sent \in Nat /\ job.win < Len(job.units) /\ ~(job.sent > 0)
  BY <1>0, JobFacts
<1>3. /\ ram' \in Config /\ ram'.out = ram.out /\ ram'.maps = ram.maps
      /\ ram'.ver = ram.ver /\ ram'.layout = ram.layout
      /\ ram'.bank = (IF ram.bank = BankDbg THEN BankOff ELSE ram.bank)
      /\ ram'.bank # BankDbg
  BY <1>0, <1>1, NoTraceType
<1>4. /\ job' \in JobType /\ job'.id = job.id /\ job'.units = job.units /\ job'.win = job.win
      /\ job'.sent = job.sent
  BY <1>0, <1>2 DEF JobType
<1>5. FileInv' /\ CfgInv'
  BY <1>0, <1>1, <1>3 DEF FileInv, CfgInv, Current
<1>6. SvcInv' /\ svc'.id = job.id /\ svc'.off = job.win
  BY <1>0, <1>2 DEF SvcInv
<1>7. JobInv'
  <2>1. job.sent <= Least(AttMax, Len(job.units) - job.win)
    BY <1>0 DEF JobInv
  <2>2. ~(job'.sent > 0)
    BY <1>2, <1>4
  <2> QED BY <1>2, <1>3, <1>4, <1>6, <2>1, <2>2 DEF JobInv, JobType
<1>8. Prepared' = Prepared
  <2>1. job' # NoJob
    BY <1>2, <1>4, JobIs
  <2> QED BY <1>0, <1>4, <2>1 DEF Prepared
<1>9. RamKept => RamKept'
  BY <1>0, <1>3, <1>8 DEF RamKept
<1>10. Durable'
  BY <1>0, <1>9 DEF Durable
<1> QED BY <1>5, <1>6, <1>7, <1>10 DEF CfgPart

(* One unit of a mapping written in its place leaves a mapping.             *)
LEMMA PutUnitType ==
    ASSUME NEW map \in Map, NEW e \in Edits, NEW at \in Nat, at < Len(e)
    PROVE  PutMap(map, at, <<e[at + 1]>>) \in Map
<1>1. Len(e) \in Nat
  BY EditSeq
<1>2. 0 \in Nat /\ 1 \in Nat /\ at + 0 < Len(e) /\ at + 0 <= Len(e) /\ at + 1 <= Len(e)
      /\ at + 0 = at /\ 0 + 1 = 1
  BY <1>1
<1>3. Partly(map, e, at, 0) = map
  BY <1>2, PartlyType
<1>4. PutMap(Partly(map, e, at, 0), at + 0, <<e[at + 0 + 1]>>) = Partly(map, e, at, 0 + 1)
  BY <1>2, PartlyNext
<1>5. PutMap(map, at, <<e[at + 1]>>) = Partly(map, e, at, 1)
  BY <1>2, <1>3, <1>4
<1> QED BY <1>2, <1>5, PartlyType

(* The window put into the mapping of a configuration *)
LEMMA PutWindow ==
    ASSUME JobInv, job # NoJob, NEW cfg \in Config
    PROVE  LET r == Put(cfg, job.id, job.win, Window) IN
           /\ r \in Config /\ SameHead(r, cfg)
           /\ r.maps = [cfg.maps EXCEPT ![job.id] =
                          Partly(cfg.maps[job.id], job.units, job.win, Len(Window))]
<1> DEFINE n == Len(Window)
           map == cfg.maps[job.id]
<1>1. job.id \in Dev /\ job.units \in Edits /\ job.win \in Nat
  BY JobFacts
<1>2. n \in Nat /\ n > 0 /\ job.win + n <= Len(job.units)
      /\ Window = SubSeq(job.units, job.win + 1, job.win + n)
  BY WindowIs
<1>3. map \in Map
  BY <1>1, CfgFields
<1> HIDE DEF n, map
<1>4. PutMap(map, job.win, Window) = Partly(map, job.units, job.win, n)
  BY <1>1, <1>2, <1>3, PartlyWhole
<1>5. Partly(map, job.units, job.win, n) \in Map
  BY <1>1, <1>2, <1>3, PartlyType
<1>6. PutMap(cfg.maps[job.id], job.win, Window) \in Map
  BY <1>4, <1>5 DEF map
<1>7. LET r == Put(cfg, job.id, job.win, Window) IN
      /\ r \in Config /\ SameHead(r, cfg)
      /\ r.maps = [cfg.maps EXCEPT ![job.id] = PutMap(cfg.maps[job.id], job.win, Window)]
  BY <1>1, <1>6, PutType
<1> QED BY <1>4, <1>7 DEF map, n

(* A window in one request: it is where the client selected.                *)
LEMMA WriteInCfg == SvcIInv /\ WriteIn => CfgPart'
<1> SUFFICES ASSUME SvcIInv, WriteIn PROVE CfgPart'
  OBVIOUS
<1> DEFINE r == NoTrace(ram)
           a == NoTrace(acked)
<1>0. /\ Ready /\ job # NoJob /\ job.selected /\ job.sent = 0
      /\ ram' = Put(r, svc.id, svc.off, Window) /\ flash' = Store(fs, ram')
      /\ acked' = Put(a, job.id, job.win, Window) /\ NextWindow
      /\ UNCHANGED <<file, power, fs, svc, conn, faults>>
  BY DEF WriteIn, Continue, Update
<1>1. /\ power = "on" /\ Current(ram) /\ ram \in Config
      /\ acked \in Config /\ acked.ver = Latest
  BY <1>0, ReadyFacts
<1>2. /\ JobInv /\ CfgInv /\ SvcInv
  BY DEF SvcIInv, CfgStep
<1>3. /\ job.id \in Dev /\ svc.id = job.id /\ svc.off = job.win /\ ram.bank # BankDbg
  BY <1>0, <1>2, JobFacts
<1>4. /\ r \in Config /\ r.out = ram.out /\ r.maps = ram.maps /\ r.ver = ram.ver
      /\ r.layout = ram.layout /\ r.bank = ram.bank
  BY <1>1, <1>3, NoTraceType
<1>5. /\ a \in Config /\ a.out = acked.out /\ a.maps = acked.maps /\ a.ver = acked.ver
      /\ a.bank = IF acked.bank = BankDbg THEN BankOff ELSE acked.bank
  BY <1>1, NoTraceType
<1> HIDE DEF r, a
<1> DEFINE n == Len(Window)
           Expected(cfg) == [cfg.maps EXCEPT ![job.id] =
                              Partly(cfg.maps[job.id], job.units, job.win, n)]
<1>6. ram' = Put(r, job.id, job.win, Window)
  BY <1>0, <1>3
<1>7. ram' \in Config /\ SameHead(ram', r) /\ ram'.maps = Expected(r)
  BY <1>0, <1>2, <1>4, <1>6, PutWindow
<1>8. acked' \in Config /\ SameHead(acked', a) /\ acked'.maps = Expected(a)
  BY <1>0, <1>2, <1>5, PutWindow
<1>9. JobInv' /\ (job' = NoJob \/ job'.sent = 0)
  BY <1>0, <1>2, NextWindowStep
<1>10. Prepared' = acked'.maps
  BY <1>8, <1>9, PreparedNonePrime
<1>11. Current(ram') /\ acked'.ver = Latest
  BY <1>1, <1>4, <1>5, <1>7, <1>8 DEF Current, SameHead
<1>12. ASSUME faults = {} /\ fs PROVE RamKept' /\ Kept(ram', acked')
  <2>1. /\ ram.out = acked.out /\ ram.maps = Prepared
        /\ ram.bank = acked.bank \/ (acked.bank = BankDbg /\ ram.bank = BankOff)
    BY <1>1, <1>12 DEF SvcIInv, Durable, RamKept
  <2>2. r.maps = a.maps
    BY <1>0, <1>2, <1>4, <1>5, <2>1, PreparedNone
  <2>3. ram'.maps = acked'.maps
    BY <1>7, <1>8, <2>2
  <2>4. ram'.bank = acked'.bank
    BY <1>3, <1>4, <1>5, <1>7, <1>8, <2>1 DEF SameHead
  <2>5. ram'.out = acked'.out
    BY <1>4, <1>5, <1>7, <1>8, <2>1 DEF SameHead
  <2> QED BY <1>10, <2>3, <2>4, <2>5 DEF RamKept, Kept
<1>13. FileInv' /\ CfgInv' /\ Durable'
  BY <1>0, <1>1, <1>8, <1>11, <1>12, StoreStep
<1>14. SvcInv'
  BY <1>0, <1>2 DEF SvcInv
<1> QED BY <1>9, <1>13, <1>14 DEF CfgPart

(* A part that is prepared is in memory at once.                            *)
LEMMA PrepareInCfg == SvcIInv /\ PrepareIn => CfgPart'
<1> SUFFICES ASSUME SvcIInv, PrepareIn PROVE CfgPart'
  OBVIOUS
<1> DEFINE at == job.win + job.sent
           unit == <<job.units[at + 1]>>
<1>0. /\ Ready /\ job # NoJob /\ job.selected /\ job.sent < Len(Window)
      /\ ram' = Put(ram, svc.id, PrepareAt(job.sent), <<Window[job.sent + 1]>>)
      /\ job' = [job EXCEPT !.sent = @ + 1]
      /\ UNCHANGED <<file, flash, power, fs, svc, conn, acked, faults>>
  BY DEF PrepareIn, Continue
<1>1. /\ power = "on" /\ Current(ram) /\ ram \in Config
      /\ acked \in Config /\ acked.ver = Latest
  BY <1>0, ReadyFacts
<1>2. JobInv /\ CfgInv /\ SvcInv /\ FileInv /\ Durable
  BY DEF SvcIInv, CfgStep
<1>3. /\ job \in JobType /\ job.id \in Dev /\ job.units \in Edits /\ job.win \in Nat
      /\ job.sent \in Nat /\ svc.id = job.id /\ svc.off = job.win /\ ram.bank # BankDbg
      /\ job.win < Len(job.units) /\ Len(job.units) \in Nat
  BY <1>0, <1>2, JobFacts
<1>4. LET n == Least(AttMax, Len(job.units) - job.win) IN
      /\ n \in Nat /\ Len(Window) = n /\ job.win + n <= Len(job.units)
      /\ \A k \in 1 .. n : Window[k] = job.units[job.win + k]
  BY <1>0, <1>2, WindowIs
<1>5. /\ at \in Nat /\ at < Len(job.units) /\ Window[job.sent + 1] = job.units[at + 1]
      /\ job.sent + 1 <= Least(AttMax, Len(job.units) - job.win)
  <2> DEFINE n == Least(AttMax, Len(job.units) - job.win)
  <2>1. n \in Nat /\ job.sent < n /\ job.win + n <= Len(job.units)
        /\ \A k \in 1 .. n : Window[k] = job.units[job.win + k]
    BY <1>0, <1>4
  <2> HIDE DEF n
  <2>2. job.sent + 1 \in 1 .. n /\ job.win + (job.sent + 1) = at + 1 /\ job.sent + 1 <= n
    BY <1>3, <2>1
  <2>3. at \in Nat /\ at < Len(job.units)
    BY <1>3, <2>1
  <2> QED BY <2>1, <2>2, <2>3 DEF n
<1>6. ram' = Put(ram, job.id, at, unit)
  BY <1>0, <1>3, <1>5 DEF PrepareAt
<1>7. ram.maps \in [Dev -> Map] /\ acked.maps \in [Dev -> Map]
  BY <1>1, CfgFields
<1>8. PutMap(ram.maps[job.id], at, unit) \in Map
  BY <1>3, <1>5, <1>7, PutUnitType
<1> HIDE DEF at, unit
<1>9. /\ ram' \in Config /\ SameHead(ram', ram)
      /\ ram'.maps = [ram.maps EXCEPT ![job.id] = PutMap(ram.maps[job.id], at, unit)]
  BY <1>1, <1>3, <1>6, <1>8, PutType
<1>10. /\ job' \in JobType /\ job'.id = job.id /\ job'.units = job.units /\ job'.win = job.win
       /\ job'.sent = job.sent + 1 /\ job'.selected = job.selected
  <2> DEFINE more == job.sent + 1
  <2>1. more \in Nat /\ job' = [job EXCEPT !.sent = more]
    BY <1>0, <1>3
  <2> HIDE DEF more
  <2>2. /\ job' \in JobType /\ job'.id = job.id /\ job'.units = job.units /\ job'.win = job.win
        /\ job'.sent = more /\ job'.selected = job.selected
    BY <1>3, <2>1 DEF JobType
  <2> QED BY <2>2 DEF more
<1>11. FileInv' /\ CfgInv' /\ SvcInv'
  BY <1>0, <1>1, <1>2, <1>9 DEF FileInv, CfgInv, SvcInv, Current, SameHead
<1>12. JobInv'
  BY <1>0, <1>3, <1>5, <1>9, <1>10 DEF JobInv, JobType, SameHead
<1>13. ASSUME RamKept PROVE RamKept'
  <2> DEFINE map == acked.maps[job.id]
             half == Partly(map, job.units, job.win, job.sent)
             more == Partly(map, job.units, job.win, job.sent + 1)
  <2>1. map \in Map
    BY <1>3, <1>7
  <2>2. PutMap(half, at, unit) = more
    BY <1>3, <1>5, <2>1, PartlyNext DEF at, unit
  <2>3. ram.maps = [acked.maps EXCEPT ![job.id] = half]
    BY <1>0, <1>13 DEF RamKept, Prepared
  <2>4. job' # NoJob
    BY <1>3, <1>10, JobIs
  <2>5. Prepared' = [acked.maps EXCEPT ![job.id] = more]
    BY <1>0, <1>10, <2>4 DEF Prepared
  <2> HIDE DEF map, half, more
  <2>6. ram'.maps = [acked.maps EXCEPT ![job.id] = more]
    BY <1>3, <1>7, <1>9, <2>2, <2>3
  <2> QED BY <1>0, <1>9, <1>13, <2>5, <2>6 DEF RamKept, SameHead
<1>14. Durable'
  BY <1>0, <1>2, <1>13 DEF Durable
<1> QED BY <1>11, <1>12, <1>14 DEF CfgPart

(* What is executed is all of the window, stored unless an update of the    *)
(* firmware is on.                                                          *)
LEMMA ExecInCfg == SvcIInv /\ ExecIn => CfgPart'
<1> SUFFICES ASSUME SvcIInv, ExecIn PROVE CfgPart'
  OBVIOUS
<1> DEFINE a == NoTrace(acked)
<1>0. /\ Ready /\ job # NoJob /\ job.sent > 0 /\ job.sent = Len(Window)
      /\ flash' = (IF ~svc.ota THEN Store(fs, ram) ELSE flash)
      /\ acked' = Put(a, job.id, job.win, Window)
      /\ faults' = (IF svc.ota THEN faults \cup {"ota"} ELSE faults)
      /\ NextWindow
      /\ UNCHANGED <<file, ram, power, fs, svc, conn>>
  BY DEF ExecIn, Continue, ExecStores
<1>1. /\ power = "on" /\ Current(ram) /\ ram \in Config
      /\ acked \in Config /\ acked.ver = Latest
  BY <1>0, ReadyFacts
<1>2. JobInv /\ CfgInv /\ SvcInv /\ FileInv /\ Durable
  BY DEF SvcIInv, CfgStep
<1>3. job.id \in Dev /\ ram.bank # BankDbg
  BY <1>0, <1>2, JobFacts
<1>4. /\ a \in Config /\ a.out = acked.out /\ a.maps = acked.maps /\ a.ver = acked.ver
      /\ a.bank = IF acked.bank = BankDbg THEN BankOff ELSE acked.bank
  BY <1>1, NoTraceType
<1> HIDE DEF a
<1>5. /\ acked' \in Config /\ SameHead(acked', a)
      /\ acked'.maps = [a.maps EXCEPT ![job.id] =
                          Partly(a.maps[job.id], job.units, job.win, Len(Window))]
  BY <1>0, <1>2, <1>4, PutWindow
<1>6. acked'.maps = Prepared
  <2> DEFINE n == Len(Window)
  <2>1. n = job.sent
    BY <1>0
  <2> HIDE DEF n
  <2>2. acked'.maps = [acked.maps EXCEPT ![job.id] =
                         Partly(acked.maps[job.id], job.units, job.win, n)]
    BY <1>4, <1>5 DEF n
  <2>3. Prepared = [acked.maps EXCEPT ![job.id] =
                      Partly(acked.maps[job.id], job.units, job.win, job.sent)]
    BY <1>0 DEF Prepared
  <2> QED BY <2>1, <2>2, <2>3
<1>7. JobInv' /\ (job' = NoJob \/ job'.sent = 0)
  BY <1>0, <1>2, NextWindowStep
<1>8. Prepared' = acked'.maps
  BY <1>5, <1>7, PreparedNonePrime
<1>9. acked'.ver = Latest
  BY <1>1, <1>4, <1>5 DEF SameHead
<1>10. ASSUME faults = {} /\ fs PROVE RamKept' /\ Kept(ram', acked')
  <2>1. /\ ram.out = acked.out /\ ram.maps = Prepared
        /\ ram.bank = acked.bank \/ (acked.bank = BankDbg /\ ram.bank = BankOff)
    BY <1>1, <1>2, <1>10 DEF Durable, RamKept
  <2>2. ram.bank = acked'.bank
    BY <1>3, <1>4, <1>5, <2>1 DEF SameHead
  <2>3. ram.out = acked'.out
    BY <1>4, <1>5, <2>1 DEF SameHead
  <2> QED BY <1>0, <1>6, <1>8, <2>1, <2>2, <2>3 DEF RamKept, Kept
<1>11. SvcInv'
  BY <1>0, <1>2 DEF SvcInv
<1>12. CASE ~svc.ota
  <2>1. FileInv' /\ CfgInv' /\ Durable'
    BY <1>0, <1>1, <1>5, <1>9, <1>10, <1>12, StoreStep
  <2> QED BY <1>7, <1>11, <2>1 DEF CfgPart
<1>13. CASE svc.ota
  <2>1. flash' = flash /\ faults' # {}
    BY <1>0, <1>13
  <2>2. FileInv' /\ CfgInv' /\ Durable'
    BY <1>0, <1>1, <1>2, <1>5, <1>9, <2>1 DEF FileInv, CfgInv, Durable, Current
  <2> QED BY <1>7, <1>11, <2>2 DEF CfgPart
<1> QED BY <1>12, <1>13

(* What a client executes after writing the card stores the settings again. *)
LEMMA ExecCardCfg == SvcIInv /\ ExecCard => CfgPart'
<1> SUFFICES ASSUME SvcIInv, ExecCard PROVE CfgPart'
  OBVIOUS
<1>0. /\ Ready /\ reading.prep /\ flash' = (IF ~svc.ota THEN Store(fs, ram) ELSE flash)
      /\ UNCHANGED <<file, ram, power, fs, svc, conn, job, acked, faults>>
  BY DEF ExecCard, ExecStores
<1>1. /\ power = "on" /\ Current(ram) /\ acked \in Config /\ acked.ver = Latest
  BY <1>0, ReadyFacts
<1>2. job = NoJob
  BY <1>0 DEF SvcIInv, CardInv
<1>3. SvcInv' /\ JobInv'
  BY <1>0 DEF SvcIInv, CfgStep, SvcInv, JobInv
<1>4. CASE ~svc.ota
  <2>1. ASSUME faults = {} /\ fs PROVE RamKept' /\ Kept(ram', acked')
    <3>1. RamKept
      BY <1>1, <2>1 DEF SvcIInv, Durable
    <3>2. Kept(ram, acked)
      BY <1>2, <3>1 DEF RamKept, Prepared, Kept
    <3> QED BY <1>0, <3>1, <3>2 DEF RamKept, Prepared, Kept
  <2>2. FileInv' /\ CfgInv' /\ Durable'
    BY <1>0, <1>1, <1>4, <2>1, StoreStep
  <2> QED BY <1>3, <2>2 DEF CfgPart
<1>5. CASE svc.ota
  <2>1. FileInv' /\ CfgInv' /\ Durable'
    BY <1>0, <1>5, QuietStep
  <2> QED BY <1>3, <2>1 DEF CfgPart
<1> QED BY <1>4, <1>5

-----------------------------------------------------------------------------
(* The card. *)

(* The reading has ended. *)
LEMMA NotReading ==
    ASSUME reading' = NoReading, CardShape(card)' 
    PROVE  CardInv'
BY DEF CardInv, NoReading

(* Nothing is read or written, so nothing is disturbed. *)
LEMMA NoCard ==
    ASSUME CardInv, reading' = reading, ~(reading.on \/ reading.prep), CardShape(card)'
    PROVE  CardInv'
BY DEF CardInv

(* Steps apart from the reading *)
LEMMA CardQuiet ==
    ASSUME CardInv, UNCHANGED <<ram, power, job, reading>>, svc'.mc = svc.mc,
           CardShape(card)', card'.buf = card.buf \/ ram.bank = BankDbg
    PROVE  CardInv'
BY DEF CardInv

(* The steps on the card: a client selects an address, and the trace ends.  *)
LEMMA SelectCardCard == \A at \in Nat : SvcIInv /\ SelectCard(at) => CardInv'
<1> SUFFICES ASSUME NEW at \in Nat, SvcIInv, SelectCard(at) PROVE CardInv'
  OBVIOUS
<1>1. /\ power = "on" /\ job = NoJob /\ ram' = NoTrace(ram) /\ svc' = [svc EXCEPT !.mc = at]
      /\ reading' = [on |-> TRUE, prep |-> FALSE, from |-> at, was |-> card.buf, got |-> <<>>]
      /\ UNCHANGED <<card, power, job>>
  BY DEF SelectCard, Idle, Ready, mcVars
<1>2. ram \in Config /\ CardShape(card) /\ SvcInv
  BY DEF SvcIInv, CfgStep, CfgInv, CardInv
<1>3. ram'.bank # BankDbg
  BY <1>1, <1>2, NoTraceType
<1>4. svc'.mc = at
  BY <1>1, <1>2 DEF SvcInv
<1>5. Len(<<>>) = 0 /\ <<>> = [k \in 1 .. 0 |-> card.buf[at + k - 1]]
  OBVIOUS
<1>6. CardShape(card)'
  BY <1>1, <1>2 DEF CardShape
<1>7. svc'.mc = at + Len(<<>>)
  BY <1>4, <1>5
<1> QED BY <1>1, <1>3, <1>5, <1>6, <1>7 DEF CardInv

(* An answer goes on where the last one ended.                              *)
LEMMA ReadCardCard == SvcIInv /\ ReadCard => CardInv'
<1> SUFFICES ASSUME SvcIInv, ReadCard PROVE CardInv'
  OBVIOUS
<1> DEFINE at == svc.mc
           n == CardRdLen(at, svc.mtu)
           words == McRead(card, at, n)
           from == reading.from
           got == reading.got
           was == reading.was
<1>1. /\ reading.on /\ reading' = [reading EXCEPT !.got = @ \o words]
      /\ svc' = [svc EXCEPT !.mc = at + n]
      /\ UNCHANGED <<card, ram, power, job>>
  BY DEF ReadCard, mcVars
<1>2. /\ CardShape(card) /\ reading.prep \in BOOLEAN /\ power = "on" /\ job = NoJob
      /\ ram.bank # BankDbg /\ was = card.buf /\ from \in Nat /\ Len(got) \in Nat
      /\ got = [k \in 1 .. Len(got) |-> was[from + k - 1]]
      /\ at = from + Len(got)
      /\ reading = [on |-> reading.on, prep |-> reading.prep, from |-> from, was |-> was, got |-> got]
  BY <1>1 DEF SvcIInv, CardInv
<1>3. at \in Nat /\ svc.mtu \in Nat /\ svc.mtu >= MinMtu
  BY DEF SvcIInv, CfgStep, SvcInv
<1>4. n \in Nat /\ \A k \in 1 .. n : BlockOf(at + k - 1) = BlockOf(at)
  BY <1>3, CardRdLenType
<1> HIDE DEF n
<1>5. words = [k \in 1 .. n |-> was[at + k - 1]]
  BY <1>2, <1>4 DEF McRead
<1> DEFINE Word == {was[a] : a \in Nat}
           len == Len(got)
           all == [k \in 1 .. len + n |-> was[from + k - 1]]
<1> HIDE DEF words, at, from, got, was
<1>6. got \o words = all
  <2>0. len \in Nat /\ at = from + len /\ from \in Nat
    BY <1>2
  <2>1. got = [k \in 1 .. len |-> was[from + k - 1]] /\ Len(got) = len
    BY <1>2
  <2> HIDE DEF len
  <2>2. \A k \in 1 .. len : from + k - 1 \in Nat
    BY <2>0
  <2>3. \A k \in 1 .. n : at + k - 1 \in Nat /\ at + k - 1 = from + (len + k) - 1
    BY <1>4, <2>0
  <2>4. got \in Seq(Word)
    BY <2>0, <2>1, <2>2
  <2>5. words \in Seq(Word) /\ Len(words) = n
    <3>1. \A k \in 1 .. n : was[at + k - 1] \in Word
      BY <2>3
    <3> HIDE DEF Word
    <3> QED BY <1>4, <1>5, <3>1
  <2>6. /\ Len(got \o words) = len + n /\ got \o words \in Seq(Word)
        /\ \A k \in 1 .. len + n :
              (got \o words)[k] = IF k <= len THEN got[k] ELSE words[k - len]
    <3>1. Len(got) = len
      BY <2>1
    <3> HIDE DEF Word
    <3> QED BY <1>4, <2>0, <2>4, <2>5, <3>1
  <2>7. ASSUME NEW k \in 1 .. len + n PROVE (got \o words)[k] = was[from + k - 1]
    <3>1. CASE k <= len
      <4>1. k \in 1 .. len
        BY <1>4, <2>0, <3>1
      <4> QED BY <2>1, <2>6, <3>1, <4>1
    <3>2. CASE ~(k <= len)
      <4>1. k - len \in 1 .. n /\ at + (k - len) - 1 = from + k - 1
        BY <1>4, <2>0, <3>2
      <4>2. words[k - len] = was[at + (k - len) - 1]
        BY <1>5, <4>1
      <4> QED BY <2>6, <3>2, <4>1, <4>2
    <3> QED BY <3>1, <3>2
  <2>8. got \o words = [k \in 1 .. len + n |-> (got \o words)[k]]
    <3> DEFINE both == got \o words
    <3>1. both \in Seq(Word) /\ Len(both) = len + n
      BY <2>6
    <3> HIDE DEF both, Word
    <3>2. both = [k \in 1 .. Len(both) |-> both[k]]
      BY <3>1
    <3>3. both = [k \in 1 .. len + n |-> both[k]]
      BY <3>1, <3>2
    <3> QED BY <3>3 DEF both
  <2> QED BY <2>7, <2>8
<1>7. len + n \in Nat /\ Len(all) = len + n /\ at + n = from + (len + n)
  <2>1. len + n \in Nat /\ at + n = from + (len + n)
    BY <1>2, <1>4
  <2> DEFINE m == len + n
  <2> HIDE DEF m
  <2>2. Len([k \in 1 .. m |-> was[from + k - 1]]) = m
    BY <2>1 DEF m
  <2> QED BY <2>1, <2>2 DEF m
<1>8. reading' = [on |-> reading.on, prep |-> reading.prep, from |-> from, was |-> was, got |-> all]
  <2>1. reading' = [reading EXCEPT !.got = all]
    BY <1>1, <1>6 DEF got
  <2> HIDE DEF all
  <2> QED BY <1>2, <2>1
<1>9. svc'.mc = at + n
  BY <1>1 DEF SvcIInv, CfgStep, SvcInv
<1>10. CardShape(card)'
  BY <1>1, <1>2 DEF CardShape
<1> DEFINE m == len + n
<1>11. m \in Nat /\ Len(all) = m /\ svc'.mc = from + m /\ all = [k \in 1 .. m |-> was[from + k - 1]]
  BY <1>7, <1>9
<1> HIDE DEF all, m
<1>12. /\ reading'.on = reading.on /\ reading'.prep = reading.prep /\ reading'.from = from
       /\ reading'.was = was /\ reading'.got = all
  BY <1>8
<1>13. reading'.got = [k \in 1 .. Len(reading'.got) |-> reading'.was[reading'.from + k - 1]]
  BY <1>11, <1>12
<1> QED BY <1>1, <1>2, <1>8, <1>10, <1>11, <1>12, <1>13 DEF CardInv

(* A write ends the reading.                                                *)
LEMMA WriteCardCard == \A n \in Nat, b \in BOOLEAN : SvcIInv /\ WriteCard(n, b) => CardInv'
<1> SUFFICES ASSUME NEW n \in Nat, NEW b \in BOOLEAN, SvcIInv, WriteCard(n, b) PROVE CardInv'
  OBVIOUS
<1>1. /\ power = "on" /\ job = NoJob /\ UNCHANGED <<power, job>>
      /\ card' = McWrite(ram'.bank, card, svc.mc, n, "client")
      /\ reading' = [on |-> FALSE, prep |-> b]
  BY DEF WriteCard, Idle, Ready
<1>2. CardShape(card)'
  <2>1. CardShape(card)
    BY DEF SvcIInv, CardInv
  <2>2. CardShape(McWrite(ram'.bank, card, svc.mc, n, "client"))
    BY <2>1, CardShapes
  <2> QED BY <1>1, <2>2 DEF CardShape
<1>3. reading'.on = FALSE /\ reading'.prep = b
  BY <1>1
<1> QED BY <1>1, <1>2, <1>3 DEF CardInv

(* Requests end the reading, but for those of the card. *)
LEMMA RequestCard ==
    ASSUME SvcIInv, NEW bank, NEW i, NEW mode, NEW id, NEW units, NEW b,
           \/ WriteGlobal(bank) \/ SelectOut(i) \/ WriteOut(mode) \/ Begin(id, units)
           \/ SetDefault \/ SetGameid \/ Ota(b) \/ DelFile \/ Disconnect \/ ExecCard
    PROVE  CardInv'
<1>1. reading' = NoReading /\ card' = card
  BY DEF WriteGlobal, SelectOut, WriteOut, Begin, SetDefault, SetGameid, Ota, DelFile,
         Disconnect, ExecCard, Request, mcVars
<1>2. CardShape(card)'
  BY <1>1 DEF SvcIInv, CardInv, CardShape
<1> QED BY <1>1, <1>2, NotReading

(* A client that writes a mapping reads no card, and neither does one before *)
(* the start.                                                               *)
LEMMA OtherCard ==
    ASSUME SvcIInv, NEW mount,
           \/ SelectIn \/ WriteIn \/ PrepareIn \/ ExecIn \/ CancelIn
           \/ Boot(mount) \/ Started
    PROVE  CardInv'
<1>0. CardInv /\ CardShape(card)
  BY DEF SvcIInv, CardInv
<1>1. reading' = reading
  BY DEF SelectIn, WriteIn, PrepareIn, ExecIn, CancelIn, Boot, Started, Continue
<1>2. job # NoJob \/ power # "on"
  BY DEF SelectIn, WriteIn, PrepareIn, ExecIn, CancelIn, Boot, Started, Continue
<1>3. ~(reading.on \/ reading.prep)
  BY <1>0, <1>2 DEF CardInv
<1>4. CardShape(card)'
  <2>1. CASE Started
    <3>1. card' = McInit(ram.bank, fs, NewCard, cardFile).card
      BY <2>1 DEF Started
    <3>2. CardShape(McInit(ram.bank, fs, NewCard, cardFile).card)
      BY CardShapes
    <3> QED BY <3>1, <3>2 DEF CardShape
  <2>2. CASE ~Started
    <3>1. card' = card
      BY <2>2 DEF SelectIn, WriteIn, PrepareIn, ExecIn, CancelIn, Boot, mcVars
    <3> QED BY <1>0, <3>1 DEF CardShape
  <2> QED BY <2>1, <2>2
<1> QED BY <1>0, <1>1, <1>3, <1>4, NoCard

(* The steps that leave settings and card to the reading client             *)
LEMMA QuietCard ==
    ASSUME SvcIInv, NEW m, NEW n, Flash \/ Connect \/ MtuReq(m) \/ CardStore \/ Trace(n)
    PROVE  CardInv'
<1>0. CardInv /\ CardShape(card) /\ SvcInv
  BY DEF SvcIInv, CfgStep, CardInv
<1>1. UNCHANGED <<ram, power, job, reading>>
  BY DEF Flash, Connect, MtuReq, CardStore, Trace, mcVars
<1>2. svc'.mc = svc.mc
  <2>1. CASE MtuReq(m)
    BY <1>0, <2>1 DEF MtuReq, SvcInv
  <2>2. CASE ~MtuReq(m)
    BY <2>2 DEF Flash, Connect, CardStore, Trace
  <2> QED BY <2>1, <2>2
<1>3. CardShape(card)' /\ (card'.buf = card.buf \/ ram.bank = BankDbg)
  <2>1. CASE CardStore
    <3>1. card' = StoreNext(card, cardFile).card
      BY <2>1 DEF CardStore
    <3>2. /\ CardShape(StoreNext(card, cardFile).card)
          /\ StoreNext(card, cardFile).card.buf = card.buf
      BY <1>0, CardShapes
    <3> QED BY <3>1, <3>2 DEF CardShape
  <2>2. CASE Trace(n)
    <3>1. card' = MonTx(ram.bank, card, n) /\ ram.bank = BankDbg
      BY <2>2 DEF Trace
    <3>2. CardShape(MonTx(ram.bank, card, n))
      BY <1>0, CardShapes
    <3> QED BY <3>1, <3>2 DEF CardShape
  <2>3. CASE ~CardStore /\ ~Trace(n)
    <3>1. card' = card
      BY <2>3 DEF Flash, Connect, MtuReq, mcVars
    <3> QED BY <1>0, <3>1 DEF CardShape
  <2> QED BY <2>1, <2>2, <2>3
<1> QED BY <1>0, <1>1, <1>2, <1>3, CardQuiet

(* A power cut ends the reading.                                            *)
LEMMA PowerCutCard == SvcIInv /\ PowerCut => CardInv'
<1> SUFFICES ASSUME SvcIInv, PowerCut PROVE CardInv'
  OBVIOUS
<1>1. reading' = NoReading /\ card' = NewCard
  BY DEF PowerCut
<1>2. CardShape(card)'
  BY <1>1, CardShapes DEF CardShape
<1> QED BY <1>1, <1>2, NotReading

(* A stuttering step                                                        *)
LEMMA StutterInv == SvcIInv /\ UNCHANGED vars => SvcIInv'
BY DEF vars, SvcIInv, CfgStep, FileInv, CfgInv, SvcInv, JobInv, Durable, RamKept, Prepared,
       CardInv, CardShape, Current

(* Every step preserves the invariant.                                      *)
LEMMA NextInv == SvcIInv /\ [Next]_vars => SvcIInv'
<1> SUFFICES ASSUME SvcIInv, [Next]_vars PROVE SvcIInv'
  OBVIOUS
<1>0. ASSUME CfgPart', CardInv' PROVE SvcIInv'
  BY <1>0 DEF CfgPart, SvcIInv, CfgStep
<1>1. ASSUME NEW mount \in {"mounted", "formatted", "failed"}, Boot(mount) PROVE SvcIInv'
  BY <1>0, <1>1, BootCfg, OtherCard
<1>2. CASE Started
  BY <1>0, <1>2, StartedCfg, OtherCard
<1>3. CASE Flash
  BY <1>0, <1>3, FlashCfg, QuietCard
<1>4. CASE PowerCut
  BY <1>0, <1>4, PowerCutCfg, PowerCutCard
<1>5. CASE Connect
  BY <1>0, <1>5, ConnectCfg, QuietCard
<1>6. CASE Disconnect
  BY <1>0, <1>6, DisconnectCfg, RequestCard
<1>7. ASSUME NEW m \in Mtus, MtuReq(m) PROVE SvcIInv'
  BY <1>0, <1>7, MtuReqCfg, QuietCard
<1>8. ASSUME NEW bank \in {0, BankDbg}, WriteGlobal(bank) PROVE SvcIInv'
  <2>1. bank \in 0 .. 255
    BY DEF BankDbg
  <2> QED BY <1>0, <1>8, <2>1, WriteGlobalCfg, RequestCard
<1>9. ASSUME NEW i \in Dev, SelectOut(i) PROVE SvcIInv'
  BY <1>0, <1>9, SelectOutCfg, RequestCard
<1>10. CASE WriteOut("mouse")
  BY <1>0, <1>10, WriteOutCfg, RequestCard
<1>11. ASSUME NEW id \in Dev, NEW units \in Edits, Begin(id, units) PROVE SvcIInv'
  BY <1>0, <1>11, BeginCfg, RequestCard
<1>12. CASE SelectIn
  BY <1>0, <1>12, SelectInCfg, OtherCard
<1>13. CASE WriteIn
  BY <1>0, <1>13, WriteInCfg, OtherCard
<1>14. CASE PrepareIn
  BY <1>0, <1>14, PrepareInCfg, OtherCard
<1>15. CASE ExecIn
  BY <1>0, <1>15, ExecInCfg, OtherCard
<1>16. CASE CancelIn
  BY <1>0, <1>16, CancelInCfg, OtherCard
<1>17. CASE SetDefault
  BY <1>0, <1>17, SetDefaultCfg, RequestCard
<1>18. CASE SetGameid
  BY <1>0, <1>18, SetGameidCfg, RequestCard
<1>19. ASSUME NEW started \in BOOLEAN, Ota(started) PROVE SvcIInv'
  BY <1>0, <1>19, OtaCfg, RequestCard
<1>20. CASE DelFile
  BY <1>0, <1>20, DelFileCfg, RequestCard
<1>21. CASE CardStore
  BY <1>0, <1>21, CardStoreCfg, QuietCard
<1>22. ASSUME NEW n \in 1 .. 2, Trace(n) PROVE SvcIInv'
  BY <1>0, <1>22, TraceCfg, QuietCard
<1>23. CASE SelectCard(1)
  BY <1>0, <1>23, SelectCardCfg, SelectCardCard
<1>24. CASE ReadCard
  BY <1>0, <1>24, ReadCardCfg, ReadCardCard
<1>25. ASSUME NEW prepared \in BOOLEAN, WriteCard(2, prepared) PROVE SvcIInv'
  BY <1>0, <1>25, WriteCardCfg, WriteCardCard
<1>26. CASE ExecCard
  BY <1>0, <1>26, ExecCardCfg, RequestCard
<1>27. CASE UNCHANGED vars
  BY <1>27, StutterInv
<1> QED BY <1>1, <1>2, <1>3, <1>4, <1>5, <1>6, <1>7, <1>8, <1>9, <1>10, <1>11, <1>12, <1>13,
           <1>14, <1>15, <1>16, <1>17, <1>18, <1>19, <1>20, <1>21, <1>22, <1>23, <1>24,
           <1>25, <1>26, <1>27 DEF Next

(* The inductive invariant holds of every reachable state: the file is one a *)
(* firmware wrote, memory is of the latest version, the address the service *)
(* writes to is the one its client selected, and without faults the file    *)
(* ends as what clients were told.                                          *)
THEOREM Invariance == Spec => []SvcIInv
BY InitInv, NextInv, PTL DEF Spec

-----------------------------------------------------------------------------
(* Reading the card: what a client got since it selected an address are the *)
(* words from there on, as they were then.                                  *)
THEOREM CardRead == Spec => []CardReads
<1>1. SvcIInv => CardReads
  <2> SUFFICES ASSUME SvcIInv, reading.on, NEW k \in DOMAIN reading.got
               PROVE  reading.got[k] = reading.was[reading.from + k - 1]
    BY DEF CardReads
  <2>1. reading.got = [n \in 1 .. Len(reading.got) |-> reading.was[reading.from + n - 1]]
    BY DEF SvcIInv, CardInv
  <2> QED BY <2>1
<1> QED BY <1>1, Invariance, PTL

(* A start with a file system loads the file. *)
LEMMA BootLoads ==
    ASSUME Boot("mounted")
    PROVE  power = "off" /\ ram' = Loaded(file)
<1> DEFINE q == Load(TRUE, file, Zero)
<1>1. power = "off" /\ ram' = q.cfg
  BY DEF Boot
<1> QED BY <1>1 DEF Loaded

(* What a client was told is kept is there after the next start             *)
(* (config_store_on_file, config_load_from_file).                           *)
THEOREM SettingsSurvive == Spec => Survives
<1>1. SvcIInv /\ Boot("mounted") /\ acked # Zero /\ faults = {} => Kept(ram', acked)
  <2> SUFFICES ASSUME SvcIInv, Boot("mounted"), acked # Zero, faults = {}
               PROVE  Kept(ram', acked)
    OBVIOUS
  <2>1. power = "off" /\ ram' = Loaded(file)
    BY BootLoads
  <2>2. Kept(Loaded(file), acked)
    BY <2>1 DEF SvcIInv, Durable
  <2> QED BY <2>1, <2>2
<1> QED BY <1>1, Invariance, PTL DEF Survives

(* What fread leaves of the mapping in which a file ends                     *)
LEMMA CutMap ==
    ASSUME NEW has \in Place, NEW i \in Dev, has.part = 1 + i, NEW new \in Map
    PROVE  Beginning(ReadMap(has, 1 + i, new, Zero.maps[i]), new)
<1> DEFINE r == ReadMap(has, 1 + i, new, Zero.maps[i])
           u == has.units
<1>0. /\ u \in Nat /\ MappingMax \in Nat /\ Index = 0 .. MappingMax - 1
      /\ \A unit : In(has, 1 + i, unit) <=> unit < u
      /\ \A unit : Begun(has, 1 + i, unit) <=> has.torn /\ unit = u
  BY Sizes DEF Place, In, Begun, Dev, Index
<1>1. /\ 0 \in Dev /\ Zero.maps[i] = Zero.maps[0] /\ Zero.maps[i].size = 0
      /\ \A j \in Index : Zero.maps[i].ents[j] = "none"
      /\ Zero.maps[i] = [size |-> 0, ents |-> [j \in Index |-> "none"]]
  BY Sizes DEF Zero, Dev
<1> HIDE DEF u
<1>2. CASE u = 0
  <2>1. \A j \in Index : ~In(has, 1 + i, 1 + j) /\ ~Begun(has, 1 + i, 1 + j)
    BY <1>0, <1>2
  <2>2. ~In(has, 1 + i, 0)
    BY <1>0, <1>2
  <2>3. r = [size |-> Zero.maps[i].size, ents |-> [j \in Index |-> Zero.maps[i].ents[j]]]
    BY <2>1, <2>2 DEF ReadMap
  <2>4. [j \in Index |-> Zero.maps[i].ents[j]] = [j \in Index |-> "none"]
    BY <1>1
  <2>5. r = Zero.maps[0]
    BY <1>1, <2>3, <2>4
  <2> QED BY <2>5 DEF Beginning
<1>3. CASE u # 0
  <2> DEFINE n == IF u - 1 <= MappingMax THEN u - 1 ELSE MappingMax
  <2> DEFINE Where(j) == /\ j < n => 1 + j < u
                         /\ j = n => ~(1 + j < u)
                         /\ j > n => ~(1 + j < u) /\ 1 + j # u
  <2>1. n \in 0 .. MappingMax /\ \A j \in Index : Where(j)
    <3>0. u \in Nat /\ u > 0 /\ \A j \in Index : j \in Int /\ 0 <= j /\ j < MappingMax
      BY <1>0, <1>3
    <3>1. CASE u - 1 <= MappingMax
      <4>1. n = u - 1
        BY <3>1
      <4> HIDE DEF n
      <4>2. n \in Nat /\ n <= MappingMax
        BY <1>0, <3>0, <3>1, <4>1
      <4> QED BY <1>0, <3>0, <4>1, <4>2
    <3>2. CASE ~(u - 1 <= MappingMax)
      <4>1. n = MappingMax
        BY <3>2
      <4> HIDE DEF n
      <4> QED BY <1>0, <3>0, <3>2, <4>1
    <3> QED BY <3>1, <3>2
  <2>2. r.size = new.size
    BY <1>0, <1>3 DEF ReadMap
  <2>3. \A j \in Index : r.ents[j] = IF 1 + j < u THEN new.ents[j]
                                     ELSE IF has.torn /\ 1 + j = u THEN "junk" ELSE "none"
    BY <1>0, <1>1 DEF ReadMap
  <2> HIDE DEF n, r, Where
  <2>4. \A j \in Index : /\ j < n => r.ents[j] = new.ents[j]
                         /\ j = n => r.ents[j] \in {"none", "junk"}
                         /\ j > n => r.ents[j] = "none"
    <3> TAKE j \in Index
    <3>1. n \in Int /\ j \in Int
      BY <1>0, <2>1
    <3> DEFINE before == 1 + j < u
               next == 1 + j = u
    <3>0. (j < n => before) /\ (j = n => ~before) /\ (j > n => ~before /\ ~next)
      <4>1. Where(j)
        BY <2>1
      <4> QED BY <4>1 DEF Where
    <3>5. r.ents[j] = IF before THEN new.ents[j] ELSE IF has.torn /\ next THEN "junk" ELSE "none"
      BY <2>3
    <3> HIDE DEF before, next
    <3> QED BY <3>0, <3>1, <3>5
  <2>5. Beginning(r, new)
    BY <2>1, <2>2, <2>4 DEF Beginning
  <2> QED BY <2>5 DEF r
<1> QED BY <1>2, <1>3

(* The mappings of cfg up to some device, a beginning of that one's, none    *)
UpTo(maps, cfg) ==
    \E d \in 0 .. Devs : \A i \in Dev :
        /\ i < d => maps[i] = cfg.maps[i]
        /\ i = d => Beginning(maps[i], cfg.maps[i])
        /\ i > d => maps[i] = Zero.maps[i]

(* What a start leaves of a file of the latest version, wherever it ends     *)
LEMMA CutLoads ==
    ASSUME NEW f, FileFits(f), f.cfg.ver = Latest, f.cfg.layout = "v3"
    PROVE  /\ Current(Loaded(f))
           /\ \A i \in Dev : Loaded(f).out[i] \in {f.cfg.out[i], "pad"}
           /\ \/ \A i \in Dev : Loaded(f).maps[i] = MappingBank(Zero.maps[i])
              \/ UpTo(Loaded(f).maps, f.cfg)
<1> DEFINE r == Fread(f, Zero)
           q == Load(TRUE, f, Zero)
<1>0. f \in File /\ f.exists /\ f.has \in Place /\ f.has.part \in 0 .. 1 + Devs /\ f.cfg \in Config
  <2>1. NoFile.cfg.ver = -1 /\ Latest # -1
    BY ZeroType DEF NoFile, Latest
  <2> QED BY <2>1 DEF FileFits, File, Place
<1>1. Loaded(f) = q.cfg
  BY DEF Loaded
<1>2. /\ r \in Config
      /\ ~HasMagic(f) => r = Zero
      /\ HasMagic(f) => r.ver = f.cfg.ver /\ r.layout = f.cfg.layout
      /\ r.out = [i \in Dev |-> IF In(f.has, 0, 2 + i) THEN f.cfg.out[i] ELSE Zero.out[i]]
      /\ r.maps = ReadMaps(f, Zero)
  BY <1>0, FreadType, ZeroType
<1> HIDE DEF q, r
<1>3. CASE ~HasMagic(f)
  <2>1. r = Zero /\ r.ver = -1
    BY <1>2, <1>3, ZeroType
  <2>2. q = [cfg |-> InitStruct(r), states |-> Store(TRUE, InitStruct(r))]
    BY <1>0, <2>1, LoadNone DEF q, r
  <2>3. Loaded(f) = InitStruct(Zero)
    BY <1>1, <2>1, <2>2
  <2>4. \A i \in Dev : InitStruct(Zero).out[i] = "pad"
    BY DEF InitStruct, Zero
  <2>5. \A i \in Dev : InitStruct(Zero).maps[i] = MappingBank(Zero.maps[i])
    BY ZeroType, InitStructType
  <2> QED BY <2>3, <2>4, <2>5, ZeroType, InitStructType
<1>4. CASE HasMagic(f)
  <2>1. r.ver = Latest /\ r.layout = "v3"
    BY <1>2, <1>4
  <2>2. q = [cfg |-> TakenFor(r), states |-> <<>>]
    BY <1>0, <2>1, LoadTaken DEF q, r
  <2>3. Loaded(f) = TakenFor(r)
    BY <1>1, <2>2
  <2>4. Current(TakenFor(r)) /\ TakenFor(r).maps = r.maps /\ TakenFor(r).out = r.out
    BY <1>2, <2>1, TakenForType
  <2>5. \A i \in Dev : r.out[i] \in {f.cfg.out[i], "pad"}
    BY <1>2 DEF Zero
  <2>6. UpTo(r.maps, f.cfg)
    <3> DEFINE d == IF f.has.part = 0 THEN 0 ELSE f.has.part - 1
    <3>1. d \in 0 .. Devs
      BY <1>0, Sizes
    <3>2. ASSUME NEW i \in Dev
          PROVE  /\ i < d => r.maps[i] = f.cfg.maps[i]
                 /\ i = d => Beginning(r.maps[i], f.cfg.maps[i])
                 /\ i > d => r.maps[i] = Zero.maps[i]
      <4>1. /\ i \in Nat /\ 1 + i \in Nat \ {0} /\ f.cfg.maps[i] \in Map /\ Zero.maps[i] \in Map
            /\ r.maps[i] = ReadMap(f.has, 1 + i, f.cfg.maps[i], Zero.maps[i])
        <5>1. i \in Nat /\ 1 + i \in Nat \ {0}
          BY Sizes DEF Dev
        <5>2. f.cfg.maps[i] \in Map /\ Zero.maps[i] \in Map
          BY <1>0, CfgFields, ZeroType
        <5>3. r.maps[i] = ReadMap(f.has, 1 + i, f.cfg.maps[i], Zero.maps[i])
          BY <1>2 DEF ReadMaps
        <5> QED BY <5>1, <5>2, <5>3
      <4>2. ASSUME i < d PROVE r.maps[i] = f.cfg.maps[i]
        <5>1. 1 + i < f.has.part
          BY <1>0, <4>1, <4>2
        <5> QED BY <1>0, <4>1, <5>1, ReadMapType
      <4>3. ASSUME f.has.part < 1 + i PROVE r.maps[i] = Zero.maps[i]
        BY <1>0, <4>1, <4>3, ReadMapType
      <4>4. ASSUME i > d PROVE f.has.part < 1 + i
        BY <1>0, <4>1, <4>4
      <4>5. ASSUME i = d PROVE Beginning(r.maps[i], f.cfg.maps[i])
        <5>1. CASE f.has.part = 0
          <6>1. f.has.part < 1 + i
            BY <4>1, <5>1
          <6>2. r.maps[i] = Zero.maps[0]
            <7>1. Zero.maps[i] = Zero.maps[0]
              BY Sizes DEF Zero, Dev
            <7> QED BY <4>3, <6>1, <7>1
          <6> QED BY <6>2 DEF Beginning
        <5>2. CASE f.has.part # 0
          <6>1. f.has.part = 1 + i
            BY <1>0, <4>1, <4>5, <5>2
          <6> QED BY <1>0, <4>1, <6>1, CutMap
        <5> QED BY <5>1, <5>2
      <4> QED BY <4>2, <4>3, <4>4, <4>5
    <3> HIDE DEF d
    <3> QED BY <3>1, <3>2 DEF UpTo
  <2> QED BY <2>3, <2>4, <2>5, <2>6
<1> QED BY <1>3, <1>4

(* A power cut in the middle of a store, at whatever byte, leaves a          *)
(* beginning of what was stored, device by device, or the defaults          *)
(* (config_store_on_file, config_load_from_file).                           *)
THEOREM CutsBounded == Spec => CutBounded
<1> DEFINE Sense ==
        /\ ram'.ver = Latest
        /\ \A i \in Dev : ram'.out[i] \in {file.cfg.out[i], "pad"}
        /\ \/ \A i \in Dev : ram'.maps[i] = MappingBank(Zero.maps[i])
           \/ \E d \in 0 .. Devs : \A i \in Dev :
                 /\ i < d => ram'.maps[i] = file.cfg.maps[i]
                 /\ i = d => Beginning(ram'.maps[i], file.cfg.maps[i])
                 /\ i > d => ram'.maps[i] = Zero.maps[i]
<1>1. SvcIInv => (Boot("mounted") /\ faults = {"cut"} /\ file.cfg.ver = Latest
                    /\ file.cfg.layout = "v3" => Sense)
  <2> SUFFICES ASSUME SvcIInv, Boot("mounted"), file.cfg.ver = Latest, file.cfg.layout = "v3"
               PROVE  Sense
    OBVIOUS
  <2>1. ram' = Loaded(file)
    BY BootLoads
  <2>2. FileFits(file)
    BY DEF SvcIInv, CfgStep, FileInv
  <2>3. /\ Current(Loaded(file))
        /\ \A i \in Dev : Loaded(file).out[i] \in {file.cfg.out[i], "pad"}
        /\ \/ \A i \in Dev : Loaded(file).maps[i] = MappingBank(Zero.maps[i])
           \/ UpTo(Loaded(file).maps, file.cfg)
    BY <2>2, CutLoads
  <2> QED BY <2>1, <2>3 DEF Current, UpTo
<1> QED BY <1>1, Invariance, PTL DEF CutBounded

(* A file of version 1 or 2 with room in every mapping *)
LEMMA UpgradeLoads ==
    ASSUME NEW cfg \in Config, LayoutFits(cfg), cfg.ver \in {1, 2},
           \A i \in Dev : cfg.maps[i].size < MappingMax
    PROVE  \A i \in Dev : Loaded(Whole(cfg)).maps[i] = WithCombo(cfg.maps[i])
<1> DEFINE f == Whole(cfg)
           v == cfg.ver
           r == Fread(f, Zero)
           q == Load(TRUE, f, Zero)
<1>1. f \in File /\ f.exists /\ f.has = WholeAt /\ f.cfg = cfg
  BY Sizes DEF Whole, WholeAt, At, Place, File
<1>2. v \in 0 .. 2 /\ v # Latest /\ v # -1 /\ v \in {1, 2}
  BY DEF Latest
<1>3. r \in Config /\ SameHead(r, cfg) /\ r.maps = cfg.maps
  <2> HIDE DEF f
  <2> QED BY <1>1, FreadType, ZeroType
<1> HIDE DEF f
<1>4. q = Upgrade(TRUE, f, v, r)
  <2>1. r.ver = v
    BY <1>3 DEF SameHead
  <2> HIDE DEF r, v
  <2> QED BY <1>1, <1>2, <2>1 DEF Load, r
<1> HIDE DEF r
<1>5. PICK g : UpPath(g, f, v, r)
  BY <1>2, UpgradeRun
<1> HIDE DEF v
<1>6. /\ g[v] = Start(r) /\ q = g[3]
      /\ \A i \in v + 1 .. 3 : g[i] = VerUpdate(TRUE, f, i - 1, g[i - 1])
  BY <1>4, <1>5 DEF UpPath
<1>7. g[v].cfg = r /\ g[v].states = <<>>
  BY <1>6 DEF Start
(* After the update of version 1, if any, the mappings are those of the file. *)
<1>8. g[2].cfg \in Config /\ g[2].cfg.maps = cfg.maps
  <2>1. CASE v = 2
    BY <1>3, <1>7, <2>1
  <2>2. CASE v = 1
    <3> DEFINE new == V1Update(TRUE, f, r)
    <3>1. g[2] = VerUpdate(TRUE, f, 1, g[1])
      <4>1. 2 \in v + 1 .. 3 /\ 2 - 1 = 1
        BY <2>2
      <4> QED BY <1>6, <4>1
    <3>2. After(f, g[1].states) = f /\ g[1].cfg = r
      BY <1>7, <2>2 DEF After
    <3>3. g[2].cfg = new.cfg
      BY <3>1, <3>2 DEF VerUpdate
    <3>4. f.cfg.layout = "v1"
      BY <1>1, <2>2 DEF LayoutFits, v
    <3>5. Current(new.cfg) /\ new.cfg.maps = [i \in Dev |-> Clamped(f.cfg.maps[i])]
      BY <1>1, <1>3, <3>4, V1UpdateType
    <3> HIDE DEF new
    <3>6. \A i \in Dev : Clamped(cfg.maps[i]) = cfg.maps[i]
      <4> TAKE i \in Dev
      <4>1. cfg.maps[i] \in Map /\ cfg.maps[i].size < MappingMax
        BY CfgFields
      <4>2. ~(cfg.maps[i].size > MappingMax)
        BY <4>1, MapFields, Sizes
      <4> QED BY <4>1, <4>2, MapFields DEF Clamped, Clamp
    <3>7. cfg.maps = [i \in Dev |-> cfg.maps[i]]
      BY CfgFields
    <3> QED BY <1>1, <3>3, <3>5, <3>6, <3>7 DEF Current
  <2> QED BY <1>2, <2>1, <2>2
<1>9. Added(g[3].cfg, g[2].cfg, Devs)
  <2> DEFINE new == V2Update(TRUE, After(f, g[2].states), g[2].cfg)
  <2>1. g[3] = VerUpdate(TRUE, f, 2, g[2])
    <3>1. 3 \in v + 1 .. 3 /\ 3 - 1 = 2
      BY <1>2
    <3> QED BY <1>6, <3>1
  <2>2. g[3].cfg = new.cfg
    BY <2>1 DEF VerUpdate
  <2>3. Added(new.cfg, g[2].cfg, Devs)
    BY <1>8, V2UpdateType
  <2> QED BY <2>2, <2>3
<1>10. \A i \in Dev : g[3].cfg.maps[i] = WithCombo(cfg.maps[i])
  <2>1. \A i \in Dev : i < Devs
    BY Sizes DEF Dev
  <2> QED BY <1>8, <1>9, <2>1 DEF Added
<1>11. Loaded(f) = q.cfg
  BY DEF Loaded
<1> HIDE DEF q
<1>12. \A i \in Dev : Loaded(f).maps[i] = WithCombo(cfg.maps[i])
  BY <1>6, <1>10, <1>11
<1> QED BY <1>12 DEF f

(* Starting with the file of an older firmware keeps every entry and adds    *)
(* the combo behind them (config_v1_update, config_v2_update).              *)
THEOREM EntriesKept == Spec => UpgradeKeeps
<1> DEFINE Keeps ==
        \A i \in Dev : LET old == file.cfg.maps[i] IN
              /\ ram'.maps[i].size = old.size + 1
              /\ \A j \in 0 .. old.size - 1 : ram'.maps[i].ents[j] = old.ents[j]
              /\ ram'.maps[i].ents[old.size] = "combo"
<1>1. SvcIInv => (Boot("mounted") /\ file = Whole(file.cfg) /\ file.cfg.ver \in {1, 2}
                    /\ (\A i \in Dev : file.cfg.maps[i].size < MappingMax) => Keeps)
  <2> SUFFICES ASSUME SvcIInv, Boot("mounted"), file = Whole(file.cfg), file.cfg.ver \in {1, 2},
                      \A i \in Dev : file.cfg.maps[i].size < MappingMax,
                      NEW i \in Dev
               PROVE  LET old == file.cfg.maps[i] IN
                      /\ ram'.maps[i].size = old.size + 1
                      /\ \A j \in 0 .. old.size - 1 : ram'.maps[i].ents[j] = old.ents[j]
                      /\ ram'.maps[i].ents[old.size] = "combo"
    OBVIOUS
  <2> DEFINE old == file.cfg.maps[i]
  <2>1. ram' = Loaded(file)
    BY BootLoads
  <2>2. file.cfg \in Config /\ LayoutFits(file.cfg)
    BY DEF SvcIInv, CfgStep, FileInv, FileFits, File, Latest
  <2>3. ram'.maps[i] = WithCombo(old)
    BY <2>1, <2>2, UpgradeLoads
  <2>4. old \in Map /\ old.size < MappingMax
    BY <2>2, CfgFields
  <2>5. /\ old.ents \in [Index -> Entry] /\ old.size \in Index
        /\ \A j \in 0 .. old.size - 1 : j \in Index /\ j # old.size
    <3> HIDE DEF old
    <3> QED BY <2>4, MapFields, Sizes DEF Index
  <2> QED BY <2>3, <2>5 DEF WithCombo
<1> QED BY <1>1, Invariance, PTL DEF UpgradeKeeps

-----------------------------------------------------------------------------
(* Reading a mapping: bt_att_cmd_in_cfg_rd_rsp answers with as much of the  *)
(* window as an answer holds, and the client puts the answers together.     *)

(* Units of the window at off from offset o on *)
Rest(map, off, o) ==
    IF off + o <= CfgLen(map) THEN Least(CfgLen(map) - (off + o), AttMax - o) ELSE 0

(* One answer: the last one is what is left, another one leaves the rest.   *)
LEMMA RestStep ==
    ASSUME NEW map \in Map, NEW off \in Nat, NEW mtu \in Nat, mtu >= MinMtu, NEW o \in 0 .. AttMax
    PROVE  LET n == RdLen(map, off, o, mtu)
               last == n < mtu - 1 \/ n = 0
           IN /\ n \in Nat
              /\ last => Rest(map, off, o) = n
              /\ ~last => /\ o + n \in 0 .. AttMax /\ n > 0
                          /\ Rest(map, off, o) = n + Rest(map, off, o + n)
<1> DEFINE len == CfgLen(map)
           n == RdLen(map, off, o, mtu)
<1>1. len \in Nat /\ AttMax \in Nat /\ mtu >= 2
  BY MapFields, SvcAssumption DEF CfgLen, MinMtu
<1>2. n = IF off + o > len \/ o > AttMax THEN 0
          ELSE Least(Least(len - (off + o), mtu - 1), AttMax - o)
  BY DEF RdLen
<1>3. \A p \in Nat :
        Rest(map, off, p) = IF off + p <= len THEN Least(len - (off + p), AttMax - p) ELSE 0
  BY DEF Rest
<1> HIDE DEF len, n
<1> DEFINE last == n < mtu - 1 \/ n = 0
<1>4. CASE off + o > len
  <2>1. n = 0 /\ Rest(map, off, o) = 0
    BY <1>1, <1>2, <1>3, <1>4
  <2> QED BY <2>1 DEF n
<1>5. CASE off + o <= len
  <2>1. n = Least(Least(len - (off + o), mtu - 1), AttMax - o)
    BY <1>1, <1>2, <1>5
  <2>2. Rest(map, off, o) = Least(len - (off + o), AttMax - o)
    BY <1>1, <1>3, <1>5
  <2>3. n \in Nat /\ n <= mtu - 1 /\ o + n <= AttMax /\ off + (o + n) <= len
        /\ (last => Rest(map, off, o) = n)
    BY <1>1, <1>5, <2>1, <2>2 DEF Least
  <2>4. ~last => Rest(map, off, o) = n + Rest(map, off, o + n)
    <3>1. Rest(map, off, o + n) = Least(len - (off + (o + n)), AttMax - (o + n))
      BY <1>3, <2>3
    <3> QED BY <1>1, <2>2, <2>3, <3>1 DEF Least
  <2>5. /\ n \in Nat
        /\ last => Rest(map, off, o) = n
        /\ ~last => /\ o + n \in 0 .. AttMax /\ n > 0
                    /\ Rest(map, off, o) = n + Rest(map, off, o + n)
    BY <1>1, <2>3, <2>4
  <2> QED BY <2>5 DEF n
<1> QED BY <1>1, <1>4, <1>5

(* g is the function by which WindowLen is defined. *)
WindowRun(g, map, off, mtu) ==
    g = [offset \in 0 .. AttMax |->
            LET n == RdLen(map, off, offset, mtu) IN
            IF n < mtu - 1 \/ n = 0 THEN n ELSE n + g[offset + n]]

(* The answers to the end of the window: there is no last offset that goes  *)
(* wrong.                                                                   *)
LEMMA WindowRead ==
    ASSUME NEW map \in Map, NEW off \in Nat, NEW mtu \in Nat, mtu >= MinMtu
    PROVE  WindowLen(map, off, mtu) = Rest(map, off, 0)
<1> DEFINE len(o) == RdLen(map, off, o, mtu)
           rest(o) == Rest(map, off, o)
           last(o) == len(o) < mtu - 1 \/ len(o) = 0
<1>1. \A o \in 0 .. AttMax :
        /\ len(o) \in Nat
        /\ last(o) => rest(o) = len(o)
        /\ ~last(o) => /\ o + len(o) \in 0 .. AttMax /\ len(o) > 0
                       /\ rest(o) = len(o) + rest(o + len(o))
  BY RestStep
<1>2. AttMax \in Nat
  BY SvcAssumption
<1> DEFINE h == [o \in 0 .. AttMax |-> rest(o)]
<1>3. WindowRun(h, map, off, mtu)
  <2> SUFFICES \A o \in 0 .. AttMax : h[o] = IF last(o) THEN len(o) ELSE len(o) + h[o + len(o)]
    BY DEF WindowRun
  <2> HIDE DEF len, rest
  <2> QED BY <1>1
<1> HIDE DEF h
<1> DEFINE g == CHOOSE x : WindowRun(x, map, off, mtu)
<1>4. WindowRun(g, map, off, mtu)
  BY <1>3
<1>5. WindowLen(map, off, mtu) = g[0]
  BY DEF WindowLen, WindowRun
<1> HIDE DEF g
<1>6. \A o \in 0 .. AttMax : g[o] = IF last(o) THEN len(o) ELSE len(o) + g[o + len(o)]
  BY <1>4 DEF WindowRun
<1> HIDE DEF len, rest
<1> DEFINE T == {d \in 0 .. AttMax : g[AttMax - d] # rest(AttMax - d)}
<1>7. T = {}
  <2> SUFFICES ASSUME T # {} PROVE FALSE
    OBVIOUS
  <2>1. T \in SUBSET Nat
    BY <1>2
  <2>2. PICK d \in T : \A e \in T : d <= e
    BY <2>1, LeastNat
  <2> DEFINE o == AttMax - d
  <2>3. o \in 0 .. AttMax /\ d \in 0 .. AttMax /\ g[o] # rest(o)
    BY <1>2, <2>2
  <2>4. ~last(o)
    BY <1>1, <1>6, <2>3
  <2> DEFINE e == d - len(o)
  <2>5. e \in 0 .. AttMax /\ e < d /\ AttMax - e = o + len(o)
    BY <1>1, <1>2, <2>3, <2>4
  <2>6. e \notin T
    BY <1>2, <2>2, <2>5
  <2>7. g[o + len(o)] = rest(o + len(o))
    BY <2>5, <2>6
  <2> QED BY <1>1, <1>6, <2>3, <2>4, <2>7
<1>8. g[0] = rest(0)
  <2>1. AttMax \in 0 .. AttMax /\ AttMax - AttMax = 0
    BY <1>2
  <2> QED BY <1>7, <2>1
<1> QED BY <1>5, <1>8 DEF rest

(* g is the function by which ReadLen is defined. *)
ReadRun(g, map, mtu) ==
    g = [k \in 0 .. MappingMax + 2 |->
            LET n == WindowLen(map, k * AttMax, mtu) IN
            IF n < AttMax THEN n ELSE n + g[k + 1]]

(* Multiples of the size of a window                                        *)
LEMMA Times ==
    ASSUME NEW k \in Nat, NEW a \in Nat, a > 0
    PROVE  k * a \in Nat /\ k * a >= k /\ (k + 1) * a = k * a + a
<1>1. k * a \in Nat
  OBVIOUS
<1>2. (k + 1) * a = k * a + a
  OBVIOUS
<1>3. k * a >= k
  OBVIOUS
<1> QED BY <1>1, <1>2, <1>3

(* The windows to the end of the mapping, in the same way                   *)
LEMMA ReadWindows ==
    ASSUME NEW map \in Map, map.size <= MappingMax, NEW mtu \in Nat, mtu >= MinMtu
    PROVE  ReadLen(map, mtu) = CfgLen(map)
<1> DEFINE all == CfgLen(map)
           at(k) == k * AttMax
           len(k) == WindowLen(map, at(k), mtu)
           left(k) == IF at(k) <= all THEN all - at(k) ELSE 0
           last(k) == len(k) < AttMax
<1>1. AttMax \in Nat /\ AttMax > 0 /\ all \in Nat /\ all <= MappingMax + 1 /\ MappingMax \in Nat
  BY MapFields, SvcAssumption, Sizes DEF CfgLen
<1>2. \A k \in 0 .. MappingMax + 2 :
        at(k) \in Nat /\ at(k) >= k /\ at(k + 1) = at(k) + AttMax
  BY <1>1, Times
<1>3. \A k \in 0 .. MappingMax + 2 : len(k) = IF at(k) <= all THEN Least(all - at(k), AttMax) ELSE 0
  <2> TAKE k \in 0 .. MappingMax + 2
  <2>1. at(k) \in Nat
    BY <1>2
  <2> HIDE DEF at
  <2>2. len(k) = Rest(map, at(k), 0)
    BY <2>1, WindowRead
  <2> QED BY <1>1, <2>1, <2>2 DEF Rest
<1> HIDE DEF all, at, len
<1>4. \A k \in 0 .. MappingMax + 2 :
        /\ last(k) => left(k) = len(k)
        /\ ~last(k) => k + 1 \in 0 .. MappingMax + 2 /\ left(k) = len(k) + left(k + 1)
  <2> TAKE k \in 0 .. MappingMax + 2
  <2>1. at(k) \in Nat /\ at(k) >= k /\ at(k + 1) = at(k) + AttMax
        /\ len(k) = IF at(k) <= all THEN Least(all - at(k), AttMax) ELSE 0
    BY <1>2, <1>3
  <2> QED BY <1>1, <2>1 DEF Least
<1> DEFINE h == [k \in 0 .. MappingMax + 2 |-> left(k)]
<1>5. ReadRun(h, map, mtu)
  <2> SUFFICES \A k \in 0 .. MappingMax + 2 : h[k] = IF last(k) THEN len(k) ELSE len(k) + h[k + 1]
    BY DEF ReadRun, len, at
  <2> HIDE DEF left
  <2> QED BY <1>4
<1> HIDE DEF h
<1> DEFINE g == CHOOSE x : ReadRun(x, map, mtu)
<1>6. ReadRun(g, map, mtu)
  BY <1>5
<1>7. ReadLen(map, mtu) = g[0]
  BY DEF ReadLen, ReadRun
<1> HIDE DEF g
<1>8. \A k \in 0 .. MappingMax + 2 : g[k] = IF last(k) THEN len(k) ELSE len(k) + g[k + 1]
  BY <1>6 DEF ReadRun, len, at
<1> HIDE DEF left, last
<1> DEFINE T == {d \in 0 .. MappingMax + 2 : g[MappingMax + 2 - d] # left(MappingMax + 2 - d)}
<1>9. T = {}
  <2> SUFFICES ASSUME T # {} PROVE FALSE
    OBVIOUS
  <2>1. T \in SUBSET Nat
    BY <1>1
  <2>2. PICK d \in T : \A e \in T : d <= e
    BY <2>1, LeastNat
  <2> DEFINE k == MappingMax + 2 - d
  <2>3. k \in 0 .. MappingMax + 2 /\ d \in 0 .. MappingMax + 2 /\ g[k] # left(k)
    BY <1>1, <2>2
  <2>4. ~last(k)
    BY <1>4, <1>8, <2>3
  <2>5. d - 1 \in 0 .. MappingMax + 2 /\ d - 1 < d /\ MappingMax + 2 - (d - 1) = k + 1
    BY <1>1, <1>4, <2>3, <2>4
  <2>6. d - 1 \notin T
    BY <1>1, <2>2, <2>5
  <2>7. g[k + 1] = left(k + 1)
    BY <2>5, <2>6
  <2> QED BY <1>4, <1>8, <2>3, <2>4, <2>7
<1>10. g[0] = left(0)
  <2>1. MappingMax + 2 \in 0 .. MappingMax + 2 /\ MappingMax + 2 - (MappingMax + 2) = 0
    BY <1>1
  <2> QED BY <1>9, <2>1
<1>11. left(0) = all
  BY <1>1 DEF left, at
<1> QED BY <1>7, <1>10, <1>11 DEF all

(* A client that reads the mapping of a device gets all of it, whatever the  *)
(* MTU and the windows (bt_att_cmd_in_cfg_rd_rsp).                          *)
THEOREM WholeRead == Spec => []ReadWhole
<1>1. SvcIInv => ReadWhole
  <2> SUFFICES ASSUME SvcIInv, NEW i \in Dev, ram.maps[i].size <= MappingMax
               PROVE  ReadLen(ram.maps[i], svc.mtu) = CfgLen(ram.maps[i])
    BY DEF ReadWhole
  <2>1. ram.maps[i] \in Map /\ svc.mtu \in Nat /\ svc.mtu >= MinMtu
    BY CfgFields DEF SvcIInv, CfgStep, CfgInv, SvcInv
  <2> QED BY <2>1, ReadWindows
<1> QED BY <1>1, Invariance, PTL
=============================================================================
