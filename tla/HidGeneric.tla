----------------------------- MODULE HidGeneric -----------------------------
(***************************************************************************)
(* Controllers, keyboards and mice without a driver of their own            *)
(* (adapter/wireless/hid_generic.c): the first report of a type builds a    *)
(* mapping from the usages of the parsed report, and every report is        *)
(* translated with it.                                                      *)
(*                                                                         *)
(* Bounds kept by the descriptors of a model: button-like fields end within *)
(* 32 bits of the first, and a bitfield keyboard has no key above 99: the   *)
(* code shifts, and indexes hid_kb_key_to_generic, past that unchecked.     *)
(***************************************************************************)
EXTENDS Generic, HidParser

-----------------------------------------------------------------------------
(* Keyboards. *)

hid_kb_bitfield_to_generic == <<26, 30, 110, 22, 111, 112, 113, 114>>

(* Ids of the usages 4 to 99 of the keyboard page; 0 to 3 give KB_A. *)
hid_kb_key_to_generic ==
    <<0, 32, 33, 1, 18, 19, 34, 35, 36, 37, 38, 39, 40, 41, 42, 43, 16, 17, 2, 44, 45, 46, 3, 29, 47, 25>>
    \o [i \in 1 .. 10 |-> 47 + i]
    \o <<21, 20, 58, 59, 31, 60, 61, 62, 63, 64, 23>>
    \o [i \in 1 .. 28 |-> 64 + i]
    \o <<9, 8, 10, 11>>
    \o [i \in 1 .. 17 |-> 92 + i]

KeyId(k) == IF k < 4 THEN 0 ELSE hid_kb_key_to_generic[k - 3]

IsModifier(u) == u.page = Keyboard /\ u.usage \in \hE0 .. \hE7

(* Mutant: the format is taken from the last usage only. *)
KbBitfieldOfLast(report, bitfield) ==
    bitfield \/ (report.usages # <<>> /\ report.usages[Len(report.usages)].usage \in 1 .. \hDF)

(* kb_bitfield: set when some usage is a key, and never cleared.            *)
KbBitfield(report, bitfield) == bitfield \/ \E i \in DOMAIN report.usages : report.usages[i].usage \in 1 .. \hDF

(* hid_kb_init: the modifiers are the button field, the first six other     *)
(* keyboard fields are the axes.                                            *)
hid_kb_init(hm, report, map) ==
    LET U == report.usages
        mods == {i \in DOMAIN U : IsModifier(U[i])}
        keys == {i \in DOMAIN U : U[i].page = Keyboard /\ ~IsModifier(U[i])}
        nth(k) == {i \in keys : Cardinality({j \in keys : j < i}) = k}
        modifiers == IF mods = {} THEN {} ELSE {22, 26, 30} \cup 110 .. 114
    IN  [hm |-> [hm EXCEPT !.btn = IF mods = {} THEN NONE ELSE Max(mods),
                           !.bitfield = KbBitfield(report, hm.bitfield)],
         map |-> [map EXCEPT !.idx = [a \in Axis |-> IF a < 6 /\ nth(a) # {} THEN CHOOSE i \in nth(a) : TRUE ELSE NONE],
                             !.mask = @ \cup modifiers \cup 0 .. 3 \cup 8 .. 11 \cup 16 .. 23
                                        \cup {25, 26, 29, 30, 31} \cup 32 .. 114]]

hid_kb_to_generic(hm, U, map, in) ==
    LET field(i) == Load(in, U[i].off, U[i].size)
        mods == IF hm.btn = NONE THEN {} ELSE {hid_kb_bitfield_to_generic[b + 1] : b \in field(hm.btn) \cap 0 .. 7}
        fields == {map.idx[a] : a \in {x \in Axis : map.idx[x] # NONE}}
        keys == IF hm.bitfield THEN UNION {{KeyId(b + U[i].usage) : b \in field(i)} : i \in fields}
                ELSE {KeyId(k) : k \in {Value(field(i)) : i \in fields} \cap 4 .. 99}
    IN  Ctrl(map, mods \cup keys, NoAxes)

-----------------------------------------------------------------------------
(* Mice. *)

(* Axis and directions of a mouse usage; the wheel is the axis LY.          *)
MouseAxes == [u \in {\h30, \h31, \h38} |->
                CASE u = \h30 -> [axis |-> RX, dirs |-> {4, 5}, pol |-> 0]
                  [] u = \h31 -> [axis |-> RY, dirs |-> {6, 7}, pol |-> 1]
                  [] u = \h38 -> [axis |-> LY, dirs |-> {14, 15}, pol |-> 1]]

MouseBtn(i) == CASE i = 0 -> 28 [] i = 1 -> 24 [] i = 2 -> 27 [] i = 7 -> 29 [] OTHER -> 16 + i - 3

(* The number of buttons: the loop compares its counter with the size of    *)
(* the usage the counter selects, not with that of the button field.        *)
MouseBtns(U) ==
    LET size(i) == IF i + 1 \in DOMAIN U THEN U[i + 1].size ELSE 0
    IN  Min({i \in 0 .. MaxUsage : i >= size(i)})

hid_mouse_init(hm, report, map) ==
    LET U == report.usages
        ax == {i \in DOMAIN U : U[i].page = Desktop /\ U[i].usage \in DOMAIN MouseAxes}
        of(a) == {i \in ax : MouseAxes[U[i].usage].axis = a}
        menu == {i \in DOMAIN U : U[i].page = Desktop /\ U[i].usage = \h85}
        btns == {i \in DOMAIN U : U[i].page = Button}
        bits == IF btns = {} THEN {} ELSE 0 .. MouseBtns(U) - 1
        ids == {MouseBtn(i) : i \in bits} \cup IF menu = {} THEN {} ELSE {P.MT}
        dirs == UNION {MouseAxes[U[i].usage].dirs : i \in ax}
    IN  [hm |-> [hm EXCEPT !.btn = IF menu \cup btns = {} THEN NONE ELSE Max(menu \cup btns)],
         map |-> [mask |-> map.mask \cup dirs \cup ids,
                  desc |-> map.desc \cup dirs,
                  btns |-> [b \in Btn |->
                              CASE b = P.MT /\ menu # {} -> {0}
                                [] ~(b = P.MT /\ menu # {}) /\ \E i \in bits : MouseBtn(i) = b -> {i \in bits : MouseBtn(i) = b}
                                [] OTHER -> map.btns[b]],
                  idx |-> [a \in Axis |-> IF of(a) = {} THEN NONE ELSE Max(of(a))],
                  meta |-> [a \in Axis |-> IF of(a) = {} THEN map.meta[a]
                                           ELSE LET u == U[Max(of(a))]
                                                IN  Meta(0, u.max, u.min, MouseAxes[u.usage].pol, 1)]]]

hid_mouse_to_generic(hm, U, map, in) ==
    LET field(i) == Load(in, U[i].off, U[i].size)
    IN  Ctrl(map,
             IF hm.btn = NONE THEN {} ELSE Pressed(map, field(hm.btn)),
             [a \in Axis |-> IF a >= MaxAxes \/ map.idx[a] = NONE THEN NoAxis
                             ELSE AxisOf(Signed(field(map.idx[a]), U[map.idx[a]].size), map.meta[a])])

-----------------------------------------------------------------------------
(* Pads. *)

hid_pad_default_btns_idx ==
    <<P.RB_DOWN, P.RB_RIGHT, P.RT, P.RB_LEFT, P.RB_UP, P.LT, P.LS, P.RS, P.LM, P.RM, P.MS, P.MM, P.MT,
      P.LJ, P.RJ, P.MQ, P.RD_LEFT, P.RD_RIGHT, P.RD_DOWN, P.RD_UP>> \o [i \in 1 .. 12 |-> 0]
hid_pad_xinput_btns_idx ==
    <<P.RB_DOWN, P.RB_RIGHT, P.RB_LEFT, P.RB_UP, P.LS, P.RS, P.MS, P.MM, P.LJ, P.RJ>> \o [i \in 1 .. 22 |-> 0]

Is(U, i, page, usage) == i \in DOMAIN U /\ U[i].page = page /\ U[i].usage = usage

(* Whether the axis Z belongs to the right stick: it follows X and Y. *)
ZIsJoy(U) ==
    LET after == {i \in DOMAIN U : /\ Is(U, i, Desktop, \h30)
                                   /\ Is(U, i + 1, Desktop, \h31)
                                   /\ Is(U, i + 2, Desktop, \h32) \/ Is(U, i + 2, Desktop, \h33)}
    IN  after # {} /\ U[Min(after) + 2].usage = \h32

BtnsIsXinput(U) ==
    /\ Len(U) = 8
    /\ \A i \in 1 .. 7 : Is(U, i, Desktop, <<\h30, \h31, \h33, \h34, \h32, \h35, \h39>>[i])
    /\ Is(U, 8, Button, 1) /\ U[8].umax = 10

(* The axis of a usage. *)
PadAxis(u, z) ==
    CASE u.page = Desktop /\ u.usage = \h30 -> LX
      [] u.page = Desktop /\ u.usage = \h31 -> LY
      [] u.page = Desktop /\ u.usage = \h32 -> IF z THEN RX ELSE TRIG_L
      [] u.page = Desktop /\ u.usage = \h33 -> IF z THEN TRIG_L ELSE RX
      [] u.page = Desktop /\ u.usage = \h34 -> IF z THEN TRIG_R ELSE RY
      [] u.page = Desktop /\ u.usage = \h35 -> IF z THEN RY ELSE TRIG_R
      [] u.page = Sims /\ u.usage = \hC4 -> TRIG_R
      [] u.page = Sims /\ u.usage = \hC5 -> TRIG_L
      [] OTHER -> NONE

PadDirs == <<{P.LX_LEFT, P.LX_RIGHT}, {P.LY_DOWN, P.LY_UP}, {P.RX_LEFT, P.RX_RIGHT}, {P.RY_DOWN, P.RY_UP},
             {P.LM}, {P.RM}>>

(* Range of an axis, before the pull-back; polarity is set, never cleared.  *)
PadMeta(u, a, old) ==
    LET neutral == IF u.min >= 0 THEN (u.max \div 2) + 1 ELSE 0
    IN  IF a \in {TRIG_L, TRIG_R} THEN [old EXCEPT !.max = u.max, !.min = u.min, !.neutral = u.min]
        ELSE [old EXCEPT !.neutral = neutral, !.max = u.max - neutral, !.min = neutral - u.min,
                         !.pol = IF a \in {LY, RY} THEN 1 ELSE @]

(* The run of usages of one page that starts at i. *)
Run(U, i, page) == {k \in DOMAIN U : k >= i /\ \A j \in i .. k : U[j].page = page}
RunEnd(U, i, page) == LET u == U[Max(Run(U, i, page))] IN u.off + u.size

(* Buttons of a run: usages above that of HID_RJ are numbered from 15 on.   *)
PadBtns(U, first, base, btns_idx) ==
    LET run == {k \in Run(U, first, Button) : U[k].usage # 0}
        undef(k) == U[k].usage - 1 > 14
        number(k) == IF undef(k) THEN 15 + Cardinality({j \in run : j < k /\ undef(j)}) ELSE U[k].usage - 1
    IN  FlattenSeq([k \in 1 .. Len(U) |->
            IF k \notin run THEN <<>>
            ELSE [j \in 1 .. U[k].size |-> [id |-> btns_idx[number(k) + j], bit |-> U[k].off - base + j - 1]]])

ConsumerBtns(U, first, base) ==
    LET id == [u \in {\h40, \hB2, \h223, \h224} |->
                CASE u = \h40 -> P.MM [] u = \hB2 -> P.MQ [] u = \h223 -> P.MT [] u = \h224 -> P.MS]
        run == Run(U, first, Consumer)
    IN  FlattenSeq([k \in 1 .. Len(U) |->
            IF k \in run THEN <<[id |-> id[U[k].usage], bit |-> U[k].off - base]>> ELSE <<>>])

(* The field of the buttons is enlarged, in the stored report, to hold all  *)
(* button-like usages.                                                      *)
PadSize(U, btn, cbtn, base) ==
    LET at == IF btn # NONE THEN btn ELSE cbtn
        b == IF btn = NONE THEN U[at].size ELSE RunEnd(U, btn, Button) - base
        c == IF cbtn = NONE THEN 0 ELSE RunEnd(U, cbtn, Consumer) - base
    IN  IF at = NONE THEN U ELSE [U EXCEPT ![at].size = IF c > b THEN c ELSE b]

(* hid_pad_init; [hm, map, usages] *)
hid_pad_init(hm, report, map) ==
    LET U == report.usages
        z == ZIsJoy(U)
        of(a) == {i \in DOMAIN U : PadAxis(U[i], z) = a}
        axes == {a \in 0 .. MaxAxes - 1 : of(a) # {}}
        hats == {i \in DOMAIN U : Is(U, i, Desktop, \h39)}
        first(page) == LET s == {i \in DOMAIN U : U[i].page = page} IN IF s = {} THEN NONE ELSE Min(s)
        btn == first(Button)
        cbtn == first(Consumer)
        base == IF btn = NONE /\ cbtn = NONE THEN 0
                ELSE U[IF btn = NONE \/ (cbtn # NONE /\ cbtn < btn) THEN cbtn ELSE btn].off
        btns_idx == IF BtnsIsXinput(U) THEN hid_pad_xinput_btns_idx ELSE hid_pad_default_btns_idx
        assigned == (IF btn = NONE THEN <<>> ELSE PadBtns(U, btn, base, btns_idx))
                    \o (IF cbtn = NONE THEN <<>> ELSE ConsumerBtns(U, cbtn, base))
        dirs == UNION {PadDirs[a + 1] : a \in axes}
        metas == [a \in Axis |-> IF a \in axes THEN PadMeta(U[Max(of(a))], a, map.meta[a]) ELSE map.meta[a]]
        pulled(m) == [m EXCEPT !.max = PullBack(@), !.min = PullBack(@)]
    IN  [hm |-> [hm EXCEPT !.btn = IF btn # NONE THEN btn ELSE cbtn,
                           !.hat = IF hats = {} THEN NONE ELSE Max(hats)],
         map |-> [mask |-> map.mask \cup dirs \cup {x.id : x \in ToSet(assigned)}
                             \cup IF hats = {} THEN {} ELSE 8 .. 11,
                  desc |-> map.desc \cup dirs,
                  btns |-> FoldLeft(LAMBDA m, x : [m EXCEPT ![x.id] = {x.bit}], map.btns, assigned),
                  idx |-> [a \in Axis |-> IF a \in axes THEN Max(of(a)) ELSE NONE],
                  meta |-> [a \in Axis |-> IF a < MaxAxes THEN pulled(metas[a]) ELSE metas[a]]],
         usages |-> PadSize(U, btn, cbtn, base)]

hid_pad_to_generic(hm, U, map, cal, in) ==
    LET field(i) == Load(in, U[i].off, U[i].size)
        hat == (Value(field(hm.hat)) - U[hm.hat].min) % 16
        value(i, a) == IF U[i].min >= 0 THEN Value(field(i)) - map.meta[a].neutral ELSE Signed(field(i), U[i].size)
    IN  Ctrl(map,
             (IF hm.btn = NONE THEN {} ELSE Pressed(map, field(hm.btn)))
             \cup (IF hm.hat = NONE THEN {} ELSE hat_to_ld_btns[hat]),
             [a \in Axis |-> IF map.idx[a] = NONE THEN NoAxis
                             ELSE AxisOf(value(map.idx[a], a) + cal[a], map.meta[a])])
=============================================================================
