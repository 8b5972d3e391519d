------------------------------ MODULE Generic ------------------------------
(***************************************************************************)
(* The generic controller of the adapter (adapter/adapter.h): what every    *)
(* wireless report is translated to and every wired report is made from.    *)
(* A word of 32 bits is the set of the positions of its bits, a mask or a   *)
(* button value the set of the ids in it.                                   *)
(***************************************************************************)
EXTENDS Integers, Sequences, FiniteSets, FiniteSetsExt

(* The button ids of a pad; the first eight are the directions of the       *)
(* sticks.  Keys and mouse buttons are numbered over the same ids.          *)
P == [LX_LEFT |-> 0, LX_RIGHT |-> 1, LY_DOWN |-> 2, LY_UP |-> 3,
      RX_LEFT |-> 4, RX_RIGHT |-> 5, RY_DOWN |-> 6, RY_UP |-> 7,
      LD_LEFT |-> 8, LD_RIGHT |-> 9, LD_DOWN |-> 10, LD_UP |-> 11,
      RD_LEFT |-> 12, RD_RIGHT |-> 13, RD_DOWN |-> 14, RD_UP |-> 15,
      RB_LEFT |-> 16, RB_RIGHT |-> 17, RB_DOWN |-> 18, RB_UP |-> 19,
      MM |-> 20, MS |-> 21, MT |-> 22, MQ |-> 23,
      LM |-> 24, LS |-> 25, LT |-> 26, LJ |-> 27,
      RM |-> 28, RS |-> 29, RT |-> 30, RJ |-> 31]

Btn == 0 .. 31              \* ids of a pad, indexes of btns_mask
KbmMax == 115               \* KBM_MAX
AnyBtn == 0 .. KbmMax - 1   \* ids of the four words of a report

(* The axes: two sticks, two triggers, and the pressure of PS2 buttons. *)
LX == 0
LY == 1
RX == 2
RY == 3
TRIG_L == 4
TRIG_R == 5
Axis == 0 .. 15             \* ADAPTER_PS2_MAX_AXES
MaxAxes == 6                \* ADAPTER_MAX_AXES

(* struct ctrl_meta of an axis of a wireless report.                        *)
Meta(neutral, max, min, pol, rel) ==
    [neutral |-> neutral, max |-> max, min |-> min, pol |-> pol, rel |-> rel, dz |-> 0]
Meta0 == Meta(0, 0, 0, 0, 0)

(* struct raw_src_mapping as bt_host_reset_dev leaves it. *)
Map0 == [mask |-> {}, desc |-> {}, btns |-> [b \in Btn |-> {}],
         idx |-> [a \in Axis |-> 0], meta |-> [a \in Axis |-> Meta0]]

(* struct wireless_ctrl: mask and desc point into the mapping. *)
Ctrl(map, pressed, axes) == [mask |-> map.mask, desc |-> map.desc, btns |-> pressed, axes |-> axes]

(* An axis of the report, and one that it does not set: meta is NULL. *)
AxisOf(value, meta) == [value |-> value, meta |-> meta, set |-> TRUE]
NoAxis == [value |-> 0, meta |-> Meta0, set |-> FALSE]
NoAxes == [a \in Axis |-> NoAxis]

(* hat_to_ld_btns *)
hat_to_ld_btns ==
    [h \in 0 .. 15 |-> CASE h = 0 -> {P.LD_UP}
                         [] h = 1 -> {P.LD_UP, P.LD_RIGHT}
                         [] h = 2 -> {P.LD_RIGHT}
                         [] h = 3 -> {P.LD_DOWN, P.LD_RIGHT}
                         [] h = 4 -> {P.LD_DOWN}
                         [] h = 5 -> {P.LD_DOWN, P.LD_LEFT}
                         [] h = 6 -> {P.LD_LEFT}
                         [] h = 7 -> {P.LD_UP, P.LD_LEFT}
                         [] OTHER -> {}]

(* Bits of a little-endian field: 32 bits are loaded from the byte the      *)
(* field starts in, shifted and masked, so that a field is cut where the    *)
(* load ends.                                                               *)
Load(in, off, size) ==
    {b - off : b \in {c \in in : c >= off /\ c < off + size /\ c < 8 * (off \div 8) + 32}}

Value(bits) == FoldSet(LAMBDA b, v : v + 2^b, 0, bits)
Signed(bits, size) == Value(bits) - IF size - 1 \in bits THEN 2^size ELSE 0

(* The buttons whose btns_mask has a bit that is set. *)
Pressed(map, bits) == {b \in Btn : map.btns[b] \cap bits # {}}

(* MAX_PULL_BACK, truncated towards zero. *)
PullBack(x) == IF x >= 0 THEN (95 * x) \div 100 ELSE -((95 * (-x)) \div 100)
=============================================================================
