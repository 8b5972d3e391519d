------------------------------ MODULE XboxPad ------------------------------
(***************************************************************************)
(* The wired report of this build, the one of an Xbox controller            *)
(* (adapter/wired/xbox.c).  The turbo masks are never generated here.       *)
(* Buttons and pressures are named by their generic ids and axes.           *)
(***************************************************************************)
EXTENDS Mapping

Sticks == 0 .. 3            \* XBOX_JOYSTICK_AXES_CNT

xbox_mask == 0 .. 11 \cup 16 .. 21 \cup {24, 25, 27, 28, 29, 31}
xbox_desc == 0 .. 7 \cup 16 .. 19 \cup {24, 25, 28, 29}
xbox_btns_mask == 8 .. 11 \cup {P.MM, P.MS, P.LJ, P.RJ}     \* the ids that have a bit

xbox_axes_meta ==
    [a \in Axis |-> IF a \in Sticks THEN [size_min |-> -32768, size_max |-> 32767, neutral |-> 0, max |-> 32768, min |-> 32768, pol |-> 0]
                    ELSE [size_min |-> 0, size_max |-> 255, neutral |-> 0, max |-> 256, min |-> 0, pol |-> 0]]

XboxOutput == [mask |-> xbox_mask, desc |-> xbox_desc, meta |-> xbox_axes_meta]

(* xbox_init_buffer: nothing pressed, nothing deflected. *)
xbox_init_buffer == [btns |-> {}, axes |-> [a \in Axis |-> 0]]

(* xbox_meta_init *)
xbox_meta_init(n) == [i \in n |-> Output0(XboxOutput)]

Clamp(a, v) == CASE v > xbox_axes_meta[a].size_max -> xbox_axes_meta[a].size_max
                 [] v < xbox_axes_meta[a].size_min -> xbox_axes_meta[a].size_min
                 [] OTHER -> v

(* Mutant: a button that is no longer pressed is not cleared. *)
XboxBtnsOr(out, data) == data.btns \cup (out.btns \cap xbox_btns_mask)

(* The buttons of the report: those the mapping flagged are updated. *)
XboxBtns(out, data) == (data.btns \ out.map) \cup (out.btns \cap out.map \cap xbox_btns_mask)

xbox_ctrl_from_generic(out, data) ==
    [btns |-> XboxBtns(out, data),
     axes |-> [a \in Axis |-> IF out.map \cap axis_to_btn_mask(a) \cap xbox_desc # {} THEN Clamp(a, out.value[a])
                              ELSE data.axes[a]]]

(* Only the first output is a controller. *)
xbox_from_generic(i, out, data) == IF i < 1 THEN xbox_ctrl_from_generic(out, data) ELSE data
=============================================================================
