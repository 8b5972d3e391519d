------------------------------ MODULE Mapping ------------------------------
(***************************************************************************)
(* From the generic input to the generic outputs (adapter/adapter.c): every *)
(* entry of the input configuration copies one button or one direction of   *)
(* an axis of the controller to one of an output.                           *)
(*                                                                         *)
(* The scale is computed with integers where the code uses single-precision *)
(* floats; both truncate towards zero.  The turbo counters, which nothing   *)
(* reads in this build, are left out.                                       *)
(***************************************************************************)
EXTENDS Generic, SequencesExt

TRIG_LS == 6
TRIG_RS == 7

(* The wheel of a mouse (12 to 15) shares the axes of the left stick. *)
btn_id_to_axis(b) ==
    CASE b \in {0, 1, 12, 13} -> LX
      [] b \in {2, 3, 14, 15} -> LY
      [] b \in {4, 5} -> RX
      [] b \in {6, 7} -> RY
      [] b = P.LM -> TRIG_L
      [] b = P.RM -> TRIG_R
      [] b = P.LS -> TRIG_LS
      [] b = P.RS -> TRIG_RS
      [] b \in 8 .. 11 -> b
      [] b \in 16 .. 19 -> b - 4
      [] OTHER -> -1

axis_to_btn_mask(a) == {b \in Btn : btn_id_to_axis(b) = a}

axis_to_btn_id(a) ==
    CASE a <= RY -> 2 * a
      [] a = TRIG_L -> P.LM
      [] a = TRIG_R -> P.RM
      [] a = TRIG_LS -> P.LS
      [] a = TRIG_RS -> P.RS
      [] a \in 8 .. 11 -> a
      [] a \in 12 .. 15 -> a + 4

(* Directions towards lower values, without inverted polarity. *)
btn_sign(pol, b) ==
    LET down == b \in {P.LX_LEFT, P.LY_DOWN, P.RX_LEFT, P.RY_DOWN, 12, 14}
    IN  IF (pol = 0) = down THEN -1 ELSE 1

Abs(x) == IF x < 0 THEN -x ELSE x

-----------------------------------------------------------------------------
(* One output: struct wired_ctrl after wired_meta_init, which clears it. *)

Output0(wired) == [mask |-> wired.mask, desc |-> wired.desc, meta |-> wired.meta,
                   map |-> {}, btns |-> {}, value |-> [a \in Axis |-> 0]]

(* The larger deflection wins. *)
Deflect(out, a, v) == IF Abs(v) > Abs(out.value[a]) THEN [out EXCEPT !.value[a] = v] ELSE out

Press(out, b) == [out EXCEPT !.btns = @ \cup {b}]

Flag(out, b) == [out EXCEPT !.map = @ \cup {b}]

DstMax(out, a, sign) == IF sign > 0 THEN out.meta[a].max ELSE out.meta[a].min

(* Mutant: the range of the source is not extended. *)
SrcKept(axis, sign) == axis.meta

(* The range of the source axis grows to what was observed. *)
SrcSeen(axis, sign) ==
    LET v == Abs(axis.value)
    IN  IF sign > 0 THEN [axis.meta EXCEPT !.max = IF v > @ THEN v ELSE @]
        ELSE [axis.meta EXCEPT !.min = IF v > @ THEN v ELSE @]

(* The output when an entry moves it: v is the deflection of the source, of *)
(* range max and dead zone dz.                                              *)
Moved(m, out, v, max, dz) ==
    LET a == btn_id_to_axis(m.dst)
        sign == btn_sign(out.meta[a].pol, m.dst)
        linear == ((v - dz) * DstMax(out, a, sign)) \div (max - dz)
        value == sign * (((IF m.algo = "linear" THEN linear ELSE v - dz) * m.max) \div 100)
    IN  CASE m.dst \in out.desc -> IF v > dz THEN Deflect(out, a, value) ELSE out
          [] m.dst \notin out.desc -> IF v >= (m.thr * max) \div 100 THEN Press(out, m.dst) ELSE out

(* One entry whose source is an axis: [in, out]. *)
adapter_map_from_axis(m, in, out) ==
    LET a == btn_id_to_axis(m.src)
        axis == in.axes[a]
        sign == btn_sign(axis.meta.pol, m.src)
        moved(seen, max) == [in |-> [in EXCEPT !.axes[a].meta = seen],
                             out |-> Flag(Moved(m, out, Abs(axis.value), max, ((m.dz * max) \div 10000) + seen.dz), m.dst)]
        by(seen) == moved(seen, IF sign > 0 THEN seen.max ELSE seen.min)
    IN  CASE a = -1 \/ m.dst \notin out.mask -> [in |-> in, out |-> out]
          [] OTHER -> IF sign * axis.value >= 0 THEN by(SrcSeen(axis, sign))
                      ELSE [in |-> in, out |-> Flag(out, m.dst)]

(* One entry whose source is a button. *)
adapter_map_from_btn(m, in, out) ==
    LET a == btn_id_to_axis(m.dst)
        sign == btn_sign(out.meta[a].pol, m.dst)
        held == m.src \in in.btns
    IN  CASE m.dst \notin out.mask \/ (held /\ m.dst \in out.desc /\ a = -1) -> out
          [] m.dst \in out.mask /\ held /\ m.dst \in out.desc /\ a # -1 ->
                Flag(Deflect(out, a, sign * ((DstMax(out, a, sign) * m.max) \div 100)), m.dst)
          [] m.dst \in out.mask /\ held /\ m.dst \notin out.desc -> Flag(Press(out, m.dst), m.dst)
          [] m.dst \in out.mask /\ ~held -> Flag(out, m.dst)

(* One entry, after those before it left s: [in, outs, mask] *)
MapEntry(s, m) ==
    LET axis(r) == [in |-> r.in, outs |-> [s.outs EXCEPT ![m.id] = r.out],
                    mask |-> s.mask \cup IF btn_id_to_axis(m.src) = -1 THEN {} ELSE {m.id}]
    IN  IF m.src \in s.in.desc THEN axis(adapter_map_from_axis(m, s.in, s.outs[m.id]))
        ELSE [s EXCEPT !.outs[m.id] = adapter_map_from_btn(m, s.in, s.outs[m.id]), !.mask = @ \cup {m.id}]

(* adapter_mapping, entry by entry; an entry whose source does not exist is *)
(* passed over.  mask has the outputs that the others name.                 *)
adapter_mapping(cfg, ctrl, outputs) ==
    LET mapped[i \in 0 .. Len(cfg)] ==
            IF i = 0 THEN [in |-> ctrl, outs |-> outputs, mask |-> {}]
            ELSE IF cfg[i].src \in ctrl.mask THEN MapEntry(mapped[i - 1], cfg[i]) ELSE mapped[i - 1]
    IN  mapped[Len(cfg)]
=============================================================================
