------------------------------- MODULE Quirks -------------------------------
(***************************************************************************)
(* Corrections of the mapping of known pads (adapter/mapping_quirks.c),     *)
(* applied once the first report of a type built the mapping.               *)
(***************************************************************************)
EXTENDS Generic, SequencesExt

BTN_RIGHT == 13     \* axis of the pressure of PAD_RB_RIGHT
RS_AXIS == 7        \* TRIG_RS
Off == -1           \* source of a button that loses its bits

(* Buttons that take the bits of another one, all at once, or none. *)
Take(map, from) ==
    [map EXCEPT !.btns = [b \in Btn |-> IF b \notin DOMAIN from THEN @[b]
                                        ELSE IF from[b] = Off THEN {} ELSE @[from[b]]]]
PutBits(map, bit) == [map EXCEPT !.btns = [b \in Btn |-> IF b \in DOMAIN bit THEN {bit[b]} ELSE @[b]]]
Words(map, mask, desc) == [map EXCEPT !.mask = mask, !.desc = desc]

(* The axis a becomes the axis b; its meta is copied. *)
MoveAxis(map, a, b) == [map EXCEPT !.idx = [map.idx EXCEPT ![b] = map.idx[a], ![a] = -1], !.meta[b] = map.meta[a]]

face_btns_invert(map) ==
    Take(map, (P.RB_LEFT :> P.RB_UP) @@ (P.RB_UP :> P.RB_LEFT) @@ (P.RB_DOWN :> P.RB_RIGHT) @@ (P.RB_RIGHT :> P.RB_DOWN))

face_btns_rotate_right(map) ==
    Take(map, (P.RB_UP :> P.RB_LEFT) @@ (P.RB_LEFT :> P.RB_DOWN) @@ (P.RB_DOWN :> P.RB_RIGHT) @@ (P.RB_RIGHT :> P.RB_UP))

face_btns_trigger_to_6buttons(map) ==
    LET m == Take(map, (P.LM :> P.RB_LEFT) @@ (P.RB_LEFT :> P.RB_DOWN) @@ (P.RB_DOWN :> P.RB_RIGHT) @@ (P.RB_RIGHT :> Off))
    IN  MoveAxis(MoveAxis([m EXCEPT !.desc = 0 .. 7 \cup {17, 29}], TRIG_L, RS_AXIS), TRIG_R, BTN_RIGHT)

face_btns_trigger_to_8buttons(map) ==
    LET m == Take(map, (P.LM :> P.LS) @@ (P.LS :> P.RB_LEFT) @@ (P.RB_LEFT :> P.RB_DOWN)
                       @@ (P.RB_DOWN :> P.RB_RIGHT) @@ (P.RB_RIGHT :> Off))
    IN  MoveAxis(MoveAxis([m EXCEPT !.desc = 0 .. 7 \cup {17, 28}], TRIG_R, BTN_RIGHT), TRIG_L, TRIG_R)

trigger_pri_sec_invert(map) ==
    Take([map EXCEPT !.desc = @ \ {24, 28}], (P.LM :> P.LS) @@ (P.LS :> P.LM) @@ (P.RM :> P.RS) @@ (P.RS :> P.RM))

n64_8bitdo(map) ==
    LET m == Take(map, (P.RY_DOWN :> P.RB_LEFT) @@ (P.RX_LEFT :> P.RB_UP) @@ (P.LM :> P.MS) @@ (P.RB_LEFT :> P.RB_RIGHT)
                       @@ (P.RB_RIGHT :> Off) @@ (P.RB_UP :> Off) @@ (P.MS :> Off) @@ (P.RT :> Off))
    IN  Words(PutBits(m, (P.RY_UP :> 8) @@ (P.RX_RIGHT :> 9)), 0 .. 11 \cup {16, 18, 20, 24, 25, 29}, 0 .. 3)

n64_8bitdo_mk(map) ==
    LET m == PutBits(Take(map, P.RB_RIGHT :> Off), (P.RB_LEFT :> 1) @@ (P.MT :> 12) @@ (P.LM :> 8) @@ (P.RM :> 9))
    IN  Words(m, 0 .. 11 \cup {16, 18, 20, 22, 24, 25, 28, 29}, 0 .. 7)

m30_8bitdo(map) == face_btns_trigger_to_8buttons(map)

m30_8bitdo_modkit(map) ==
    PutBits(map, (P.RB_LEFT :> 0) @@ (P.RB_RIGHT :> 5) @@ (P.RB_DOWN :> 1) @@ (P.RB_UP :> 3) @@ (P.LS :> 2) @@ (P.RS :> 4))

saturn_diy_8bitdo(map) ==
    Take(map, (P.LS :> P.RB_LEFT) @@ (P.RB_LEFT :> P.RB_DOWN) @@ (P.RB_DOWN :> P.RB_RIGHT)
              @@ (P.RB_RIGHT :> P.RS) @@ (P.RS :> P.LS))

gc_diy_8bitdo(map) ==
    LET m == Take(map, (P.RB_LEFT :> P.RB_RIGHT) @@ (P.RB_RIGHT :> P.RB_LEFT) @@ (P.RS :> P.MS)
                       @@ (P.MS :> Off) @@ (P.LM :> Off) @@ (P.RM :> Off) @@ (P.LS :> Off))
    IN  Words(PutBits(m, (P.LT :> 8) @@ (P.RT :> 9)), 0 .. 11 \cup 16 .. 20 \cup 24 .. 31, 0 .. 7 \cup {24, 28})

gc_gbros_8bitdo(map) ==
    Words(Take(map, (P.RB_LEFT :> P.RB_RIGHT) @@ (P.RB_RIGHT :> P.RB_LEFT) @@ (P.LT :> P.LS) @@ (P.RT :> P.RS)
                    @@ (P.RS :> P.MS) @@ (P.MS :> Off) @@ (P.LM :> Off) @@ (P.RM :> Off) @@ (P.LS :> Off)),
          0 .. 11 \cup 16 .. 20 \cup {22} \cup 24 .. 31, 0 .. 7 \cup {24, 28})

n64_bluen64(map) ==
    Words(PutBits(Take(map, P.RB_LEFT :> P.RB_RIGHT), (P.RX_LEFT :> 3) @@ (P.RY_DOWN :> 4) @@ (P.LM :> 8) @@ (P.MM :> 5)),
          0 .. 11 \cup {16, 18, 20, 24, 25, 29}, 0 .. 7)

rf_warrior(map) ==
    Words(PutBits(Take(map, (P.LS :> Off) @@ (P.MS :> Off)),
              (P.RB_LEFT :> 1) @@ (P.RB_RIGHT :> 2) @@ (P.LM :> 4) @@ (P.RM :> 5) @@ (P.RS :> 6)),
          0 .. 11 \cup 16 .. 22 \cup {24, 25, 28, 29}, 0 .. 7)

ouya(map) ==
    Words(PutBits([map EXCEPT !.btns = [b \in Btn |-> {}]],
              (P.LD_LEFT :> 10) @@ (P.LD_RIGHT :> 11) @@ (P.LD_DOWN :> 9) @@ (P.LD_UP :> 8)
              @@ (P.RB_LEFT :> 1) @@ (P.RB_RIGHT :> 3) @@ (P.RB_DOWN :> 0) @@ (P.RB_UP :> 2)
              @@ (P.MM :> 14) @@ (P.LS :> 4) @@ (P.LJ :> 6) @@ (P.RS :> 5) @@ (P.RJ :> 7)),
          0 .. 11 \cup 16 .. 20 \cup {24, 25, 27, 28, 29, 31}, 0 .. 7 \cup {24, 28})

quirk_order ==
    <<"invert", "rotate_right", "to_6buttons", "to_8buttons", "pri_sec", "8bitdo_n64", "8bitdo_n64_mk", "8bitdo_m30",
      "8bitdo_m30_modkit", "8bitdo_saturn", "bluen64", "rf_warrior", "ouya", "8bitdo_gc", "8bitdo_gbros">>

quirk_apply(q, map) ==
    CASE q = "invert" -> face_btns_invert(map)
      [] q = "rotate_right" -> face_btns_rotate_right(map)
      [] q = "to_6buttons" -> face_btns_trigger_to_6buttons(map)
      [] q = "to_8buttons" -> face_btns_trigger_to_8buttons(map)
      [] q = "pri_sec" -> trigger_pri_sec_invert(map)
      [] q = "8bitdo_n64" -> n64_8bitdo(map)
      [] q = "8bitdo_n64_mk" -> n64_8bitdo_mk(map)
      [] q = "8bitdo_m30" -> m30_8bitdo(map)
      [] q = "8bitdo_m30_modkit" -> m30_8bitdo_modkit(map)
      [] q = "8bitdo_saturn" -> saturn_diy_8bitdo(map)
      [] q = "bluen64" -> n64_bluen64(map)
      [] q = "rf_warrior" -> rf_warrior(map)
      [] q = "ouya" -> ouya(map)
      [] q = "8bitdo_gc" -> gc_diy_8bitdo(map)
      [] q = "8bitdo_gbros" -> gc_gbros_8bitdo(map)

(* mapping_quirks_apply, in its order.  The 8-button layout is for a pad    *)
(* in XInput mode (its vendor is Microsoft's).                              *)
mapping_quirks_apply(quirks, xinput, map) ==
    LET active(q) == q \in quirks /\ (q = "to_8buttons" => xinput)
        applied[i \in 0 .. Len(quirk_order)] ==
            IF i = 0 THEN map
            ELSE IF active(quirk_order[i]) THEN quirk_apply(quirk_order[i], applied[i - 1]) ELSE applied[i - 1]
    IN  applied[Len(quirk_order)]
=============================================================================
