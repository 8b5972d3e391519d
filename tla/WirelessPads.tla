---------------------------- MODULE WirelessPads ----------------------------
(***************************************************************************)
(* The controllers with a driver of their own (adapter/wireless/ps.c,       *)
(* ps3.c, wii.c, sw.c, sw2.c).  A report is a record of what the driver     *)
(* reads from it:                                                          *)
(*   id     the report id                                                   *)
(*   btns   the bits set in the button word, core those of a Wiimote        *)
(*   hat    the hat nibble                                                  *)
(*   axes   the raw values, unpacked, by axis of the generic controller     *)
(*   wide   whether the two bytes after the axes of an 8-bit Classic        *)
(*          Controller report are not zero                                  *)
(* A translation is [ok, ctrl, map, cal, init, subtype]: what the driver    *)
(* leaves in raw_src_mappings[PAD], axes_cal, BT_INIT and the subtype.      *)
(***************************************************************************)
EXTENDS Generic, Quirks

Table(pairs) == [b \in Btn |-> {x[2] : x \in {y \in pairs : y[1] = b}}]
NoBtns == Table({})
Stick(neutral, range, pol) == Meta(neutral, range, range, pol, 0)
Trigger(neutral, max) == Meta(neutral, max, 0, 0, 0)
Pulled(m) == [m EXCEPT !.max = PullBack(@), !.min = PullBack(@)]

(* A driver of fixed format: its tables, whether the buttons are active low,*)
(* whether there is a hat, the axes, and whether the first report calibrates*)
(* them.                                                                    *)
Format(mask, desc, btns, core, low, hat, metas, calibrates) ==
    [mask |-> mask, desc |-> desc, btns |-> btns, core |-> core, low |-> low, hat |-> hat,
     metas |-> metas, calibrates |-> calibrates]

(* The first report copies the metas; the Wiimote has none, and never sets  *)
(* BT_INIT.                                                                 *)
FirstReport(d, s, r) ==
    LET n == Len(d.metas)
    IN  [s EXCEPT !.map.meta = [a \in Axis |-> IF a < n THEN Pulled(d.metas[a + 1]) ELSE @[a]],
                  !.cal = [a \in Axis |-> IF a < n /\ d.calibrates THEN d.metas[a + 1].neutral - r.axes[a] ELSE @[a]],
                  !.init = @ \/ n > 0]

(* Mutant: the buttons of an extension are taken as active high. *)
HeldHigh(d, r) ==
    {b \in Btn : d.btns[b] \cap r.btns # {}} \cup {b \in Btn : d.core[b] \cap r.core # {}}

Held(d, r) ==
    {b \in Btn : IF d.low THEN ~(d.btns[b] \subseteq r.btns) ELSE d.btns[b] \cap r.btns # {}}
    \cup {b \in Btn : d.core[b] \cap r.core # {}}
    \cup IF d.hat THEN hat_to_ld_btns[r.hat] ELSE {}

Translated(d, s, r) ==
    LET t == IF s.init THEN s ELSE FirstReport(d, s, r)
        n == Len(d.metas)
    IN  [ok |-> TRUE, s |-> t,
         ctrl |-> [mask |-> d.mask, desc |-> d.desc, btns |-> Held(d, r),
                   axes |-> [a \in Axis |-> IF a >= n THEN NoAxis
                                            ELSE AxisOf(r.axes[a] - d.metas[a + 1].neutral + t.cal[a], t.map.meta[a])]]]

Refused(s) == [ok |-> FALSE, s |-> s, ctrl |-> Ctrl(Map0, {}, NoAxes)]

-----------------------------------------------------------------------------
(* PlayStation 4 and 5 (ps.c). *)

ps4_mask == 0 .. 11 \cup 16 .. 25 \cup 27 .. 29 \cup {31}
ps4_desc == 0 .. 7 \cup {24, 28}
ps4_btns_mask ==
    Table({<<P.RB_LEFT, 4>>, <<P.RB_RIGHT, 6>>, <<P.RB_DOWN, 5>>, <<P.RB_UP, 7>>, <<P.MM, 13>>,
           <<P.MS, 12>>, <<P.MT, 16>>, <<P.MQ, 17>>, <<P.LS, 8>>, <<P.LJ, 14>>, <<P.RS, 9>>,
           <<P.RJ, 15>>})
ps4_axes_meta ==
    <<Meta(128, 127, 128, 0, 0), Meta(128, 127, 128, 1, 0), Meta(128, 127, 128, 0, 0), Meta(128, 127, 128, 1, 0),
      Trigger(0, 255), Trigger(0, 255)>>
PsFormat(calibrates) == Format(ps4_mask, ps4_desc, ps4_btns_mask, NoBtns, FALSE, TRUE, ps4_axes_meta, calibrates)

ps4_to_generic(s, r) == Translated(PsFormat(FALSE), s, r)
ps5_to_generic(s, r) == Translated(PsFormat(TRUE), s, r)
ps_hid_to_generic(s, r) == Translated(PsFormat(TRUE), s, r)

ps_to_generic(s, r) == CASE r.id = \h01 -> ps_hid_to_generic(s, r)
                         [] r.id = \h11 -> ps4_to_generic(s, r)
                         [] r.id = \h31 -> ps5_to_generic(s, r)
                         [] OTHER -> Refused(s)

-----------------------------------------------------------------------------
(* PlayStation 3 (ps3.c); for an Xbox, buttons have a pressure too. *)

ps3_mask == 0 .. 11 \cup 16 .. 22 \cup 27 .. 29 \cup {24, 25, 31}
ps3_pressure_desc2 == 0 .. 7 \cup 16 .. 19 \cup {24, 25, 28, 29}
ps3_btns_mask ==
    Table({<<P.LD_LEFT, 15>>, <<P.LD_RIGHT, 13>>, <<P.LD_DOWN, 14>>, <<P.LD_UP, 12>>,
           <<P.RB_LEFT, 23>>, <<P.RB_RIGHT, 21>>, <<P.RB_DOWN, 22>>, <<P.RB_UP, 20>>, <<P.MM, 11>>,
           <<P.MS, 8>>, <<P.MT, 24>>, <<P.LS, 18>>, <<P.LJ, 9>>, <<P.RS, 19>>, <<P.RJ, 10>>})
ps3_axes_meta == SubSeq(ps4_axes_meta, 1, 4) \o [i \in 1 .. 12 |-> Trigger(0, 255)]

ps3_to_generic(s, r) ==
    Translated(Format(ps3_mask, ps3_pressure_desc2, ps3_btns_mask, NoBtns, FALSE, FALSE, ps3_axes_meta, FALSE), s, r)

-----------------------------------------------------------------------------
(* Wii (wii.c): subtypes of a Wiimote by its extension, and the Wii U Pro.  *)

wii_mask == 8 .. 11 \cup 16 .. 22
wiin_mask == 0 .. 3 \cup 8 .. 11 \cup 16 .. 18 \cup 20 .. 22 \cup {24, 25, 28}
wiin_desc == 0 .. 3
wiic_mask == 0 .. 31
wiic_desc == 0 .. 7 \cup {24, 28}
wiic_pro_mask == 0 .. 25 \cup 27 .. 29 \cup {31}
wiic_pro_desc == 0 .. 7
wiiu_mask == 0 .. 11 \cup 16 .. 22 \cup 27 .. 29 \cup {24, 25, 31}
wiiu_desc == 0 .. 7
wii_btns_mask ==
    Table({<<P.LD_LEFT, 3>>, <<P.LD_RIGHT, 2>>, <<P.LD_DOWN, 0>>, <<P.LD_UP, 1>>, <<P.RB_LEFT, 9>>,
           <<P.RB_RIGHT, 10>>, <<P.RB_DOWN, 8>>, <<P.RB_UP, 11>>, <<P.MM, 4>>, <<P.MS, 12>>,
           <<P.MT, 15>>})
wiin_btns_mask ==
    Table({<<P.LM, 0>>, <<P.LS, 1>>})
wiin_core_btns_mask ==
    Table({<<P.LD_LEFT, 0>>, <<P.LD_RIGHT, 1>>, <<P.LD_DOWN, 2>>, <<P.LD_UP, 3>>, <<P.RB_LEFT, 9>>,
           <<P.RB_RIGHT, 8>>, <<P.RB_DOWN, 11>>, <<P.MM, 4>>, <<P.MS, 12>>, <<P.MT, 15>>,
           <<P.RM, 10>>})
wiic_btns_mask ==
    Table({<<P.LD_LEFT, 9>>, <<P.LD_RIGHT, 7>>, <<P.LD_DOWN, 6>>, <<P.LD_UP, 8>>, <<P.RB_LEFT, 13>>,
           <<P.RB_RIGHT, 12>>, <<P.RB_DOWN, 14>>, <<P.RB_UP, 11>>, <<P.MM, 2>>, <<P.MS, 4>>,
           <<P.MT, 3>>, <<P.LS, 15>>, <<P.LT, 5>>, <<P.RS, 10>>, <<P.RT, 1>>})
wiic_pro_btns_mask ==
    Table({<<P.LD_LEFT, 9>>, <<P.LD_RIGHT, 7>>, <<P.LD_DOWN, 6>>, <<P.LD_UP, 8>>, <<P.RB_LEFT, 13>>,
           <<P.RB_RIGHT, 12>>, <<P.RB_DOWN, 14>>, <<P.RB_UP, 11>>, <<P.MM, 2>>, <<P.MS, 4>>,
           <<P.MT, 3>>, <<P.LM, 15>>, <<P.LS, 5>>, <<P.RM, 10>>, <<P.RS, 1>>})
wiic_core_btns_mask ==
    Table({<<P.RD_LEFT, 3>>, <<P.RD_RIGHT, 2>>, <<P.RD_DOWN, 0>>, <<P.RD_UP, 1>>, <<P.MQ, 10>>,
           <<P.LJ, 9>>, <<P.RJ, 8>>})
wiiu_btns_mask ==
    Table({<<P.LD_LEFT, 9>>, <<P.LD_RIGHT, 7>>, <<P.LD_DOWN, 6>>, <<P.LD_UP, 8>>, <<P.RB_LEFT, 13>>,
           <<P.RB_RIGHT, 12>>, <<P.RB_DOWN, 14>>, <<P.RB_UP, 11>>, <<P.MM, 2>>, <<P.MS, 4>>,
           <<P.MT, 3>>, <<P.LM, 15>>, <<P.LS, 5>>, <<P.LJ, 17>>, <<P.RM, 10>>, <<P.RS, 1>>,
           <<P.RJ, 16>>})

Sticks4(l, lrange, r, rrange) == <<Stick(l, lrange, 0), Stick(l, lrange, 0), Stick(r, rrange, 0), Stick(r, rrange, 0)>>
wiin_axes_meta == <<Stick(128, 99, 0), Stick(128, 99, 0)>>
wiic_axes_meta == Sticks4(32, 27, 16, 13) \o <<Trigger(2, 29), Trigger(2, 29)>>
wiic_8bit_axes_meta == Sticks4(128, 102, 128, 102) \o <<Trigger(22, 218), Trigger(22, 218)>>
wiiu_axes_meta == Sticks4(2048, 1100, 2048, 1100)

wiimote_to_generic(s, r) == Translated(Format(wii_mask, {}, NoBtns, wii_btns_mask, FALSE, FALSE, <<>>, FALSE), s, r)
wiin_to_generic(s, r) ==
    Translated(Format(wiin_mask, wiin_desc, wiin_btns_mask, wiin_core_btns_mask, TRUE, FALSE, wiin_axes_meta, FALSE), s, r)
wiiu_to_generic(s, r) ==
    Translated(Format(wiiu_mask, wiiu_desc, wiiu_btns_mask, NoBtns, TRUE, FALSE, wiiu_axes_meta, FALSE), s, r)

Classic(pro, metas) ==
    IF pro THEN Format(wiic_pro_mask, wiic_pro_desc, wiic_pro_btns_mask, wiic_core_btns_mask, TRUE, FALSE, metas, FALSE)
    ELSE Format(wiic_mask, wiic_desc, wiic_btns_mask, wiic_core_btns_mask, TRUE, FALSE, metas, FALSE)

(* bt_type_update *)
TypeUpdated(s, subtype) == [s EXCEPT !.subtype = subtype, !.init = FALSE, !.cnt = 0]

(* The first report tells the two formats of a Classic Controller apart.    *)
wiic_to_generic(s, r) ==
    IF ~s.init /\ r.wide
    THEN Refused(TypeUpdated(s, IF s.subtype = "classic" THEN "classic_8bit" ELSE "classic_pro_8bit"))
    ELSE Translated(Classic(s.subtype = "classic_pro", wiic_axes_meta), s, r)

wiic_8bit_to_generic(s, r) ==
    IF ~s.init /\ ~r.wide
    THEN Refused(TypeUpdated(s, IF s.subtype = "classic_8bit" THEN "classic" ELSE "classic_pro"))
    ELSE Translated(Classic(s.subtype = "classic_pro_8bit", wiic_8bit_axes_meta), s, r)

wii_to_generic(s, r) ==
    CASE s.subtype = "nunchuck" -> wiin_to_generic(s, r)
      [] s.subtype \in {"classic", "classic_pro"} -> wiic_to_generic(s, r)
      [] s.subtype \in {"classic_8bit", "classic_pro_8bit"} -> wiic_8bit_to_generic(s, r)
      [] s.subtype = "wiiu_pro" -> wiiu_to_generic(s, r)
      [] OTHER -> wiimote_to_generic(s, r)

-----------------------------------------------------------------------------
(* Switch (sw.c): the tables have a HID (0) and a native (1) form.  The     *)
(* calibration read from the controller, when there is one, is a sequence   *)
(* of four metas; a neutral of 0 is no calibration of that axis.            *)

sw_pro_mask == 0 .. 11 \cup 16 .. 31
sw_pro_desc == 0 .. 7
sw_legacy_mask == 8 .. 11 \cup 16 .. 31
sw_jc_mask == 0 .. 3 \cup 16 .. 21 \cup 27 .. 29 \cup {24, 25}
sw_jc_native_desc == 0 .. 3
sw_gen_mask == 8 .. 11 \cup 16 .. 23 \cup {25, 29}
sw_gen_desc == 0 .. 3
sw_n64_mask == 0 .. 11 \cup 22 .. 25 \cup {16, 18, 20, 28, 29}
sw_n64_desc == 0 .. 3
sw_pro_btns_mask ==
    <<Table({<<P.RB_LEFT, 2>>, <<P.RB_RIGHT, 1>>, <<P.RB_DOWN, 0>>, <<P.RB_UP, 3>>, <<P.MM, 9>>,
             <<P.MS, 8>>, <<P.MT, 12>>, <<P.MQ, 13>>, <<P.LM, 6>>, <<P.LS, 4>>, <<P.LJ, 10>>,
             <<P.RM, 7>>, <<P.RM, 15>>, <<P.RS, 5>>, <<P.RJ, 11>>}),
      Table({<<P.LD_LEFT, 27>>, <<P.LD_RIGHT, 26>>, <<P.LD_DOWN, 24>>, <<P.LD_UP, 25>>,
             <<P.RB_LEFT, 8>>, <<P.RB_RIGHT, 11>>, <<P.RB_DOWN, 10>>, <<P.RB_UP, 9>>, <<P.MM, 17>>,
             <<P.MS, 16>>, <<P.MT, 20>>, <<P.MQ, 21>>, <<P.LM, 31>>, <<P.LS, 30>>, <<P.LT, 13>>,
             <<P.LT, 29>>, <<P.LJ, 19>>, <<P.RM, 15>>, <<P.RS, 14>>, <<P.RT, 12>>, <<P.RT, 28>>,
             <<P.RJ, 18>>})>>
sw_jc_btns_mask ==
    <<Table({<<P.RB_LEFT, 2>>, <<P.RB_RIGHT, 1>>, <<P.RB_DOWN, 0>>, <<P.RB_UP, 3>>, <<P.MM, 9>>,
             <<P.MM, 13>>, <<P.MS, 8>>, <<P.MS, 12>>, <<P.LM, 4>>, <<P.LS, 14>>, <<P.LJ, 10>>,
             <<P.LJ, 11>>, <<P.RM, 5>>, <<P.RS, 15>>}),
      Table({<<P.RB_LEFT, 10>>, <<P.RB_LEFT, 25>>, <<P.RB_RIGHT, 9>>, <<P.RB_RIGHT, 24>>,
             <<P.RB_DOWN, 11>>, <<P.RB_DOWN, 27>>, <<P.RB_UP, 8>>, <<P.RB_UP, 26>>, <<P.MM, 17>>,
             <<P.MM, 21>>, <<P.MS, 16>>, <<P.MS, 20>>, <<P.LM, 13>>, <<P.LM, 29>>, <<P.LS, 15>>,
             <<P.LS, 31>>, <<P.LJ, 18>>, <<P.LJ, 19>>, <<P.RM, 12>>, <<P.RM, 28>>, <<P.RS, 14>>,
             <<P.RS, 30>>})>>
sw_gen_btns_mask ==
    <<Table({<<P.RB_LEFT, 1>>, <<P.RB_RIGHT, 5>>, <<P.RB_DOWN, 0>>, <<P.RB_UP, 2>>, <<P.MM, 9>>,
             <<P.MS, 7>>, <<P.MT, 12>>, <<P.MQ, 13>>, <<P.LS, 6>>, <<P.RS, 4>>}),
      Table({<<P.LD_LEFT, 27>>, <<P.LD_RIGHT, 26>>, <<P.LD_DOWN, 24>>, <<P.LD_UP, 25>>,
             <<P.RB_LEFT, 11>>, <<P.RB_RIGHT, 14>>, <<P.RB_DOWN, 10>>, <<P.RB_UP, 8>>, <<P.MM, 17>>,
             <<P.MS, 15>>, <<P.MT, 20>>, <<P.MQ, 21>>, <<P.LS, 9>>, <<P.RS, 30>>})>>
sw_n64_btns_mask ==
    <<Table({<<P.RX_LEFT, 3>>, <<P.RX_RIGHT, 8>>, <<P.RY_DOWN, 7>>, <<P.RY_UP, 2>>, <<P.RB_LEFT, 0>>,
             <<P.RB_DOWN, 1>>, <<P.MM, 9>>, <<P.MT, 12>>, <<P.MQ, 13>>, <<P.LM, 6>>, <<P.LS, 4>>,
             <<P.RM, 10>>, <<P.RS, 5>>}),
      Table({<<P.RX_LEFT, 9>>, <<P.RX_RIGHT, 16>>, <<P.RY_DOWN, 15>>, <<P.RY_UP, 8>>,
             <<P.LD_LEFT, 27>>, <<P.LD_RIGHT, 26>>, <<P.LD_DOWN, 24>>, <<P.LD_UP, 25>>,
             <<P.RB_LEFT, 10>>, <<P.RB_DOWN, 11>>, <<P.MM, 17>>, <<P.MT, 20>>, <<P.MQ, 21>>,
             <<P.LM, 31>>, <<P.LS, 30>>, <<P.RM, 19>>, <<P.RS, 14>>})>>
sw_admiral_btns_mask ==
    Table({<<P.RX_LEFT, 8>>, <<P.RX_RIGHT, 11>>, <<P.RY_DOWN, 13>>, <<P.RY_UP, 12>>,
           <<P.RB_LEFT, 0>>, <<P.RB_DOWN, 1>>, <<P.MM, 9>>, <<P.LM, 14>>, <<P.LS, 4>>, <<P.RS, 5>>})
sw_brawler64_btns_mask ==
    Table({<<P.RX_LEFT, 3>>, <<P.RX_RIGHT, 10>>, <<P.RY_DOWN, 2>>, <<P.RY_UP, 11>>,
           <<P.RB_LEFT, 1>>, <<P.RB_DOWN, 0>>, <<P.MM, 9>>, <<P.MS, 8>>, <<P.MT, 12>>, <<P.MQ, 13>>,
           <<P.LM, 6>>, <<P.LS, 4>>, <<P.RM, 7>>, <<P.RS, 5>>})
sw_axes_meta == Stick(2048, 1400, 0)

JoyCon == {"left_joycon", "right_joycon"}

(* Metas of the sticks: those of the calibration where there is one.        *)
StickMetas(s, order, default) ==
    [a \in Axis |-> IF a > 3 THEN s.map.meta[a]
                    ELSE LET i == order[a + 1]
                             m == IF s.calib # <<>> /\ s.calib[i + 1].neutral # 0 THEN s.calib[i + 1] ELSE default[i + 1]
                         IN  [Pulled(m) EXCEPT !.pol = s.map.meta[a].pol]]

(* The end of both initialisations: the sticks are calibrated.              *)
Calibrated(s, order, default) ==
    [s EXCEPT !.map.meta = StickMetas(s, order, default),
              !.cal = [a \in Axis |-> IF a < 4 THEN 0 ELSE @[a]],
              !.init = TRUE]

(* Polarities, tables and axes by subtype, after the quirks were applied to *)
(* the table of the Pro Controller.                                         *)
SwMap(s, id, form, quirked) ==
    LET jc == s.subtype \in JoyCon
        n64 == s.subtype \in {"n64", "admiral"}
        btns == CASE jc -> sw_jc_btns_mask[form]
                  [] s.subtype = "gen" -> sw_gen_btns_mask[form]
                  [] s.subtype = "n64" -> IF id = \h3F /\ s.calib = <<>> THEN sw_brawler64_btns_mask ELSE sw_n64_btns_mask[form]
                  [] s.subtype = "admiral" -> sw_admiral_btns_mask
                  [] OTHER -> quirked.btns
        mask == CASE jc -> sw_jc_mask [] s.subtype = "default" -> sw_pro_mask [] s.subtype = "gen" -> sw_gen_mask
                  [] n64 -> sw_n64_mask [] OTHER -> sw_legacy_mask
        desc == CASE jc -> IF form = 2 THEN sw_jc_native_desc ELSE {}
                  [] s.subtype = "default" -> sw_pro_desc [] s.subtype = "gen" -> sw_gen_desc
                  [] n64 -> sw_n64_desc [] OTHER -> {}
        quirkedPol(a) == s.subtype = "admiral" \/ (a > 1 /\ s.subtype # "default") \/ a > 3
        pol(a) == CASE quirkedPol(a) -> quirked.meta[a].pol
                    [] ~quirkedPol(a) /\ s.subtype = "left_joycon" -> 1 - a
                    [] ~quirkedPol(a) /\ s.subtype = "right_joycon" -> a
                    [] OTHER -> 0
    IN  [quirked EXCEPT !.btns = btns, !.mask = mask, !.desc = desc,
                        !.meta = [a \in Axis |-> [@[a] EXCEPT !.pol = pol(a)]]]

SwForm(id) == IF id = \h30 THEN 2 ELSE 1

sw_pad_init(s, id) ==
    LET pro == [s.map EXCEPT !.btns = sw_pro_btns_mask[SwForm(id)]]
    IN  Calibrated([s EXCEPT !.map = SwMap(s, id, SwForm(id), mapping_quirks_apply(s.quirks, FALSE, pro))],
                   IF s.subtype \in JoyCon THEN <<1, 0, 3, 2>> ELSE <<0, 1, 2, 3>>, [i \in 1 .. 4 |-> sw_axes_meta])

(* The reports are translated with the slot as the initialisation leaves it.*)
(* The axes of a Joy-Con, held sideways, are swapped.                       *)
sw_native_to_generic(s, r) ==
    LET raw(a) == CASE s.subtype = "left_joycon" -> r.axes[IF a % 2 = 0 THEN a + 1 ELSE a - 1]
                    [] s.subtype = "right_joycon" -> r.axes[3 - a]
                    [] OTHER -> r.axes[a]
    IN  [ok |-> TRUE, s |-> s,
         ctrl |-> Ctrl(s.map, Pressed(s.map, r.btns),
                       [a \in Axis |-> IF a < 4 THEN AxisOf(raw(a) - s.map.meta[a].neutral, s.map.meta[a]) ELSE NoAxis])]

(* In HID mode the hat of a Joy-Con is its stick; the others have 16-bit    *)
(* axes, the vertical ones inverted.                                        *)
sw_hid_to_generic(s, r) ==
    LET jc == s.subtype \in JoyCon
        hat == CASE jc -> {b - 8 : b \in hat_to_ld_btns[r.hat]}
                 [] s.subtype = "admiral" -> hat_to_ld_btns[(r.hat + 15) % 16]
                 [] OTHER -> hat_to_ld_btns[r.hat]
        value(a) == (IF a % 2 = 1 THEN 4096 - (r.axes[a] \div 16) ELSE r.axes[a] \div 16) - s.map.meta[a].neutral
    IN  [ok |-> TRUE, s |-> s,
         ctrl |-> Ctrl(s.map, Pressed(s.map, r.btns) \cup hat,
                       [a \in Axis |-> IF a < 4 /\ ~jc THEN AxisOf(value(a), s.map.meta[a]) ELSE NoAxis])]

SwReady(s, id) == IF s.init THEN s ELSE sw_pad_init(s, id)

sw_to_generic(s, r) == CASE r.id = \h30 -> sw_native_to_generic(SwReady(s, r.id), r)
                         [] r.id = \h3F -> sw_hid_to_generic(SwReady(s, r.id), r)
                         [] OTHER -> Refused(s)

-----------------------------------------------------------------------------
(* Switch 2 (sw2.c): the subtype stands for the product id. *)

sw2_pro_mask == 0 .. 12 \cup 16 .. 31
sw2_pro_desc == 0 .. 7
sw2_gc_mask == 0 .. 11 \cup 16 .. 26 \cup 28 .. 30
sw2_gc_desc == 0 .. 7 \cup {24, 28}
sw2_pro_btns_mask ==
    Table({<<P.LD_LEFT, 19>>, <<P.LD_RIGHT, 18>>, <<P.LD_DOWN, 16>>, <<P.LD_UP, 17>>,
           <<P.RD_LEFT, 14>>, <<P.RB_LEFT, 0>>, <<P.RB_RIGHT, 3>>, <<P.RB_DOWN, 2>>, <<P.RB_UP, 1>>,
           <<P.MM, 9>>, <<P.MS, 8>>, <<P.MT, 12>>, <<P.MQ, 13>>, <<P.LM, 23>>, <<P.LS, 22>>,
           <<P.LT, 25>>, <<P.LJ, 11>>, <<P.RM, 7>>, <<P.RS, 6>>, <<P.RT, 24>>, <<P.RJ, 10>>})
sw2_gc_btns_mask ==
    Table({<<P.LD_LEFT, 19>>, <<P.LD_RIGHT, 18>>, <<P.LD_DOWN, 16>>, <<P.LD_UP, 17>>,
           <<P.RB_LEFT, 2>>, <<P.RB_RIGHT, 1>>, <<P.RB_DOWN, 3>>, <<P.RB_UP, 0>>, <<P.MM, 9>>,
           <<P.MS, 14>>, <<P.MT, 12>>, <<P.MQ, 13>>, <<P.LS, 23>>, <<P.LT, 22>>, <<P.RS, 7>>,
           <<P.RT, 6>>})
sw2_pro_axes_meta == Sticks4(2048, 1610, 2048, 1610)
sw2_gc_axes_meta == Sticks4(2048, 1225, 2048, 1120)

(* The tables of a Joy-Con 2 are commented out: its mapping stays as the    *)
(* quirks leave it.                                                         *)
Sw2Map(subtype, quirked) ==
    LET gc == subtype = "sw2_gc"
        meta(a) == CASE a < 4 -> [quirked.meta[a] EXCEPT !.pol = 0]
                     [] gc /\ a \in {TRIG_L, TRIG_R} -> [quirked.meta[a] EXCEPT !.neutral = 30, !.max = 195, !.min = 0]
                     [] OTHER -> quirked.meta[a]
    IN  IF subtype = "sw2_joycon" THEN quirked
        ELSE [quirked EXCEPT !.btns = IF gc THEN sw2_gc_btns_mask ELSE sw2_pro_btns_mask,
                             !.mask = IF gc THEN sw2_gc_mask ELSE sw2_pro_mask,
                             !.desc = IF gc THEN sw2_gc_desc ELSE sw2_pro_desc,
                             !.meta = [a \in Axis |-> meta(a)]]

sw2_pad_init(s) ==
    Calibrated([s EXCEPT !.map = Sw2Map(s.subtype, mapping_quirks_apply(s.quirks, FALSE, s.map))],
               <<0, 1, 2, 3>>, IF s.subtype = "sw2_gc" THEN sw2_gc_axes_meta ELSE sw2_pro_axes_meta)

Sw2Translated(s, r, n, mask, desc, btns) ==
    [ok |-> TRUE, s |-> s,
     ctrl |-> [mask |-> mask, desc |-> desc, btns |-> {b \in Btn : btns[b] \cap r.btns # {}},
               axes |-> [a \in Axis |-> IF a < n THEN AxisOf(r.axes[a] - s.map.meta[a].neutral, s.map.meta[a]) ELSE NoAxis]]]

sw2_pro_to_generic(s, r) == Sw2Translated(s, r, 4, sw2_pro_mask, sw2_pro_desc, sw2_pro_btns_mask)
sw2_gc_to_generic(s, r) == Sw2Translated(s, r, 6, sw2_gc_mask, sw2_gc_desc, sw2_gc_btns_mask)

Sw2Ready(s) == IF s.init THEN s ELSE sw2_pad_init(s)

sw2_to_generic(s, r) == CASE s.subtype \in {"sw2_pro", "sw2_joycon"} -> sw2_pro_to_generic(Sw2Ready(s), r)
                          [] s.subtype = "sw2_gc" -> sw2_gc_to_generic(Sw2Ready(s), r)
                          [] OTHER -> Refused(s)
=============================================================================
