---------------------------- MODULE MCReportPath ----------------------------
(***************************************************************************)
(* Controllers for ReportPath: descriptors of the usual forms, and for each *)
(* a report at rest and one with buttons held, with the generic ids that    *)
(* the held buttons stand for, as the mapping documents them.                   *)
(***************************************************************************)
EXTENDS ReportPath

(* Items. *)
U(v) == [op |-> "usage", wide |-> v > 255, arg |-> v]
S(field, v) == [op |-> "set", field |-> field, arg |-> v]
Page(v) == S("page", v)
Many(size, cnt) == <<S("size", size), S("cnt", cnt)>>
In(relative) == [op |-> "main", tag |-> HidIn, const |-> FALSE, relative |-> relative]
Pad == [op |-> "main", tag |-> HidIn, const |-> TRUE, relative |-> FALSE]
Out == [op |-> "main", tag |-> HidOut, const |-> FALSE, relative |-> FALSE]
Id(v) == [op |-> "id", arg |-> v]
Bad == [op |-> "bad"]
Skip == [op |-> "skip"]

Bits(off, v) == {off + i : i \in {j \in 0 .. 15 : (v \div 2^j) % 2 = 1}}
Fields(vs, size) == UNION {Bits(size * (i - 1), vs[i]) : i \in DOMAIN vs}

AxesItems(usages) ==
    <<Page(Desktop), U(4), Skip, S("min", 0), S("max", 255)>> \o Many(8, Len(usages))
    \o [i \in 1 .. Len(usages) |-> U(usages[i])] \o <<In(FALSE)>>
HatItems == <<S("max", 7)>> \o Many(4, 1) \o <<U(\h39), In(FALSE)>>
BtnItems(n) == <<Page(Button), U(1), S("umax", n), S("max", 1)>> \o Many(1, n) \o <<In(FALSE)>>
PadItems(n) == Many(1, n) \o <<Pad>>
KeyItems(n) == <<Page(Keyboard), U(\hE0), S("umax", \hE7), S("max", 1)>> \o Many(1, 8) \o <<In(FALSE)>> \o PadItems(8)
MouseItems == <<Page(Button), U(1), S("umax", 3), S("min", 0), S("max", 1)>> \o Many(1, 3) \o <<In(FALSE)>> \o PadItems(5)
              \o <<Page(Desktop), U(\h30), U(\h31), S("min", -127), S("max", 127)>> \o Many(8, 2) \o <<In(TRUE)>>

Generic(desc, inputs) == [NoPad EXCEPT !.type = "hid", !.desc = desc, !.inputs = inputs]
In0(id, bits, means) == [id |-> id, bits |-> bits, means |-> means]

(* Four axes, a hat and ten buttons; then one button of the consumer page.  *)
pad == Generic(AxesItems(<<\h30, \h31, \h32, \h35>>) \o HatItems \o BtnItems(10)
               \o <<Page(Consumer), U(\h224)>> \o Many(1, 1) \o <<In(FALSE)>> \o PadItems(1),
    {In0(1, Fields(<<128, 128, 128, 128>>, 8) \cup Bits(32, 8), {}),
     In0(1, Fields(<<255, 0, 128, 128>>, 8) \cup Bits(32, 3) \cup {36, 45, 46},
         {P.LD_DOWN, P.LD_RIGHT, P.RB_DOWN, P.RM, P.MS})})

(* A boot keyboard and a mouse in one device. *)
combo == Generic(<<Id(1)>> \o KeyItems(8) \o <<U(0)>> \o Many(8, 6) \o <<In(FALSE), Id(2)>> \o MouseItems,
    {In0(1, {}, {}), In0(1, {1} \cup Bits(16, 4) \cup Bits(24, 40), {P.RT, 0, 21}),
     In0(2, {0} \cup Bits(8, 127), {P.RM})})

(* Keys as bits, from usage 4 on. *)
nkro == Generic(KeyItems(8) \o <<U(4), S("umax", 43)>> \o Many(1, 40) \o <<In(FALSE)>>,
    {In0(1, {}, {}), In0(1, {0, 16, 52}, {P.LT, 0, 21})})

(* The order of an XInput pad, with six face buttons on the triggers. *)
six == [Generic(<<Id(3)>> \o AxesItems(<<\h30, \h31, \h33, \h34, \h32, \h35>>) \o HatItems \o PadItems(4) \o BtnItems(10),
    {In0(3, Fields(<<128, 128, 128, 128, 0, 0>>, 8) \cup Bits(48, 8), {}),
     In0(3, Fields(<<128, 128, 128, 0, 255, 0>>, 8) \cup Bits(48, 8) \cup {56, 59}, {P.RB_LEFT, P.RB_UP})})
    EXCEPT !.quirks = {"to_6buttons"}]

(* A report for the motors, and an unknown marker at the end. *)
vcs == [Generic(<<Id(1)>> \o AxesItems(<<\h30, \h31>>) \o BtnItems(4) \o PadItems(4)
                \o <<Page(Pid), U(\h97)>> \o Many(8, 4) \o <<Out, Id(2)>> \o BtnItems(8) \o <<Bad>>,
    {In0(1, Fields(<<128, 128>>, 8), {}), In0(1, Fields(<<128, 0>>, 8) \cup {17}, {P.RB_RIGHT})})
    EXCEPT !.model = "vcs_classic"]

Driver(type, subtype, inputs) ==
    [NoPad EXCEPT !.type = type, !.subtype = subtype, !.inputs = inputs]
Centre(v) == [a \in Axis |-> IF a < 4 THEN v ELSE 0]
Always == {"default", "ps5", "nunchuck", "left_joycon", "sw2_gc", "classic", "classic_8bit"}
Rep(id, btns, core, hat, axes, wide, from, means) ==
    [id |-> id, btns |-> btns, core |-> core, hat |-> hat, axes |-> axes, wide |-> wide, from |-> from, means |-> means]

(* A DualShock 4: the report of every HID pad, then its own. *)
ps4 == [Driver("ps", "default",
    {Rep(\h01, {}, {}, 8, Centre(130), FALSE, Always, {}),
     Rep(\h11, {5, 12}, {}, 8, [Centre(128) EXCEPT ![LX] = 0], FALSE, Always, {P.RB_DOWN, P.MS}),
     Rep(\h31, {16}, {}, 2, Centre(126), FALSE, Always, {P.MT, P.LD_RIGHT})})
    EXCEPT !.desc = AxesItems(<<\h30, \h31>>)]

(* A Wiimote, with and without a Nunchuk. *)
wii == [Driver("wii", "default",
    {Rep(\h37, {}, {11}, 0, Centre(128), FALSE, {"default"}, {P.RB_UP}),
     Rep(\h37, {0, 1}, {}, 0, [Centre(128) EXCEPT ![LY] = 250], FALSE, {"nunchuck"}, {}),
     Rep(\h37, {1}, {11}, 0, Centre(128), FALSE, {"nunchuck"}, {P.LM, P.RB_DOWN})})
    EXCEPT !.updates = {"default", "nunchuck"}]

(* A Classic Controller that ignores the request for the 8-bit format. *)
AllBits == 0 .. 31
classic == Driver("wii", "classic_8bit",
    {Rep(\h37, AllBits \ {14}, {}, 0, [Centre(32) EXCEPT ![RX] = 16, ![RY] = 31], FALSE, {"classic_8bit", "classic"}, {P.RB_DOWN}),
     Rep(\h37, AllBits, {}, 0, [Centre(32) EXCEPT ![RX] = 16, ![RY] = 16], FALSE, {"classic_8bit", "classic"}, {})})

(* A left Joy-Con: HID reports until the native ones are enabled. *)
jc == [Driver("sw", "left_joycon",
    {Rep(\h3F, {0}, {}, 2, Centre(32768), FALSE, Always, {P.RB_DOWN, P.LX_RIGHT}),
     Rep(\h30, {27}, {}, 0, [Centre(2048) EXCEPT ![LY] = 3700], FALSE, Always, {P.RB_DOWN})})
    EXCEPT !.calib = <<Stick(2100, 1500, 0), Stick(0, 1, 0), Stick(0, 1, 0), Stick(0, 1, 0)>>]

(* A GameCube controller of the Switch 2. *)
gc2 == Driver("sw2", "sw2_gc",
    {Rep(5, {3}, {}, 0, [Centre(2048) EXCEPT ![TRIG_L] = 240, ![TRIG_R] = 30], FALSE, Always, {P.RB_DOWN}),
     Rep(5, {}, {}, 0, [Centre(2048) EXCEPT ![TRIG_L] = 30, ![TRIG_R] = 30], FALSE, Always, {})})

ps3 == Driver("ps3", "default",
    {Rep(1, {}, {}, 0, Centre(128), FALSE, Always, {}),
     Rep(1, {14}, {}, 0, [Centre(128) EXCEPT ![10] = 255], FALSE, Always, {P.LD_DOWN})})

(* Two controllers at a time, in both slots or one after the other. *)
MCSessions == {<<pad, combo>>, <<combo, pad>>, <<nkro, combo>>, <<six, pad>>, <<pad, six>>, <<vcs, nkro>>, <<combo, combo>>,
               <<ps4, pad>>, <<wii, pad>>, <<classic, wii>>, <<jc, gc2>>, <<gc2, ps3>>, <<ps3, vcs>>}

(* config_init_mapping_bank: a button maps to itself on the first output,   *)
(* and MQ to the combination that leaves a game.                            *)
Entry(src, dst) == [src |-> src, dst |-> dst, id |-> 0, max |-> 100, thr |-> 50, dz |-> 135, algo |-> "linear"]
MCInCfg == [s \in Slots |-> [i \in 1 .. 32 |-> Entry(i - 1, i - 1)]
                            \o <<Entry(P.MQ, P.LM), Entry(P.MQ, P.RM), Entry(P.MQ, P.MM), Entry(P.MQ, P.MS)>>]
=============================================================================
