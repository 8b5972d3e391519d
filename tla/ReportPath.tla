----------------------------- MODULE ReportPath -----------------------------
(***************************************************************************)
(* The path of an input report, from the Bluetooth host to the wired        *)
(* report: bt_host_bridge (bluetooth/host.c), the translation of the        *)
(* controller's type (WirelessPads, or HidGeneric with the reports that     *)
(* HidParser found in the descriptor), adapter_bridge (adapter/adapter.c,   *)
(* Mapping) and the Xbox report (XboxPad).                                  *)
(*                                                                         *)
(* The descriptor is parsed by bt_host_task while reports arrive in the     *)
(* task of the Bluetooth controller: a step of the parser ends where it     *)
(* stores a report that the other task can see.  A slot that was reset and  *)
(* given to another controller keeps what bt_host_reset_dev does not clear: *)
(* the stored reports and devices_meta.                                     *)
(***************************************************************************)
EXTENDS HidGeneric, WirelessPads, XboxPad

CONSTANTS Slots,        \* indexes of bt_dev, from 0
          Sessions,     \* sequences of controllers that connect in turn
          InCfg         \* entries of the input configuration of each slot

ASSUME SlotsAssumption == Slots \subseteq Nat /\ 0 \in Slots

(* Every controller of a session has a type that has reports, and a slot    *)
(* has a finite list of entries.                                            *)
PadTypes == {"hid", "ps3", "wii", "ps", "sw", "sw2"}
IsSeq(q) == q \in Seq(ToSet(q))

ASSUME PathAssumption ==
    /\ \A q \in Sessions : IsSeq(q) /\ \A c \in ToSet(q) : c.type \in PadTypes
    /\ \A s \in Slots : IsSeq(InCfg[s])

VARIABLES
    dev,        \* the controller of each slot, or NoPad
    base,       \* bt_adapter.data: mappings, pointers and flags of each slot
    reports,    \* reports of hid_parser.c
    hm,         \* devices_meta of hid_generic.c
    parser,     \* the parser's position and locals, or Idle
    data,       \* wired_adapter.data: the report of each output
    coming      \* controllers of the session that have not connected

(* What the properties need to remember.                                    *)
VARIABLES
    parsed,     \* the parser was started for the controller of the slot
    got,        \* the last report that was translated, and the ids it gave
    drives,     \* ids and axes of output 0 that the last report of each type moved
    stale,      \* a report was translated with another controller's reports
    tainted,    \* a bitfield keyboard was initialised in the slot before
    abandoned,  \* a controller changed or left while it held output 0
    over        \* a mapped value was out of the range of its output

pathVars == <<dev, base, reports, hm, parser, data, coming, parsed, got, drives, stale, tainted, abandoned, over>>
adapterVars == <<base, hm, data>>
history == <<got, drives, stale, tainted, abandoned, over>>

NoPad == [type |-> "none", subtype |-> "default", quirks |-> {}, model |-> "other", xinput |-> FALSE,
          desc |-> <<>>, calib |-> <<>>, inputs |-> {}, updates |-> {}]
Idle == [pos |-> 0, desc |-> <<>>, loc |-> Locals0]
NoInput == [means |-> {}, ids |-> {}, type |-> NONE]
Still == [t \in RType |-> [btns |-> {}, axes |-> {}]]

(* bt_adapter.data as bt_host_reset_dev leaves it. *)
Base0 == [maps |-> [t \in RType |-> Map0], init |-> {}, ptr |-> [t \in RType |-> Null],
          rid |-> 0, cnt |-> 0, cal |-> [a \in Axis |-> 0], subtype |-> "default", mode |-> 0]

PathInit ==
    /\ dev = [s \in Slots |-> NoPad]
    /\ base = [s \in Slots |-> Base0]
    /\ reports = [s \in Slots |-> <<>>]
    /\ hm = [s \in Slots |-> [t \in RType |-> [btn |-> NONE, hat |-> NONE, bitfield |-> FALSE]]]
    /\ parser = [s \in Slots |-> Idle]
    /\ data = [s \in Slots |-> xbox_init_buffer]
    /\ coming \in Sessions
    /\ parsed = {}
    /\ got = [s \in Slots |-> NoInput]
    /\ drives = [s \in Slots |-> Still]
    /\ stale = {}
    /\ tainted = {}
    /\ abandoned = FALSE
    /\ over = FALSE

(* A controller gets the first free slot, and its type from its name. *)
Connect ==
    LET s == Min({x \in Slots : dev[x] = NoPad})
    IN  /\ \E x \in Slots : dev[x] = NoPad
        /\ coming # <<>>
        /\ coming' = Tail(coming)
        /\ dev' = [dev EXCEPT ![s] = Head(coming)]
        /\ base' = [base EXCEPT ![s].subtype = Head(coming).subtype]
        /\ UNCHANGED <<reports, hm, parser, data, parsed, history>>

-----------------------------------------------------------------------------
(* hid_parser, run by bt_host_task once the descriptor of a controller is   *)
(* complete; one descriptor at a time.                                      *)

ParseStart(s) ==
    /\ dev[s].desc # <<>> /\ s \notin parsed
    /\ \A x \in Slots : parser[x] = Idle
    /\ parsed' = parsed \cup {s}
    /\ reports' = [reports EXCEPT ![s] = <<>>]
    /\ base' = [base EXCEPT ![s].ptr = FreedPtr(@)]
    /\ parser' = [parser EXCEPT ![s] = [pos |-> 1, desc |-> dev[s].desc, loc |-> Locals0]]
    /\ UNCHANGED <<dev, hm, data, coming, history>>

(* Position of the next item that ends a step: a REPORT_ID or an unknown    *)
(* marker, else the end.                                                    *)
StepEnd(p) == Min({Len(p.desc) + 1} \cup {i \in p.pos .. Len(p.desc) : p.desc[i].op \in {"id", "bad"}})

Stored(s, new) ==
    /\ reports' = [reports EXCEPT ![s] = @ \o new]
    /\ base' = [base EXCEPT ![s].ptr = FirstOut(@, reports[s] \o new, Len(reports[s]))]

(* The parser goes on when the slot is reset: its type, and whether a report*)
(* is patched, are then those of whoever has the slot.                      *)
ParseReportId(s) ==
    LET p == parser[s]
        end == StepEnd(p)
        loc == FoldLeft(Item, p.loc, SubSeq(p.desc, p.pos, end - 1))
    IN  /\ p # Idle /\ end <= Len(p.desc) /\ p.desc[end].op = "id"
        /\ Stored(s, IF loc.id = 0 THEN <<>> ELSE CompleteReports(dev[s].model, loc))
        /\ parser' = [parser EXCEPT ![s].pos = end + 1, ![s].loc = NewReport(loc, p.desc[end].arg)]
        /\ UNCHANGED <<dev, hm, data, coming, parsed, history>>

(* An unknown marker: the parser returns at once. *)
ParseUnknown(s) ==
    LET p == parser[s]
    IN  /\ p # Idle /\ StepEnd(p) <= Len(p.desc) /\ p.desc[StepEnd(p)].op = "bad"
        /\ parser' = [parser EXCEPT ![s] = Idle]
        /\ UNCHANGED <<dev, base, reports, hm, data, coming, parsed, history>>

(* The end: without REPORT_ID the one report has id 1; a controller with a  *)
(* driver of its own does not keep its reports.                             *)
ParseEnd(s) ==
    LET p == parser[s]
        loc == FoldLeft(Item, p.loc, SubSeq(p.desc, p.pos, Len(p.desc)))
        last == IF reports[s] = <<>> /\ loc.id = 0 THEN [loc EXCEPT !.id = 1] ELSE loc
        new == IF last.id = 0 THEN <<>> ELSE CompleteReports(dev[s].model, last)
    IN  /\ p # Idle /\ StepEnd(p) > Len(p.desc)
        /\ parser' = [parser EXCEPT ![s] = Idle]
        /\ IF dev[s].type \in {"none", "hid"} THEN Stored(s, new)
           ELSE /\ reports' = [reports EXCEPT ![s] = <<>>]
                /\ base' = [base EXCEPT ![s].ptr = FreedPtr(FirstOut(@, reports[s] \o new, Len(reports[s])))]
        /\ UNCHANGED <<dev, hm, data, coming, parsed, history>>

-----------------------------------------------------------------------------
(* Translation of a report of a generic controller: [ok, base, hm, usages,  *)
(* ctrl].  The first report of a type loads the pointer, builds the mapping *)
(* and, for a pad, applies the quirks.                                      *)

Loaded(s, b, t, r) == IF t \in b.init THEN b.ptr ELSE hid_parser_load_report(b.ptr, reports[s], r.id)

(* The first report: what the table, the mapping and the report become *)
HidBegun(s, t, m, report) ==
    LET kept(x) == [hm |-> x.hm, map |-> x.map, usages |-> report.usages]
        quirked(x) == [x EXCEPT !.map = mapping_quirks_apply(dev[s].quirks, dev[s].xinput, @)]
    IN  CASE t = KB -> kept(hid_kb_init(hm[s][t], report, m))
          [] t = MOUSE -> kept(hid_mouse_init(hm[s][t], report, m))
          [] t = PAD -> quirked(hid_pad_init(hm[s][t], report, m))
          [] OTHER -> [hm |-> hm[s][t], map |-> m, usages |-> report.usages]

HidTranslated(b, t, ptr, r, x) ==
    [base |-> [b EXCEPT !.ptr = ptr, !.init = @ \cup {t}, !.maps[t] = x.map],
     hm |-> x.hm, at |-> ptr[t], usages |-> x.usages,
     ctrl |-> CASE t = KB -> hid_kb_to_generic(x.hm, x.usages, x.map, r.bits)
                [] t = MOUSE -> hid_mouse_to_generic(x.hm, x.usages, x.map, r.bits)
                [] t = PAD -> hid_pad_to_generic(x.hm, x.usages, x.map, b.cal, r.bits)]

hid_to_generic(s, b, t, r) ==
    LET ptr == Loaded(s, b, t, r)
        report == reports[s][ptr[t]]
    IN  HidTranslated(b, t, ptr, r,
                      IF t \in b.init THEN [hm |-> hm[s][t], map |-> b.maps[t], usages |-> report.usages]
                      ELSE HidBegun(s, t, b.maps[t], report))

(* What the translation x of a driver leaves in the slot *)
Taken(b, x) ==
    [ok |-> x.ok, ctrl |-> x.ctrl,
     base |-> [b EXCEPT !.maps[PAD] = x.s.map, !.cal = x.s.cal, !.subtype = x.s.subtype, !.cnt = x.s.cnt,
                        !.init = IF x.s.init THEN @ \cup {PAD} ELSE @ \ {PAD}]]

(* The drivers see the part of the slot that they use. *)
wireless_to_generic(s, b, r) ==
    LET view == [map |-> b.maps[PAD], cal |-> b.cal, init |-> PAD \in b.init, subtype |-> b.subtype, cnt |-> b.cnt,
                 calib |-> dev[s].calib, quirks |-> dev[s].quirks]
    IN  Taken(b, CASE dev[s].type = "ps3" -> ps3_to_generic(view, r)
                        [] dev[s].type = "wii" -> wii_to_generic(view, r)
                        [] dev[s].type = "ps" -> ps_to_generic(view, r)
                        [] dev[s].type = "sw" -> sw_to_generic(view, r)
                        [] dev[s].type = "sw2" -> sw2_to_generic(view, r))

(* The metas of the axes are those of the mapping: what the mapping learned *)
(* of their range stays.                                                    *)
Learned(b, t, ctrl) ==
    [b EXCEPT !.maps[t].meta = [a \in Axis |-> IF ctrl.axes[a].set THEN ctrl.axes[a].meta ELSE @[a]]]

Counted(b) == [b EXCEPT !.cnt = IF @ > 1 THEN @ ELSE @ + 1]

(* adapter_bridge, from the generic input on. *)
adapter_bridge(s, b, t, r, ctrl) ==
    \E m \in {adapter_mapping(InCfg[s], ctrl, xbox_meta_init(Slots))} :
        /\ base' = [base EXCEPT ![s] = Counted(Learned(b, t, m.in))]
        /\ data' = [o \in Slots |-> IF o \in m.mask THEN xbox_from_generic(o, m.outs[o], data[o]) ELSE data[o]]
        /\ got' = [got EXCEPT ![s] = [means |-> r.means, ids |-> ctrl.btns, type |-> t]]
        /\ LET out == m.outs[0] IN
           /\ drives' = [drives EXCEPT ![s][t] = [btns |-> out.btns, axes |-> {a \in Axis : out.value[a] # 0}]]
           /\ over' = (over \/ \E a \in Axis : \/ out.value[a] > xbox_axes_meta[a].max
                                               \/ out.value[a] < -xbox_axes_meta[a].min)

(* bt_host_bridge for a generic controller. *)
GenericReport(s, r) ==
    LET i == hid_parser_get_report(reports[s], r.id)
        t == reports[s][i].type
        b == IF r.id = base[s].rid THEN base[s] ELSE [base[s] EXCEPT !.init = @ \ {t}]
    IN  /\ dev[s].type = "hid" /\ r \in dev[s].inputs
        /\ i # Null /\ t # NONE
        /\ IF t \in b.init \/ b.cnt > 1
           THEN IF t = RUMBLE
                THEN /\ base' = [base EXCEPT ![s] = Counted([b EXCEPT !.rid = r.id])]
                     /\ UNCHANGED <<reports, hm, data, history>>
                ELSE /\ Loaded(s, b, t, r)[t] # Dangling       \* what a freed report holds is unknown
                     /\ \E x \in {hid_to_generic(s, [b EXCEPT !.rid = r.id], t, r)} :
                           /\ adapter_bridge(s, x.base, t, r, x.ctrl)
                           /\ hm' = [hm EXCEPT ![s][t] = x.hm]
                           /\ reports' = [reports EXCEPT ![s][x.at].usages = x.usages]
                     /\ stale' = IF s \in parsed THEN stale ELSE stale \cup {s}
                     /\ tainted' = IF t = KB /\ hm[s][KB].bitfield THEN tainted \cup {s} ELSE tainted
                     /\ UNCHANGED abandoned
           ELSE /\ base' = [base EXCEPT ![s] = Counted(b)]
                /\ UNCHANGED <<reports, hm, data, history>>
        /\ UNCHANGED <<dev, parser, coming, parsed>>

(* The types of the reports of a PlayStation or Switch controller: the      *)
(* driver updates the type when another one arrives.                        *)
Retyped(s, b, r) ==
    IF dev[s].type \notin {"ps", "sw"} \/ r.id = b.mode THEN b
    ELSE [b EXCEPT !.mode = r.id, !.cnt = 0, !.init = {},
                   !.subtype = IF dev[s].type = "sw" THEN @ ELSE IF r.id = \h31 THEN "ps5" ELSE "default"]

(* bt_host_bridge for the others: one type of report. *)
DriverReport(s, r) ==
    LET old == Retyped(s, base[s], r)
        b == [old EXCEPT !.rid = r.id]
        ready == PAD \in old.init \/ old.cnt > 1
        drops(left) == base' = [base EXCEPT ![s] = Counted(left)] /\ UNCHANGED <<data, got, drives, over>>
    IN  /\ dev[s].type \notin {"none", "hid"} /\ r \in dev[s].inputs
        /\ base[s].subtype \in r.from
        /\ IF ready THEN \E x \in {wireless_to_generic(s, b, r)} :
                            IF x.ok THEN adapter_bridge(s, x.base, PAD, r, x.ctrl) ELSE drops(x.base)
           ELSE drops(old)
        /\ UNCHANGED <<dev, reports, hm, parser, coming, parsed, stale, tainted, abandoned>>

(* bt_type_update: an extension was plugged or unplugged, or the controller *)
(* changed the format of its reports.                                       *)
bt_type_update(s, subtype) ==
    /\ subtype \in dev[s].updates
    /\ base' = [base EXCEPT ![s].subtype = subtype, ![s].cnt = 0, ![s].init = {}]
    /\ abandoned' = (abandoned \/ (drives[s] # Still /\ subtype # base[s].subtype))
    /\ got' = [got EXCEPT ![s] = NoInput]
    /\ UNCHANGED <<dev, reports, hm, parser, data, coming, parsed, drives, stale, tainted, over>>

(* Mutant: the reset leaves the flags and the pointers of the slot. *)
ResetKeepsFlags(s) ==
    /\ data' = [data EXCEPT ![s] = xbox_init_buffer]
    /\ base' = [base EXCEPT ![s] = [Base0 EXCEPT !.init = base[s].init, !.ptr = base[s].ptr, !.rid = base[s].rid]]

(* bt_host_reset_dev: the output with the index of the slot, the mappings,  *)
(* the pointers and the flags.                                              *)
bt_host_reset_dev(s) ==
    /\ data' = [data EXCEPT ![s] = xbox_init_buffer]
    /\ base' = [base EXCEPT ![s] = Base0]

Disconnect(s) ==
    /\ dev[s] # NoPad
    /\ bt_host_reset_dev(s)
    /\ dev' = [dev EXCEPT ![s] = NoPad]
    /\ parsed' = parsed \ {s}
    /\ stale' = stale \ {s}
    /\ got' = [got EXCEPT ![s] = NoInput]
    /\ drives' = [drives EXCEPT ![s] = Still]
    /\ tainted' = IF hm[s][KB].bitfield THEN tainted \cup {s} ELSE tainted
    /\ abandoned' = (s # 0 /\ (abandoned \/ drives[s] # Still))
    /\ UNCHANGED <<reports, hm, parser, coming, over>>

PathNext ==
    \/ Connect
    \/ \E s \in Slots :
        \/ ParseStart(s)
        \/ ParseReportId(s)
        \/ ParseUnknown(s)
        \/ ParseEnd(s)
        \/ \E r \in dev[s].inputs : GenericReport(s, r) \/ DriverReport(s, r)
        \/ \E x \in dev[s].updates : bt_type_update(s, x)
        \/ Disconnect(s)

PathSpec == PathInit /\ [][PathNext]_pathVars

-----------------------------------------------------------------------------
(* Properties. *)

(* hid_parser.c:373: while a type of report is initialised, the report it   *)
(* was initialised from is still allocated, unless a report was translated  *)
(* with the descriptor of the previous controller of the slot, before the   *)
(* one of this controller was parsed (host.c:749).                          *)
PtrLive ==
    \A s \in Slots : dev[s].type = "hid" /\ s \notin stale =>
        \A t \in base[s].init : base[s].ptr[t] \in DOMAIN reports[s]

(* adapter_map_from_axis reads the meta of every axis that has a direction  *)
(* in desc: the report sets it, of a pad whose axes are all in one report.  *)
MetaPresent ==
    \A s \in Slots : dev[s].type = "hid" /\ PAD \in base[s].init =>
        \A d \in base[s].maps[PAD].desc : base[s].maps[PAD].idx[btn_id_to_axis(d)] # NONE

(* What a report is decoded with is there: the stored report and the meta of*)
(* every axis it has.                                                       *)
DecodeSafe == PtrLive /\ MetaPresent

(* The buttons and keys a report gives are those the user holds: whatever   *)
(* was parsed, initialised or connected before.  Exceptions: a descriptor   *)
(* that is not that of the controller, and a keyboard in a slot where a     *)
(* keyboard sent its keys as bits (kb_bitfield is never cleared).           *)
Faithful ==
    \A s \in Slots \ stale : got[s].ids = got[s].means \/ (got[s].type = KB /\ s \in tainted)

(* Nothing is pressed or deflected on the console that no controller moved  *)
(* with its last report, in particular after it left.  Exceptions: a        *)
(* controller of another slot that left while it held something (only the   *)
(* buffer with its own index is cleared), and a change of type.             *)
NoStuck ==
    abandoned \/ /\ data[0].btns \subseteq UNION {drives[s][t].btns : s \in Slots, t \in RType}
                 /\ {a \in Axis : data[0].axes[a] # 0} \subseteq UNION {drives[s][t].axes : s \in Slots, t \in RType}

(* Scaling with a range that grows with what was observed never leaves the  *)
(* range of the output: full deflection is full deflection.                 *)
InRange == ~over
=============================================================================
