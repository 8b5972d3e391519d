----------------------------- MODULE HidParser -----------------------------
(***************************************************************************)
(* The HID report descriptor parser (adapter/hid_parser.c) as operators on  *)
(* the locals of hid_parser.  A descriptor is a sequence of items           *)
(* [op, arg]; the items the parser only steps over (physical limits, units, *)
(* collections, delimiters) are "skip".  ReportPath takes one item a step.  *)
(*                                                                         *)
(* Bounds kept by the descriptors of a model, which the code does not check:*)
(* at most MaxReport reports, fragments that end within MaxUsage usages,    *)
(* and no more than MaxUsage fields in an item with several usages.         *)
(***************************************************************************)
EXTENDS Integers, Sequences, FiniteSets, SequencesExt, FiniteSetsExt

MaxUsage == 24      \* REPORT_MAX_USAGE
MaxReport == 10     \* HID_MAX_REPORT
StackMax == 4       \* HID_STACK_MAX

Desktop == 1        \* usage pages
Sims == 2
Keyboard == 7
Button == 9
Consumer == 12
Pid == 15

HidIn == 0          \* HID_IN, HID_OUT
HidOut == 1
Tag == {HidIn, HidOut}

NONE == -1          \* REPORT_NONE and the report types
KB == 0
MOUSE == 1
PAD == 2
RUMBLE == 3
RType == {KB, MOUSE, PAD, RUMBLE}

(* Usages that name a collection, and are not put in usage_list. *)
hid_usage_is_collection(page, usage) ==
    usage \in CASE page = 1 -> {1, 2, \h3A, \h80} \cup 4 .. 9
                [] page = 2 -> 1 .. \h0C \cup \h20 .. \h25
                [] page = 3 -> 1 .. \h0A
                [] page = 4 -> 1 .. 4 \cup {\h38}
                [] page = 5 -> 1 .. 3 \cup {\h20, \h32, \h37, \h39}
                [] page = 12 -> 1 .. 6 \cup {\h36, \h80, \h87, \hBA, \hF1}
                [] page = 15 -> {1, \h21, \h25, \h5F, \h66, \h68, \h6B, \h6E, \h73, \h74, \h77, \h78, \h7D,
                                 \h7F, \h85, \h89, \h8B, \h95, \h96, \hA8, \hAB}
                                \cup \h57 .. \h5A \cup \h90 .. \h92
                [] OTHER -> {}

(* Usages that get a field of the report. *)
hid_usage_is_used(page, usage) ==
    \/ page = Desktop /\ usage \in \h30 .. \h39 \cup {\h85}
    \/ page = Sims /\ usage \in {\hC4, \hC5}
    \/ page = Keyboard
    \/ page = Button /\ usage <= 20
    \/ page = Consumer /\ usage \in {\h40, \hB2, \h223, \h224}
    \/ page = Pid /\ usage \in {\h50, \h97, \h70, \h7C, \hA7}

(* What one usage says of the type of its report, and whether that settles  *)
(* it.                                                                      *)
Hint(u) ==
    CASE u.page = Desktop /\ u.usage \in {\h30, \h31} -> [type |-> IF u.relative THEN MOUSE ELSE PAD, last |-> TRUE]
      [] u.page = Desktop /\ u.usage = \h39 -> [type |-> PAD, last |-> TRUE]
      [] u.page = Desktop /\ u.usage = \h85 -> [type |-> MOUSE, last |-> TRUE]
      [] u.page = Keyboard -> [type |-> KB, last |-> FALSE]
      [] u.page = Button -> [type |-> PAD, last |-> FALSE]
      [] u.page = Pid /\ u.usage \in \h95 .. \h9C \cup {\h50, \h70, \h7C, \hA7} -> [type |-> RUMBLE, last |-> TRUE]
      [] OTHER -> [type |-> NONE, last |-> FALSE]

(* The first settling usage decides, else the last one that has an opinion. *)
(* The search stops at a usage of page 0.                                   *)
hid_report_fingerprint(usages) ==
    LET I == {i \in DOMAIN usages : \A j \in 1 .. i : usages[j].page # 0}
        settling == {i \in I : Hint(usages[i]).last}
        opinions == {i \in I : Hint(usages[i]).type # NONE}
    IN  CASE settling # {} -> Hint(usages[Min(settling)]).type
          [] settling = {} /\ opinions # {} -> Hint(usages[Max(opinions)]).type
          [] OTHER -> NONE

(* The rumble report of the Atari VCS controllers is described wrongly. *)
hid_patch_report(model, r) ==
    IF model \in {"vcs_classic", "vcs_modern"} /\ r.id = 1 /\ r.tag = HidOut
    THEN [r EXCEPT !.usages =
            [i \in 1 .. IF model = "vcs_classic" THEN 4 ELSE 8 |->
                [page |-> Pid, usage |-> <<\h70, \h50, \hA7, \h7C>>[((i - 1) % 4) + 1], umax |-> 0, relative |-> FALSE,
                 off |-> 8 * (i - 1), size |-> 8, min |-> 0, max |-> 255]]]
    ELSE r

hid_process_report(model, r) ==
    LET p == hid_patch_report(model, r)
    IN  [p EXCEPT !.type = hid_report_fingerprint(p.usages)]

-----------------------------------------------------------------------------
(* The locals of hid_parser, at its start. *)

Element0 == [size |-> 0, cnt |-> 0, min |-> 0, max |-> 0, page |-> 0, umax |-> 0]

Locals0 == [stack |-> <<Element0>>,                         \* hid_stack
            n |-> 0, list |-> [i \in 0 .. MaxUsage - 1 |-> 0], \* usage_idx, usage_list
            id |-> 0,                                       \* report_id
            off |-> [t \in Tag |-> 0],                      \* report_bit_offset
            usages |-> [t \in Tag |-> <<>>]]                \* wip_report[t]->usages

Top(p) == p.stack[Len(p.stack)]
SetTop(p, e) == [p EXCEPT !.stack[Len(p.stack)] = e]

(* Items that set a field of the top of the stack. *)
Global(p, field, v) == SetTop(p, [Top(p) EXCEPT ![field] = v])

(* USAGE and USAGE_MIN, of 8 bits and of 16 bits. *)
Usage(p, wide, v) ==
    IF (~wide /\ hid_usage_is_collection(Top(p).page, v)) \/ p.n = MaxUsage THEN p
    ELSE [p EXCEPT !.list[p.n] = v, !.n = @ + 1]

Push(p) == IF Len(p.stack) < StackMax THEN [p EXCEPT !.stack = Append(@, Top(p))] ELSE p
Pop(p) == IF Len(p.stack) > 1 THEN [p EXCEPT !.stack = Front(@)] ELSE p
Feature(p) == [p EXCEPT !.n = 0]

(* bitfield_merge: one usage for a run of single bits. *)
Merged(p) == p.n = 1 /\ Top(p).size = 1 /\ Top(p).cnt > 1

Field(p, relative, usage, off, size) ==
    [page |-> Top(p).page, usage |-> usage, umax |-> Top(p).umax, relative |-> relative,
     off |-> off, size |-> size, min |-> Top(p).min, max |-> Top(p).max]

(* Mutant: every fragment starts where the item does. *)
FragmentsOverlap(p, relative, off) ==
    LET cnt == Top(p).cnt
        frags == (cnt + 31) \div 32
        size(j) == IF frags = 1 THEN cnt ELSE IF j = frags THEN cnt % 32 ELSE 32
    IN  [j \in 1 .. frags |-> Field(p, relative, p.list[0] + 32 * (j - 1), off, size(j))]

(* A merged bitfield in fragments of 32 bits.  The last one has cnt % 32:   *)
(* none when cnt is a multiple of 32 above 32.                              *)
Fragments(p, relative, off) ==
    LET cnt == Top(p).cnt
        frags == (cnt + 31) \div 32
        size(j) == IF frags = 1 THEN cnt ELSE IF j = frags THEN cnt % 32 ELSE 32
    IN  [j \in 1 .. frags |-> Field(p, relative, p.list[0] + 32 * (j - 1), off + 32 * (j - 1), size(j))]

(* A field for each value of the item. *)
Plain(p, relative, off) ==
    LET usage(i) == IF p.n = 1 THEN p.list[0] ELSE p.list[i]
    IN  [i \in 1 .. Top(p).cnt |-> Field(p, relative, usage(i - 1), off + (i - 1) * Top(p).size, Top(p).size)]

(* INPUT and OUTPUT. *)
Main(p, t, const, relative) ==
    LET takes == ~const /\ Top(p).page # \hFF /\ p.list[0] # \hFF /\ Len(p.usages[t]) < MaxUsage
        used(u) == hid_usage_is_used(u.page, u.usage)
        fields == CASE ~takes -> <<>>
                    [] takes /\ Merged(p) -> IF hid_usage_is_used(Top(p).page, p.list[0])
                                             THEN Fragments(p, relative, p.off[t]) ELSE <<>>
                    [] OTHER -> SelectSeq(Plain(p, relative, p.off[t]), used)
    IN  [p EXCEPT !.usages[t] = @ \o fields,
                  !.off[t] = @ + Top(p).size * Top(p).cnt,
                  !.n = 0,
                  !.list = [i \in 0 .. MaxUsage - 1 |-> \hFFFF]]

(* The reports that are complete at a REPORT_ID item or at the end: those   *)
(* with a length, the input report first.                                   *)
CompleteReports(model, p) ==
    LET report(t) == [id |-> p.id, tag |-> t, len |-> (p.off[t] + 7) \div 8, type |-> NONE, usages |-> p.usages[t]]
        some(t) == IF p.off[t] = 0 THEN <<>> ELSE <<hid_process_report(model, report(t))>>
    IN  some(HidIn) \o some(HidOut)

NewReport(p, id) ==
    [p EXCEPT !.id = id, !.off = [t \in Tag |-> 0], !.usages = [t \in Tag |-> <<>>]]

(* One item other than REPORT_ID and an unknown marker. *)
Item(p, it) ==
    CASE it.op = "usage" -> Usage(p, it.wide, it.arg)
      [] it.op = "set" -> Global(p, it.field, it.arg)
      [] it.op = "main" -> Main(p, it.tag, it.const, it.relative)
      [] it.op = "push" -> Push(p)
      [] it.op = "pop" -> Pop(p)
      [] it.op = "feature" -> Feature(p)
      [] it.op = "skip" -> p

-----------------------------------------------------------------------------
(* bt_data->reports: pointers to stored reports. *)

Null == 0
Dangling == -1      \* points to a report that was freed

(* hid_process_report keeps the first output report of each type. *)
FirstOut(ptr, reports, base) ==
    [t \in RType |->
        LET found == {i \in DOMAIN reports : i > base /\ reports[i].tag = HidOut /\ reports[i].type = t}
        IN  IF ptr[t] = Null /\ found # {} THEN Min(found) ELSE ptr[t]]

(* hid_parser_get_report: the index of the input report with that id.  All  *)
(* stored reports have a length.                                            *)
Inputs(reports, id) == {i \in DOMAIN reports : reports[i].id = id /\ reports[i].tag = HidIn}
hid_parser_get_report(reports, id) == IF Inputs(reports, id) = {} THEN Null ELSE Min(Inputs(reports, id))

(* hid_parser_load_report: the last one of each type. *)
hid_parser_load_report(ptr, reports, id) ==
    [t \in RType |->
        LET found == {i \in Inputs(reports, id) : reports[i].type = t}
        IN  IF found # {} THEN Max(found) ELSE ptr[t]]

(* hid_parser_free_reports, and the start of hid_parser: what pointed to a  *)
(* report points to freed memory.                                           *)
FreedPtr(ptr) == [t \in RType |-> IF ptr[t] = Null THEN Null ELSE Dangling]
=============================================================================
