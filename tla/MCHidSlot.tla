------------------------------ MODULE MCHidSlot ------------------------------
(* Controllers for HidSlot.  The lengths of names and maps are chosen around *)
(* the MTU: a name that ends with its first response, one longer than        *)
(* device_name, maps of whole and of broken responses.                       *)
EXTENDS HidSlot

Known(len, type, sub) == [len |-> len, type |-> type, sub |-> sub]

Service(start, end, uuid, wide) == [start |-> start, end |-> end, uuid |-> uuid, wide |-> wide]
Attr(uuid) == [uuid |-> uuid]
Chrc(prop) == [uuid |-> "chrc", prop |-> prop]
ReportAttr(ccc, id) == [uuid |-> "report", ccc |-> ccc, id |-> id]
Ref(id) == [uuid |-> "ref", id |-> id]

(* The attributes of the HID service from handle 4 on: the map, an input    *)
(* report, the boot report with its own CCC, and an output report.          *)
HidAttrs ==
    [h \in 4 .. 16 |->
        CASE h = 4 -> Attr("primary")
          [] h = 5 -> Chrc({"read"})
          [] h = 6 -> Attr("map")
          [] h = 7 -> Chrc({"read", "notify"})
          [] h = 8 -> ReportAttr(9, 1)
          [] h = 9 -> Attr("ccc")
          [] h = 10 -> Ref(1)
          [] h = 11 -> Chrc({"read", "notify"})
          [] h = 12 -> Attr("boot")
          [] h = 13 -> Attr("ccc")
          [] h = 14 -> Chrc({"read", "write"})
          [] h = 15 -> ReportAttr(0, 2)
          [] OTHER -> Ref(2)]

(* The output report first, a second input report behind it *)
OtherAttrs ==
    [h \in 4 .. 15 |->
        CASE h = 4 -> Attr("primary")
          [] h = 5 -> Chrc({"read", "write"})
          [] h = 6 -> ReportAttr(0, 3)
          [] h = 7 -> Ref(3)
          [] h = 8 -> Chrc({"read"})
          [] h = 9 -> Attr("map")
          [] h = 10 -> Chrc({"read", "notify"})
          [] h = 11 -> ReportAttr(13, 4)
          [] h = 12 -> Ref(4)
          [] h = 13 -> Attr("ccc")
          [] h = 14 -> Chrc({"read"})
          [] OTHER -> Attr("info")]

(* More reports than reports[] has room for *)
ManyAttrs ==
    [h \in 4 .. 20 |->
        IF h = 4 THEN Attr("primary")
        ELSE CASE h % 4 = 1 -> Chrc({"read", "notify"})
               [] h % 4 = 2 -> ReportAttr(h + 1, h)
               [] h % 4 = 3 -> Attr("ccc")
               [] OTHER -> Ref(h - 2)]

Pad(mtu, name, map, attrs, services) ==
    [bus |-> "le", kind |-> "pad", mtu |-> mtu, name |-> name, nameHdl |-> 3, map |-> map,
     attrs |-> attrs, services |-> services, known |-> Known(12, "generic", "default"),
     refuses |-> FALSE, bonded |-> {}]

Gap == Service(1, 3, "gap", FALSE)
Hids(end) == Service(4, end, "hids", FALSE)

(* name and map end with a whole response *)
Even == Pad(23, 19, 44, HidAttrs, <<Gap, Hids(16), Service(17, 20, "own", TRUE)>>)
(* a name longer than device_name, requests refused *)
Long == [Pad(40, 50, 60, OtherAttrs, <<Service(1, 3, "own", TRUE), Hids(15)>>) EXCEPT !.refuses = TRUE]
(* an MTU above ours, notifications left on by the bond *)
Bonded == [Pad(100, 12, 50, HidAttrs, <<Gap, Hids(16)>>) EXCEPT !.bonded = {9}]
(* a last service of one handle, and no HID service *)
Bare == Pad(23, 0, 10, HidAttrs, <<Gap, Hids(16), Service(17, 17, "bare", TRUE)>>)
Many == Pad(23, 12, 0, ManyAttrs, <<Gap, Hids(20)>>)
NoHids == Pad(23, 5, 0, <<>>, <<Gap>>)

Sw2Pad(refuses) ==
    [bus |-> "le", kind |-> "sw2", mtu |-> 60, name |-> 10, nameHdl |-> 3, map |-> 0,
     attrs |-> <<>>, services |-> <<Gap>>, known |-> Known(10, "sw2", "default"),
     refuses |-> refuses, bonded |-> {}]

Br(kind, type, sub) ==
    [bus |-> "br", kind |-> kind, known |-> Known(0, type, sub), ignores |-> {},
     factory |-> {0, 1}, user |-> {}]

Ps3 == Br("ps3", "ps3", "default")
Ds4 == Br("ds4", "ps", "default")
Ds5 == Br("ds5", "ps", "default")
Ds5Named == Br("ds5", "ps", "ps5")
Wii == Br("wii", "wii", "default")
SwPro == [Br("sw", "sw", "default") EXCEPT !.user = {1}]
SwRight == [Br("sw", "sw", "right") EXCEPT !.ignores = {"rumble"}]
SwLeft == [Br("sw", "sw", "left") EXCEPT !.ignores = {"led"}]

(* The pairs are those where the second controller meets what the first     *)
(* left: its timer, its entry in att_hid[], its calibration or its key.     *)
MCSessions ==
    {<<c>> : c \in {Long, Bare, Many, NoHids, Sw2Pad(TRUE), Ds5Named, Wii, SwLeft}}
    \cup {<<Even, Bonded>>, <<Ps3, Ps3>>, <<Ps3, SwRight>>, <<Ds4, Ds5>>, <<Ps3, Ds4>>,
          <<SwRight, SwPro>>, <<SwPro, Sw2Pad(FALSE)>>, <<Ds4, Even>>,
          <<Sw2Pad(FALSE), Sw2Pad(FALSE)>>}
=============================================================================
