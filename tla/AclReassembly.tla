--------------------------- MODULE AclReassembly ----------------------------
(***************************************************************************)
(* Reassembly of L2CAP frames from ACL packets: bt_host_acl_hdlr of         *)
(* bluetooth/host.c.  All connections share one buffer, frag_buf, with one  *)
(* offset and one size, and a continuation packet is taken for one of the   *)
(* frame in the buffer whatever its handle is; the frame that gets complete *)
(* is handled on behalf of the connection of its last packet.               *)
(*                                                                         *)
(* Lengths are counted in fragments.  A fragment is the connection, the     *)
(* number of the frame (counted modulo 2: enough to tell a frame from the   *)
(* one before it) and its place in the frame.                               *)
(***************************************************************************)
EXTENDS Integers, Sequences

CONSTANTS
    Conn,         \* connections: controllers and the configuration client
    MaxFrags,     \* fragments of the longest frame
    BufCap        \* fragments that fit in frag_buf

ASSUME AclAssumption ==
    /\ MaxFrags \in Nat \ {0}
    /\ BufCap \in Nat /\ BufCap >= MaxFrags

VARIABLES
    buf,     \* frag_buf
    off,     \* frag_offset
    size,    \* frag_size
    cur,     \* controller: frame each connection is sending
    up,      \* what the last packet made the host handle
    want,    \* history: what it should have
    mixed    \* history: the frame in the buffer was begun while another
             \* connection was in the middle of one

aclVars == <<buf, off, size, cur, up, want, mixed>>

Fragment == [conn : Conn, frame : {0, 1}, part : 1 .. MaxFrags]
Nothing == [to |-> {}, frame |-> <<>>]
Unknown == [to |-> Conn, frame |-> <<>>]

AclTypeOK ==
    /\ buf \in Seq(Fragment) /\ Len(buf) <= BufCap
    /\ off \in 0 .. BufCap
    /\ size \in 0 .. MaxFrags
    /\ cur \in [Conn -> [frame : {0, 1}, len : 0 .. MaxFrags,
                         sent : 0 .. MaxFrags, torn : BOOLEAN]]
    /\ mixed \in BOOLEAN

AclInit ==
    /\ buf = <<>> /\ off = 0 /\ size = 0
    /\ cur = [c \in Conn |-> [frame |-> 0, len |-> 0, sent |-> 0, torn |-> FALSE]]
    /\ up = Nothing /\ want = Nothing /\ mixed = FALSE

Frag(c, n) == [conn |-> c, frame |-> cur[c].frame, part |-> n]
Whole(c) == [i \in 1 .. cur[c].len |-> Frag(c, i)]
Sending(c) == cur[c].sent < cur[c].len

(* Other fragmented frames under way are torn by a fragment of c. *)
Tear(c, own) ==
    cur' = [d \in Conn |-> IF d = c THEN own
                           ELSE [cur[d] EXCEPT !.torn = @ \/ Sending(d)]]

-----------------------------------------------------------------------------
(* The packet is a whole frame: the buffer is not looked at. *)
WholePacket(c) ==
    /\ ~Sending(c)
    /\ cur' = [cur EXCEPT ![c] = [frame |-> 1 - @.frame, len |-> 0,
                                  sent |-> 0, torn |-> FALSE]]
    /\ up' = [to |-> {c}, frame |-> <<Frag(c, 1)>>]
    /\ want' = up'
    /\ UNCHANGED <<buf, off, size, mixed>>

(* Mutant: the offset goes on from the last frame. *)
BeginAfter(p, n) == /\ buf' = Append(SubSeq(buf, 1, off), p)
                    /\ off' = off + 1
                    /\ size' = n

(* memcpy to the start of frag_buf, whatever is in it. *)
Begin(p, n) == buf' = <<p>> /\ off' = 1 /\ size' = n

(* BT_ACL_START, and l2cap_hdr.len says that there is more to come. *)
StartPacket(c, n) ==
    /\ ~Sending(c)
    /\ mixed' = \E d \in Conn : Sending(d)
    /\ LET own == [frame |-> 1 - cur[c].frame, len |-> n, sent |-> 1,
                   torn |-> FALSE]
       IN  /\ Tear(c, own)
           /\ Begin([conn |-> c, frame |-> own.frame, part |-> 1], n)
    /\ up' = Nothing /\ want' = Nothing

(* Mutant: the last fragment is still waited for when it is there. *)
CompleteLate(o) == o > size

(* frag_offset < frag_size does not hold. *)
Complete(o) == o >= size

(* frag_buf after memcpy at frag_offset: a sequence, as nothing is ever     *)
(* written beyond the end of what is there.                                 *)
Written(p) == [i \in 1 .. off + 1 |-> IF i = off + 1 THEN p ELSE buf[i]]

(* BT_ACL_CONT.  Nothing keeps frag_offset below the size of frag_buf: what *)
(* the code does beyond it is outside of this model.                        *)
ContPacket(c) ==
    /\ Sending(c)
    /\ off < BufCap
    /\ LET own == [cur[c] EXCEPT !.sent = @ + 1]
           last == own.sent = own.len
       IN  /\ Tear(c, own)
           /\ buf' = Written(Frag(c, own.sent))
           /\ off' = off + 1
           /\ up' = IF Complete(off')
                    THEN [to |-> {c}, frame |-> SubSeq(buf', 1, size)]
                    ELSE Nothing
           /\ want' = IF own.torn THEN Unknown
                      ELSE IF last THEN [to |-> {c}, frame |-> Whole(c)] ELSE Nothing
    /\ UNCHANGED <<size, mixed>>

(* The link goes down in the middle of a frame: the rest never comes, and   *)
(* the buffer is left as it is.                                             *)
LinkLost(c) ==
    /\ Sending(c)
    /\ cur' = [cur EXCEPT ![c] = [@ EXCEPT !.len = 0, !.sent = 0, !.torn = FALSE]]
    /\ up' = Nothing /\ want' = Nothing
    /\ UNCHANGED <<buf, off, size, mixed>>

AclNext == \E c \in Conn :
           \/ WholePacket(c)
           \/ \E n \in 2 .. MaxFrags : StartPacket(c, n)
           \/ ContPacket(c)
           \/ LinkLost(c)

AclSpec == AclInit /\ [][AclNext]_aclVars

-----------------------------------------------------------------------------
(* A frame no other fragmented frame came in between of is handled once,    *)
(* whole, and for the connection it came on, whatever was in the buffer     *)
(* before: frames cut off by a lost link, frames mixed up with others.      *)
UntornIntact == want # Unknown => up = want

(* The variables have their types, and the offset stays within the frame    *)
(* that is reassembled, and with it in frag_buf, if the frame was not begun *)
(* in the middle of another; what was in the buffer before, complete, cut   *)
(* off or mixed up, does not matter.                                        *)
OffsetInFrame == AclTypeOK /\ (~mixed => off <= size)
=============================================================================
