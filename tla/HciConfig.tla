----------------------------- MODULE HciConfig ------------------------------
(***************************************************************************)
(* The configuration of the Bluetooth controller at start-up: the table     *)
(* bt_hci_config[] of bluetooth/hci.c, the position in it                   *)
(* (bt_config_state), and the handler of BT_HCI_EVT_CMD_COMPLETE that moves *)
(* the position on, retries and starts all over.                            *)
(*                                                                         *)
(* The handler does not know which command it waits for: the completion of  *)
(* any listed command moves the position, those of the scan, advertising and*)
(* accept list commands that the event handlers of a running system send    *)
(* included.  Controllers can connect as soon as the step that enables page *)
(* scan is done, before the end of the table.                               *)
(*                                                                         *)
(* The controller (external) completes commands in the order they were sent.*)
(* They reach it through TxQueue, whose buffer other tasks use too.         *)
(***************************************************************************)
EXTENDS TxQueue

CONSTANTS
    Config,     \* bt_hci_config[]: the kinds of its steps
    Bonds,      \* le_bdaddr of the records of bt_host_le_link_keys
    NoAddr,     \* BT_ADDR_LE_ANY
    NewBond,    \* an address paired with while the system runs
    MaxRetry,   \* BT_MAX_RETRY
    ErrBound,   \* bound on failed commands
    RtBound     \* bound on commands of the event handlers

Last == Len(Config)
Steps == 1 .. Last
Runtime == Last + 1    \* in place of the step, for other commands

(* Only the last step sends commands of its own accord.  One step reads the *)
(* address of the adapter, and one loads the accept list, after it was      *)
(* cleared and before anybody can connect.                                  *)
ASSUME ConfigAssumption ==
    /\ Last \in Nat \ {0} /\ Config[1] = "reset"
    /\ \A s \in Steps : Config[s] = "inquiry" <=> s = Last
    /\ \A s, t \in Steps : Config[s] = Config[t] /\ Config[s] \in {"accept", "bdaddr"}
                              => s = t
    /\ \A s, t \in Steps : Config[t] = "accept" =>
           /\ Config[s] \in {"reset", "clear_wl"} => s < t
           /\ Config[s] = "page_scan" => t < s
    /\ Len(Bonds) \in Nat /\ NewBond # NoAddr
    /\ MaxRetry \in Nat /\ ErrBound \in Nat /\ RtBound \in Nat

VARIABLES
    pos,      \* bt_config_state + 1
    retry,    \* bt_hci_pkt_retry
    next,     \* the static index of bt_host_get_next_accept_le_bdaddr, + 1
    wl,       \* controller: the accept list
    named,    \* number of suffixes bt_hci_set_device_name put to local_name
    done,     \* history: steps completed since the last bt_hci_init
    clean,    \* history: no command failed since then
    inits,    \* history: how often bt_hci_init was called again
    open,     \* controller: page scan was enabled, so that somebody may connect
    refused,  \* history: addresses the controller did not add
    errs,     \* commands that failed, up to ErrBound
    rt,       \* packets of the event handlers and of other tasks, up to RtBound
    mixed     \* history: a packet was overwritten by that of another task

ghosts == <<done, clean, inits, open, refused>>
vars == <<pos, retry, next, txVars, wl, named, ghosts, errs, rt, mixed>>

BondAddrs == {Bonds[i] : i \in 1 .. Len(Bonds)} \ {NoAddr}

(* A packet: a command has its step, the address it adds to the accept list,*)
(* and the value of inits.                                                  *)
Packet == [kind : {"cmd", "data", "wait", "garbled"}, step : 1 .. Runtime,
           add : BondAddrs \cup {NewBond, NoAddr}, init : Nat]

TypeOK ==
    /\ pos \in 1 .. Last + 1
    /\ retry \in 0 .. MaxRetry
    /\ next \in 1 .. Len(Bonds) + 1
    /\ todo \in [Ctx -> Seq(Packet)]
    /\ built \subseteq Ctx
    /\ txq \in Seq(Packet) /\ Len(txq) <= TxqCap
    /\ q \in Seq(Packet)
    /\ wl \subseteq BondAddrs \cup {NewBond}
    /\ named \in Nat
    /\ done \subseteq Steps
    /\ clean \in BOOLEAN
    /\ inits \in 0 .. errs
    /\ open \in BOOLEAN
    /\ refused \subseteq BondAddrs \cup {NewBond}
    /\ errs \in 0 .. ErrBound
    /\ rt \in 0 .. RtBound
    /\ mixed \in BOOLEAN

(* bt_host_get_next_accept_le_bdaddr from index i: past the end of the list *)
(* when no record in use is left.                                           *)
NextAccept(i) ==
    LET U == {j \in i .. Len(Bonds) : Bonds[j] # NoAddr}
    IN  IF U = {} THEN Len(Bonds) + 1 ELSE CHOOSE j \in U : \A k \in U : j <= k
MoreBonds == NextAccept(next) <= Len(Bonds)

Command(s) == [kind |-> "cmd", step |-> s, add |-> NoAddr, init |-> inits]
AddDev(s) == [Command(s) EXCEPT !.add = Bonds[NextAccept(next)]]

(* What step s sends at once.  bt_hci_start_inquiry_cfg_check sends three   *)
(* scan commands whose completion is in the list of the handler.            *)
StepCmds(s) == IF s > Last THEN <<>>
               ELSE IF s = Last THEN <<Command(Runtime), Command(Runtime), Command(Runtime)>>
               ELSE <<Command(s)>>

(* What the callback of the controller sends in answer to an event. *)
Sends(cmds) == todo' = [todo EXCEPT !["rx"] = cmds]

(* bt_hci_q_conf at position p, with the steps d done and the retry count n.*)
(* The position is only compared with the end of the table, so it saturates *)
(* there.  bt_hci_load_le_accept_list with no bond left goes on to the next *)
(* step by itself.                                                          *)
QConf(p, d, n) ==
    LET accept == p <= Last /\ Config[p] = "accept"
        s == IF accept /\ ~MoreBonds THEN p + 1
             ELSE IF p > Last THEN Last + 1 ELSE p
    IN  /\ pos' = s
        /\ Sends(IF accept /\ MoreBonds THEN <<AddDev(p)>> ELSE StepCmds(s))
        /\ next' = IF accept THEN (IF MoreBonds THEN NextAccept(next) + 1
                                                ELSE Len(Bonds) + 1)
                             ELSE next
        /\ retry' = IF accept /\ ~MoreBonds THEN 0 ELSE n
        /\ done' = d \cup (IF accept /\ ~MoreBonds THEN {p} ELSE {})
                     \cup (IF s = Last THEN {Last} ELSE {})

Init ==
    /\ pos = 1 /\ retry = 0 /\ next = 1
    /\ TxInit([kind |-> "cmd", step |-> 1, add |-> NoAddr, init |-> 0])
    /\ wl = {} /\ named = 0
    /\ done = {} /\ clean = TRUE /\ inits = 0
    /\ open = FALSE /\ refused = {}
    /\ errs = 0 /\ rt = 0 /\ mixed = FALSE

KindOf(c) == IF c.step = Runtime THEN "plain" ELSE Config[c.step]

(* The step of the current round that command c is, if it is one. *)
StepOf(c) == IF c.init = inits THEN {c.step} \cap Steps ELSE {}

(* BT_HCI_EVT_CMD_COMPLETE of c, with status 0 (BT_HCI_ERR_UNKNOWN_CMD is   *)
(* taken for it): what the command changed in the controller, and           *)
(* bt_hci_set_device_name.                                                  *)
Effects(c) ==
    /\ wl' = IF KindOf(c) \in {"reset", "clear_wl"} THEN {}
             ELSE IF c.add # NoAddr THEN wl \cup {c.add} ELSE wl
    /\ named' = IF KindOf(c) = "bdaddr" THEN named + 1 ELSE named
    /\ open' = (open \/ KindOf(c) = "page_scan")

(* Mutant: the accept list is taken for loaded after the first device. *)
AddOnlyOne(c) == FALSE

(* The completion that continues the accept list instead of the table. *)
AddsNext(c) == c.add # NoAddr /\ MoreBonds

(* The event of the first command; the callback is busy until everything the*)
(* handler sends is in the ring buffer.                                     *)
Completes ==
    /\ q # <<>> /\ Idle("rx")
    /\ q' = Tail(q)
    /\ UNCHANGED <<tmp, built, txq>>

CmdCompleteOk ==
    /\ Completes
    /\ LET c == Head(q)
       IN  /\ Effects(c)
           /\ IF AddsNext(c)
              THEN /\ Sends(<<AddDev(c.step)>>)
                   /\ next' = NextAccept(next) + 1
                   /\ UNCHANGED <<pos, retry, done>>
              ELSE QConf(pos + 1, done \cup StepOf(c), 0)
    /\ UNCHANGED <<clean, inits, refused, errs, rt, mixed>>

(* bt_hci_q_conf(0) *)
RetryStep == QConf(pos, done, retry + 1)

(* bt_hci_pkt_retry++ exceeds BT_MAX_RETRY. *)
GiveUp == retry + 1 > MaxRetry

(* bt_config_state after bt_hci_init. *)
FirstPos == 1

(* BT_HCI_EVT_CMD_COMPLETE with an error: bt_hci_init once the retries are  *)
(* used up.  It resets neither the index of the accept list nor local_name. *)
CmdCompleteErr ==
    /\ Completes /\ errs < ErrBound
    /\ errs' = errs + 1
    /\ refused' = refused \cup ({Head(q).add} \ {NoAddr})
    /\ IF GiveUp
       THEN /\ inits' = inits + 1
            /\ pos' = FirstPos /\ retry' = 0
            /\ Sends(<<[Command(FirstPos) EXCEPT !.init = inits']>>)
            /\ done' = {} /\ clean' = TRUE
            /\ UNCHANGED next
       ELSE /\ RetryStep
            /\ clean' = FALSE
            /\ UNCHANGED inits
    /\ UNCHANGED <<wl, named, open, rt, mixed>>

(* Once page scan lets somebody connect, a handler of hci.c sends a scan or *)
(* advertising command, adds to the accept list (bt_hci_add_to_accept_list) *)
(* or delays what follows (bt_host_q_wait_pkt), and bt_host_task or a timer *)
(* of a HID driver sends data.                                              *)
RuntimeSend ==
    /\ rt < RtBound
    /\ open
    /\ rt' = rt + 1
    /\ \/ /\ Idle("rx")
          /\ \E p \in {Command(Runtime), [Command(Runtime) EXCEPT !.add = NewBond],
                       Blank("wait", Command(Runtime))} : Sends(<<p>>)
       \/ /\ Idle("task")
          /\ todo' = [todo EXCEPT !["task"] = <<Blank("data", Command(Runtime))>>]
    /\ UNCHANGED <<pos, retry, next, tmp, built, txq, q, wl, named, ghosts, errs, mixed>>

(* The two steps of sending.  An overwritten packet never gets to the       *)
(* controller, like a command that fails.                                   *)
Building(c) == Build(c) /\ UNCHANGED <<pos, retry, next, wl, named, ghosts, errs, rt, mixed>>

Sending(c) ==
    LET own == Head(todo[c])
    IN  \E p \in Copied(c) :
            /\ bt_host_txq_add(c, p)
            /\ mixed' = (mixed \/ p # own)
            /\ clean' = (clean /\ p = own)
            /\ refused' = IF p = own THEN refused ELSE refused \cup ({own.add} \ {NoAddr})
            /\ UNCHANGED <<pos, retry, next, wl, named, done, inits, open, errs, rt>>

TxTask == bt_tx_task /\ UNCHANGED <<pos, retry, next, wl, named, ghosts, errs, rt, mixed>>

CmdComplete == CmdCompleteOk \/ CmdCompleteErr

Next ==
    \/ CmdComplete
    \/ RuntimeSend
    \/ \E c \in Ctx : c \in built /\ Sending(c)
    \/ \E c \in Ctx : Building(c)
    \/ TxTask

Spec == Init /\ [][Next]_vars

(* The controller completes every command it was sent; the tasks run, and   *)
(* xRingbufferSend wakes up when there is room.                             *)
FairSpec ==
    /\ Spec
    /\ WF_vars(CmdComplete)
    /\ WF_vars(TxTask)
    /\ \A c \in Ctx : WF_vars(Building(c)) /\ WF_vars(c \in built /\ Sending(c))

-----------------------------------------------------------------------------
(* Safety. *)

(* Packet p is the command of step t, sent since the controller was reset.  *)
IsStep(p, t) == p.kind = "cmd" /\ p.init = inits /\ p.step = t

(* The steps whose command is in a queue, and that none is there twice. *)
Carried(s) == {t \in Steps : \E i \in 1 .. Len(s) : IsStep(s[i], t)}
Once(s) == \A i, j \in 1 .. Len(s), t \in Steps :
               IsStep(s[i], t) /\ IsStep(s[j], t) => i = j

InFlight == Carried(q) \cup Carried(txq) \cup Carried(todo["rx"])

(* When completions of other commands push the position, steps are sent     *)
(* early, but none is left out and none is sent twice, whatever the ring    *)
(* buffer made the handlers wait for, as long as no command has failed, or  *)
(* was overwritten in bt_hci_pkt_tmp, since the controller was reset.       *)
StepsOnce ==
    clean =>
        /\ done \cup InFlight = 1 .. (IF pos > Last THEN Last ELSE pos)
        /\ done \cap InFlight = {}
        /\ Carried(q) \cap Carried(txq) = {}
        /\ (Carried(q) \cup Carried(txq)) \cap Carried(todo["rx"]) = {}
        /\ Once(q) /\ Once(txq) /\ Once(todo["rx"])

(* local_name gets at most one suffix for every initialisation and every    *)
(* retry, as long as no packet was overwritten.                             *)
NameBounded == ~mixed => named <= inits + 1 + errs

(* Both, in states whose variables have their types. *)
EachStepOnce == TypeOK /\ StepsOnce /\ NameBounded

(* Every LE bond that the controller did not refuse is in its accept list   *)
(* once the table is past that step, unless the controller was reset again: *)
(* the index into the bonds is never reset.                                 *)
AcceptLoaded ==
    inits = 0 /\ (\E s \in done : Config[s] = "accept")
        => BondAddrs \ refused \subseteq wl

(* With a controller that fails only so often the configuration ends: the   *)
(* callback, which waits for room in the ring buffer, never waits for itself.*)
(* Not so if a command was overwritten in bt_hci_pkt_tmp by another task: its*)
(* completion, which would send the next one, never comes.                  *)
ConfigEnds == ([]~mixed) => <>[](pos > Last /\ (clean => done = Steps))
=============================================================================
