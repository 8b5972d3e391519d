# A formal model of the BlueRetro firmware

BlueRetro connects Bluetooth game controllers to a game console.  This directory
holds TLA+ modules that model the parts of the firmware where the order of events
matters, TLC configurations that check them on small instances, and proofs that
TLAPS checks for every instance.

Section 1 describes the system, 2 the modules, 3 what TLC checks on which instances, 4 what is
proved and how, 5 what is left out and 6 what could follow.

## 1. The system

### 1.1 Where code runs

| context | code | state it writes |
|---|---|---|
| callback of the Bluetooth controller | `bt_host_rx_pkt`: HCI events (`hci.c`), ACL data (`host.c`), and through it L2CAP, SDP, SMP, ATT and the HID drivers | everything in `bt_dev[]`, `bt_dev_conf`, the key rings, the modes of `hci.c` |
| `bt_host_task` | every 20 ms: parses SDP data and HID descriptors that are complete | `bt_adapter.data[]`, flags of `bt_dev[]` |
| `bt_tx_task` | sends the packets of the transmit ring buffer to the controller | nothing but the queue |
| timer callbacks | initialisation timers of the HID drivers | `bt_dev[]` |
| `app_main` | start-up: file system, configuration, Bluetooth, memory card | `config`, the memory card |
| the console side | reads the output of the mapping | nothing |

Two builds matter here.  That of the Xbox has the whole path of an input report; `configs/none`
has no console and offers all of the configuration service.  Modules say which one they
are about where it matters.

Handlers of the first context run one at a time: an event and its whole handler are
one action in every module.  What interleaves is the order of the events themselves
(several controllers, the configuration client, answers to commands that were
queued long ago), and what is lost: links, power, commands that fail.

### 1.2 Components

| component | state | operations | what makes it correct |
|---|---|---|---|
| device table (`host.c`) | `bt_dev[7]`, `bt_dev_conf` | search by address, by handle, free slot, active slot; reset | one slot per address; handles lead to their own device |
| connection handlers (`hci.c`) | `inquiry_state`, `bt_nb_inquiry`, scan and advertising mode | inquiry result, connection request, advertising report, connection complete, name, disconnection | no slot is forgotten; discovery comes back; the configuration service is offered only when idle |
| controller configuration (`hci.c`) | `bt_config_state`, `bt_hci_pkt_retry`, accept list index, `local_name` | command complete with and without error, re-initialisation | all steps are sent, in order, once; it ends |
| BR/EDR keys (`host.c`) | `bt_host_link_keys` and its file | store, load, boot | a list of the newest bonds; no key under a wrong address |
| LE keys (`host.c`, `smp.c`, `hidp/sw2.c`) | `bt_host_le_link_keys` and its file | store key, store identification, clear, load | both halves of a record belong together; bad keys do not lock out |
| LE pairing (`smp.c`, `hci.c`) | confirm, random and key fields of a slot, `randq`, `encryptq` | pairing messages, answers to LE_RAND and LE_ENCRYPT | an answer reaches the pairing that asked; both ends get the same key; our keys go out once and last |
| L2CAP channels and SDP client (`l2cap.c`, `sdp.c`, `host.c`) | flags, channel ids, `sdp_state`, `sdp_data`, `pnp_data` | connection, configuration, disconnection of channels; search responses; `bt_host_task` | each channel, search and driver is started once, not too early; a connection that lasts is set up |
| ACL reassembly (`host.c`) | `frag_buf`, `frag_offset`, `frag_size` | start, continuation | frames are delivered whole, once, to their connection |
| LE HID client (`att_hid.c`) | `hid_state`, `att_hid[]`: services, handles, report table | 12 states of the GATT discovery, errors, notifications | the discovery ends; the report map is whole; reports are subscribed and routed |
| HID drivers (`hidp/*.c`) | `hid_state` of a slot, timers, calibration | initialisation per controller type, its answers and time-outs | a controller ends up configured for what it is, whatever comes late or twice |
| transmit queue (`hci.c`, `host.c`) | `bt_hci_pkt_tmp`, ring buffer | build, add, send, wait | nothing is lost, and the callback never waits for itself |
| report parser (`hid_parser.c`) | reports of every slot | parse, in the task, while reports arrive | what a report is decoded with belongs to its controller and exists |
| translation and mapping (`adapter/*.c`, `wireless/`, `wired/xbox.c`) | mappings, axes seen, output | first report, report, change of type, reset | the console sees what the user holds, and nothing when he is gone |
| configuration (`config.c`) | `config` and its file | defaults, load, upgrade, store | what was stored comes back; an upgrade loses nothing |
| configuration service (`att_cfg.c`) | MTU, device, offsets, OTA handle | GATT discovery, reads, writes, prepared writes, commands | a client finds, reads and writes all; what it was told is kept is kept |
| memory card (`memory_card.c`, `mon.c`) | blocks, dirty bits, file, trace offset | create, restore, read, write, trace | a client reads one state of it |

PROJECT.json lists every component, those that stay unmodelled with the reason.

### 1.3 How the components interact

- The receive callback is the hub: an event finds its slot in the device table (by
  address or by handle), changes the slot, and sends the next command or message.
  Nothing waits for an answer; what happens next is decided by the answer's handler.
- Commands of all handlers go through one transmit queue.  Their completions tell
  only the opcode, so the configuration of the controller and the queues `randq` and
  `encryptq` match answers by order.
- `bt_host_task` is told by the flag `BT_DEV_SDP_DATA` of a slot that SDP data is
  complete.  It and the callback are different tasks and share the slot without a lock.
- The key rings are read at connection and written in pairing; each write is
  followed by a write of the whole file.
- All connections share the reassembly buffer, and all contexts the buffer in which a
  packet is built.
- The drivers and the GATT client of a slot keep their progress in the same field,
  `hid_state`, and the timers of a slot outlive its reset.
- A report goes from the receive callback through translation and mapping to the output in
  one call; the descriptor it is decoded with is parsed by `bt_host_task`.
- The clients of the configuration service write `config`, which the mapping reads, and the
  service stores it.  The HCI trace is written to the buffer of the memory card.

### 1.4 What is hard here

Answers that come after the slot they are for was reset or given to another
controller; timers of controllers that left; answers that are late and come twice; a controller that connects by itself while it is being paged; several
pairings over the same queues; records written in two steps; power lost while a file
is written; commands that fail and are not retried; a task interrupted between test
and use; modes (inquiry, scan, advertising) changed by many handlers that do not know
of each other.  PROJECT.json lists these as hazards, each at its line, with the
properties that would notice.

## 2. Modules

| module | models | built on |
|---|---|---|
| `BtDevTable` | `bt_dev[]` and its searches, as operators | |
| `BtHci` | discovery, connection, disconnection, modes | `BtDevTable` |
| `TxQueue` | the shared packet buffer, the ring buffer and `bt_tx_task` | |
| `HciConfig` | start-up configuration of the controller | `TxQueue` |
| `KeyRing` | the ring both key stores use, as operators | |
| `BondList` | abstract: what the BR/EDR key store promises | |
| `LinkKeys` | BR/EDR keys and their file | `KeyRing`; implements `BondList` |
| `LeKeys` | LE keys written in two steps | `KeyRing` |
| `AclReassembly` | the shared reassembly buffer | |
| `HidSetup` | name, pairing, channels, SDP searches and `bt_host_task` for one slot | |
| `Smp` | LE pairing over `randq` and `encryptq` | |
| `HidDrivers` | the drivers of `hidp/`, as operators on a slot | |
| `AttHid` | the GATT client, as operators on the same slot | `HidDrivers` |
| `HidSlot` | a slot with its controllers, answers and timers | `AttHid` |
| `Generic` | the generic controller of `adapter.h` | |
| `HidParser` | the report descriptor parser, as operators on its locals | |
| `HidGeneric` | controllers without a driver of their own | `Generic`, `HidParser` |
| `Quirks`, `WirelessPads` | controllers with a driver | `Generic` |
| `Mapping`, `XboxPad` | `adapter_bridge` and the wired report | `Generic` |
| `ReportPath` | the path of a report, with parser and resets | all of the last five |
| `ConfigFile` | the configuration, its upgrades and its file | |
| `CfgGatt` | attributes of the configuration service | |
| `MemoryCard` | the card, its file and the trace | |
| `ConfigSvc` | clients, service, start-up and power cuts | the last three |
| `*Proofs` | lemmas and theorems about the module they extend | |
| `MC*` | instances for TLC | |

In every module a handler is one action, from its first condition to its last call;
its name is that of the event or function, and the comment above it names it.
Variables keep the fields the handlers test or set.  What the firmware does not
contain (the Bluetooth controller, the peer) is modelled from how the firmware uses
it: commands and messages wait in sets or queues until an external action answers
them.  Variables marked *history* record what happened; no handler reads them, they
serve to state properties and, where a bound is named, to end a behaviour.

A definition whose comment begins with "Mutant" is a broken form of the definition
below it.  It is not used by the specification; replacing the definition by it must
make a property fail, which shows that the property depends on that code.

### 2.1 BtDevTable and BtHci

`dev` is `bt_dev[]` with the fields that decide over a slot: found, page, address,
handle, retry count.  `conf` is `bt_dev_conf`, which `bt_host_reset_dev` does not
reset because it is no element of `bt_dev[]`.  `link`, `hdl`, `confHdl` are what the
controller knows of its links, `pend` and `nameq` its unanswered commands, `ctl` the
modes it is really in, which lag behind the ones requested.  A command refused by a
CMD_STATUS event is only logged by the host.

A free slot is one whose found flag is not set; `dev[i].handle = 0` means "no
connection yet", although the controller may hand out the handle 0, as it may here.  A search
for handle 0 then stops at the first slot that waits for its connection.  A disconnection
of that handle resets such a slot instead of its own, and two histories remember it: `dropped`
has the owner of the link, which keeps a slot no answer will free, and also the addresses whose
command a CMD_STATUS refused; `lost` has the LE device that was reset, whose connection comes up
behind the table's back and passes for the configuration client.

### 2.2 TxQueue and HciConfig

`pos` is `bt_config_state`.  A completion advances the position whichever command it
completes; a failure sends the current step again, and more than `BT_MAX_RETRY` of them start
all over.  Handlers of a running system, possible from the moment page scan is enabled, send
commands too (`RuntimeSend`).  `EachStepOnce` is stated over what is on its way: a packet in a
queue is that of a step (`IsStep`) or none, `Carried` is the set of steps a queue carries and
`InFlight` that of all three.  The table `bt_hci_config[]` is a parameter, and
`ConfigAssumption` names what the properties need of its order and the firmware's table has: it
begins with the reset, ends with the one command that makes the controller visible (inquiry),
loads the accept list and reads the address once, clears the list and resets only before it is
loaded, and enables page scan only after that.

What a handler sends goes through `TxQueue`: `todo` is what a context has still to send before
its handler returns, `tmp` is `bt_hci_pkt_tmp`, `txq` the ring buffer and `q` the commands the
controller has not completed.  A context builds its packet in one step and sends it in
another, because the callback and the other tasks are not locked against each other; a
packet another context has been at is sent as that one's or as a mixture, and `mixed`
remembers it.  The callback blocks while the ring buffer is full, and no completion is
handled meanwhile.

### 2.3 KeyRing, LinkKeys, BondList, LeKeys

`ring` is the structure in memory and `file` what the next boot loads.  `CrashInStore`
is the loss of power at any point of the write: "wb" cuts the file, then index and
records are written one by one, and a prefix is loaded into zeroed memory.  `faults` remembers
files that did not open and power that was lost: the refinement of `BondList` is claimed until
the first of them, `KeysGenuine` always.

`LeKeys` follows each controller through pairing, encryption and the two packets that
carry its key, with other controllers in between.  A key is told by the controller
and the pairing it comes from, so that halves of two pairings can be told apart.
One assumption is made on the environment, and is a guard (`NotOvertaking`): no record
is taken over between the two packets of its controller.  At most 7 controllers are
connected and the ring has 16 records, so others would have to connect, pair and leave
until the index has come round, all between two packets sent one after the other.

Its file `leFile` is treated like the other one.  Every store and every clear writes it
(`StoreLeKeysOnFile`): it takes the ring, does not open (`NoWrite`, which no caller looks at), or
is cut by a loss of power (`TornWrite`), between two records or inside one; a boot loads it, or
finds that it does not open.  Records a cut left incomplete hold the value `Torn`.  `leFaults`
counts both kinds, together up to `MaxFaults`.  `fileCut` is for the file what `cut` is for the
ring: the controllers of whose two keys it may have one.

### 2.4 AclReassembly

Lengths are counted in fragments.  `cur` is what each connection is sending; `want`
is what should be delivered, computed from the connections alone, and `up` what the
code delivers.  A frame is *torn* when a fragment of another frame came in between of
its own; for those nothing is claimed.

### 2.5 HidSetup

One slot, connection after connection.  `flags`, `dcid`, `sdp`, `len`, `have` are
fields of the slot and of its adapter data, `rx` and `tx` the L2CAP messages under way
in order, `peer` the other end.  `bt_host_task` is three actions (it tests the flag,
parses, compares the type and clears the flag) because the callback can come in
between; every handler of the callback is one.

`auth` and `asks` are the pairing: name, features, and the requests of the controller for the
link key, PIN code, IO capability and confirmation, up to AUTH_COMPLETE, which opens the first
channel.  A controller that connected by itself pairs when it wants to (`PeerPairs`).

### 2.6 Smp

Values are terms: a random number is the connection that asked for it and its half;
an encrypted value is what went in.  So two values are equal when the real ones are,
except with negligible probability.  A pairing is *disturbed* when an LE_RAND or
LE_ENCRYPT failed, or its slot was taken over with answers still to come (`Disturbed`).  The peer keeps the confirm value and refuses a
random number that does not match it, and encryption fails unless both ends have
the same key.  Entries of `randq` and `encryptq` name a slot, `randCmd` and
`encryptCmd` are the commands the controller has not answered, with the slot that
asked, which the code does not know.

### 2.7 HidDrivers, AttHid, HidSlot

A slot is a record, and every driver function an operator that returns the slot after the call
with what it put in the transmit queue.  The timers are objects of their own, because
`timer_hdl` only names one: after `bt_host_reset_dev` a timer that is armed still fires, for
whoever has the slot then.  A link delivers in order and loses nothing; a controller may answer
after the time-out of 100 ms, so that a question is asked and answered twice, may ignore a
command (`ignores`) or refuse a request.  `toPeer` and `toHost` are bounded by `MaxQueue`,
the changes of extension by `MaxPlugs`.

`SlotAssumption` is what the controllers of a session guarantee.  `LeOk`: the handles, services and
properties of an LE controller fit together as Bluetooth requires, and nothing the discovery
steps over hides its map.  `BrOk`: a controller over BR/EDR is what its name says.  A session is
not longer than the retries of a state, because each controller may leave one timer behind, and
a driver gives a state up after more than `RetryMax` tries.

### 2.8 HidParser, HidGeneric, WirelessPads, Mapping, XboxPad, ReportPath

A descriptor is a sequence of items, a report a record of the bits and values a driver reads
from it; a word of 32 bits is the set of its bits.  Signs, ranges, fragments of usages,
button-like axes, hats, dead zones and scales are computed as in the code, with integers for
single-precision floats.  The parser ends a step where it stores a report that the other
task can see.  `bt_host_reset_dev` clears what the code clears: reports of the parser and
`devices_meta` stay.  `PathAssumption` says only that a session is a list of controllers of the
types that have reports (`PadTypes`), and the input configuration of a slot a list of entries.

### 2.9 ConfigFile, CfgGatt, MemoryCard, ConfigSvc

A unit stands for the head of an `in_cfg` or one of its entries, in the file and over GATT.
Part 0 of a file is the head of `struct config` (the magic, the bank, one unit for each
`out_cfg`), each further part an `in_cfg`.  The struct is written with one `fwrite`, so a cut may leave
a file that ends before any unit of any part or, `torn`, inside an entry (`Ends`, `Cuts`).
`fread` takes what is there (`Fread`): a mapping whose size is set and whose last entries are
those memory had before, one entry of both.  A part of the magic is as good as none, and every
other field that is kept has one byte.  A cut inside a store counts as an operation for
`MaxOps`.  `acked` is what the clients were told is kept, and `Kept` says
when a configuration is that: the bank of the HCI trace may have ended, because every WRITE_REQ
ends the trace in `config`, and the next store, of whatever setting, takes that along.
`SvcAssumption` is what the firmware and its clients guarantee of the parameters: a file that is
found was written by a firmware, in the layout of its version (`LayoutFits`), and what a client
writes is the size of a mapping and up to `MappingMax` of its entries.  `MemoryCard`
counts in words; a write past the end of a block sets `over`, after which nothing is claimed.
mc_init runs when Bluetooth is up already, so clients meet a card that is being created.

## 3. Runs

All bounds are constants of the configurations.

| run | instance | distinct states | shows |
|---|---|---|---|
| `hci_br` | 2 slots, 3 BR/EDR controllers, handles 0 and 1 | 2.0 M | `UniqueAddr`, `HandleRouting`: the table stays right when more controllers than slots are found, page, are paged and leave |
| `hci_mixed` | 2 slots, BR/EDR and LE controller, client, handles 0 to 2, fairness | 226 k | `InquiryWhenIdle`, `ConfRouted`, `SlotNotTaken`; `Resolved`: a device that was found is connected or given up |
| `hci_config` | 9 steps, 3 bonds, ring buffer of 1, 3 failures, 2 run-time commands, fairness | 1.2 M | `EachStepOnce`, `AcceptLoaded`, `ConfigEnds` |
| `link_keys` | 2 records, 3 controllers, 2 keys, faults | 45 k | `KeysGenuine`; `ImplementsBondList`: the ring refines the list |
| `le_keys` | 2 records, 3 controllers, 1 fault of the file | 2.2 M | `IdentMatches`, `NoLockOut` |
| `acl` | 3 connections, frames of 1 to 3 fragments | 187 k | `UntornIntact`, `OffsetInFrame` |
| `hid_setup` | buffers of 3 and 1 units, responses of 0 to 2, pairing, fairness | 842 k | `DataComplete`, `PinTyped`, `AnswerMatches`, `SetUp` |
| `smp` | 2 slots, queues of 3, 2 connections, 1 failure of each kind, fairness | 192 k | `QueuesMatched`, `PairingSound`, `DistributedLast`, `Paired` |
| `hid_slot` | 17 sequences of one or two controllers of every type, fairness | 58 k | `MapWhole`, `InBounds`, `Routed`, `Discovered` of the GATT client; `Sw2Bonded`, `Configured`, `Settles` of the drivers |
| `report_path` | 2 slots, 13 pairs of controllers, keyboards and mice | 9 k | `DecodeSafe`, `Faithful`, `NoStuck`, `InRange` |
| `config` | 2 devices, mappings of up to 3 entries, files of every older version, 2 operations, card of 2 blocks | 1.9 M | `Survives`, `CutBounded`, `UpgradeKeeps`, `ReadWhole`, `Discovery`, `CardReads` |
| `hid_setup_race` | as `hid_setup` | violated | the finding below |

Why the bounds are enough.  Slots are searched from the first to the last and treated
alike: two slots and three controllers give a full table, a slot that is reused and a
second device that must not be touched.  Two records and three controllers make a
ring come round and evict.  `BT_MAX_RETRY` is 3 in `hci_mixed`; 2 in `hci_br` and 1 in
`hci_config` still give a retry and a last failure.  A ring buffer for one packet is full
whenever a handler sends two, as the firmware's is after many.  Three
fragments have a first, a middle and a last one.  An SDP record of 3 units fills up in
the middle of a response of 2.  The 64 bytes of `randq` and `encryptq` hold four entries
of the firmware; a queue of 3 is full for two pairings with one entry lost, so the
case that a request finds no room happens.  The controllers of `hid_slot` have names and maps
that end before, at and after the end of a response, up to one report more than the table
holds, and pairs of which the first leaves a timer, or a state, to the second.  Those of `report_path` have descriptors
of each form the parser knows, and follow each other in one slot.  In `config` a window holds two
units, so that a mapping of four is written in two windows and prepared in parts, and a block of
the card two words, so that a read that begins in the middle meets its end.  Counters that
only grow (`nameq`, connections, failures, run-time commands, operations) are bounded by a
guard named in the module; `nbInq` saturates one above the value it is compared with.

Deadlock is checked, except in `hci_config`, `hid_slot`, `report_path` and `config`: a configured
controller with no more commands to come, and a system all of whose controllers or clients have
come and gone, stop.

Fairness.  The Bluetooth controller answers every command (HCI requires it) and the
link delivers what was sent as long as it is up; `bt_host_task` runs every 20 ms, `bt_tx_task` when there is
a packet, and a handler that began goes on; a timer that is armed fires; a peer
goes on with a procedure it began and answers what it does not ignore.  No fairness is assumed of discovery,
connections, disconnections, failures or of the peer's own SDP searches.

What the exceptions in the properties mean.  Each is something the code does.

- `Resolved`: devices whose command was refused by a CMD_STATUS event; such a slot is lost until
  its controller connects by itself.
  Also the owner of a link of handle 0 whose disconnection reset another slot.
- `HandleRouting`: what arrives on handle 0 may reach a device that is not connected yet, as 0 is
  also what its slot holds; never another one that is.  `ConfRouted`: once an LE device lost its
  slot that way, its connection may take the place of the configuration client's in `bt_dev_conf`.
- `IdentMatches`: pairings cut off between their two keys, in memory or in the file that was
  loaded, and records torn on flash.  `NoLockOut`: a file that did not open when the record was
  cleared brings it back, for one more failure.
- `AcceptLoaded` is about the first initialisation: after a second one the accept list lacks the
  bonds loaded before.
- `EachStepOnce` until a command fails; `ConfigEnds` unless another task overwrote a
  command in the shared buffer, after which no completion sends the next step.
- `PairingSound` and `Paired`: pairings disturbed by a failed command or by old entries for the
  same slot; `Paired` also those that found a queue full, because the caller ignores it.
- `SetUp`: a failed authentication, a refused channel, a failed allocation and the race below.
  `PinTyped` is about controllers we connect to; others may be asked before their name is known.
- `UntornIntact`, `OffsetInFrame`: frames interleaved with those of another connection.
- `MapWhole`: a controller with an MTU above ours, which is kept as if it were ours.  `Routed`:
  a bonded controller that notifies before the discovery is bridged under the id 0.
  `Discovered`: a service of one handle is asked for again for ever; a failed allocation stops
  the discovery; errors and old timers move the state the Switch 2 driver shares.
  `Settles`: acknowledgements that came twice move a Switch controller past the
  state that gives up; an extension of a Wii remote pulled in the middle of its set-up is retried for ever.
- `DecodeSafe` and `Faithful`: reports that came before the descriptor of their controller was
  parsed are decoded with that of the last one; `kb_bitfield` is never cleared.  The pads of the
  run have their axes in one report.  Of a pad with axes in two, `desc` keeps the directions of the
  first while its metas are those of the second (`hid_generic.c:387`), and `MetaPresent` fails.
  `NoStuck`: a reset clears the output with the slot's index only, and a controller that changes
  its type while it holds something keeps holding it.
- `Survives`: a cut during a store (what that costs is `CutBounded`), a missing file system, prepared parts that were cancelled or
  dropped (they are in `config` already), an execution during a firmware update (it
  is acknowledged and not stored), and a deleted file.  `UpgradeKeeps`: version 0, whose
  upgrade always ends with the defaults, and full mappings, whose combination is written into
  the next device's.  `ReadWhole`: a client that asks for no MTU gets that of the last one.
  `CardReads`: a write past the end of a block.

### Finding

`hid_setup_race`: `bt_host_task` tests `BT_DEV_SDP_DATA` and then parses the data; a
disconnection handled in between resets the slot and zeroes the pointers.  The comment
at the task, "Parse SDP data if available" (`src/main/bluetooth/host.c:295`), is not
what happens then: the parser runs on data that is not there.

## 4. Proofs

TLAPS checks the proofs of eight modules, 31 683 obligations.  They hold for every value of
the constants that satisfies the named assumptions (at least one slot or record, limits
that are natural numbers, model values that differ, and those of 2.2, 2.7, 2.8 and 2.9).  Every theorem
of a property rests on an inductive invariant; TLC finds each true in every state of the
instance of its run, and the steps are proved one action at a time.

- **BtHciProofs** (2.1, 2.3).  `TypeCorrect`; `Inductive` (`[]IInv`), and from it `AddrOwnership`
  (`UniqueAddr`), `Routing`, `Reachability`, `ConfSession` and `SlotOwnership`.  The properties
  are not inductive by themselves.  That a disconnection frees the right slot needs that the
  handles of live links differ (`HandlesApart`) and that free slots are clean (`TableClean`).
  Handle 0 is not excluded: `Routing` says that what the search finds is the owner, nobody, or, for
  0, a device without a connection, and what `Reachability` and `ConfSession` claim of the
  scan and of `bt_dev_conf` ends when such a device is an LE one and is reset (`lost`).
  That the scan comes back needs that an outstanding LE connection always has its slot
  (`CmdKinds`).  `ConfRouted` needs that every session of the client had the lowest LE handle,
  which holds because nobody is connected over LE when it gets in (`ConfLowest` with
  `AdvNotConnected`).
  Of `LeKeys`: `LeRecordsSound` and `LeNoLockOut`.  The invariant adds that a
  controller waiting for its second key has the first one stored (`HalfStored`), that only
  controllers without a record are paired with (`PairsNew`), that a failure clears the
  record (`FailedCleared`), and of the file what it says of the ring.  A cut file is sound because
  its records are those of a sound ring, one torn, or zero (lemma `PrefixSound`); one lemma,
  `FileStep`, covers every handler that writes, with each of the three ends of a write.
- **HciConfigProofs** (2.2).  `StepsSafe` (`EachStepOnce`) and `AcceptSafe` (`AcceptLoaded`),
  for every table and list of bonds.  The invariant `CfgInv` says what may be in the ring
  buffer, in the shared packet and with the controller (`Shape`), that no other context is at
  the packet while no run-time command can be (`Alone`), and two sums: each step up to the
  position is done or on its way, once (`StepsOnce`), and each reading of the address, done or
  on its way, is paid for by a round that came to it or by a failure (`Named`).  `Loaded` is the
  way of a bond into the accept list: behind the index, on its way, or in the list; and once
  the table is past that step, nothing on its way can clear the list.
- **HostProofs** (2.3, 2.4, 2.8).  `KeysSafe`: a controller has one record (`KeyUnique`) and its key
  is its own (`KeysGenuine`), through faults; the invariant says the same of the file as of the
  ring, since the ring becomes the file.  `Implementation`: `LinkKeys` implements `BondList`
  under the mapping `bonds <- BondsOf(ring)`, step by step.  It needs that a ring whose last
  record is free is filled up to its index (`Filled`), and that the file is the ring until the
  first fault.
  `FramesIntact` (`UntornIntact`) and `OffsetSafe` (`OffsetInFrame`): the buffer holds what was sent
  of each untorn frame that is under way (`UntornHeld`); while there is one, every other frame
  under way is torn, which `StartPacket` and `ContPacket` see to (`Tear`).
  `PathNoStuck` (`NoStuck`) and `PathPtrLive` (the half `PtrLive` of `DecodeSafe`), for every
  descriptor, session, input configuration and number of slots.  The invariant `PathInv`
  (`PathKeeps`): what the first output shows was driven by the last report of some type of some slot,
  *and* by an entry whose source is in the mask of that type (`Owned`).  The second part is what
  makes it inductive: a report rewrites every target of an entry in its mask, so the next one of the
  type releases what the last one held if its mask is not smaller.  Masks of a mapping only
  grow (`Grows`), each driver's is one for its type (`Gives`, `PadMask`), and the corrections of a
  pad leave a mask alone or make it the same whenever they are applied (`KeepsMask`, `FixesMask`).
  `PtrKept` says when the stored report behind a pointer is the controller's own.
- **HidSlotLemmas**, **HidSlotProofs** (2.7).  `SlotMapWhole` (`MapWhole`), `SlotInBounds` (`InBounds`),
  `SlotRouted` (`Routed`), `SlotBonded` (`Sw2Bonded`) and `SlotConfigured` (`Configured`), for every session
  of well-formed controllers, every name, map and MTU, any table of reports and any number of
  changes of extension.  `SlotKeeps`: the invariant `Inv`.  Its part `Base` counts the
  timers earlier users left and the retries of this one against `RetryMax` (`Budget`): old timers
  never move a discovery to its next state.  `PadInv` is the discovery, one request at a time
  (`Disc`): which question is under way or answered, and what each state it is past has
  left in the slot - the windows of the name and the map that are there, the entries of `reports[]`
  with their handles and ids, the notifications that were asked for.  `Sw2Inv` is the one set-up of a
  Switch 2 controller after the failed discovery (`Sw2Finds`, `Sw2Drives`, `Sw2Done`).
  `Configured` needs more of the controllers over BR/EDR: that a PlayStation pad is configured or
  its command or timer is on its way (`PsInv`); where each command, answer and timer of a Switch controller
  is, and what its state implies of the LED and of its calibration (`SwInv`); and
  what, since the last change of extension, the Wii driver has still to hear or to send for
  the controller to report as that extension (`WiiInv`).  Timers of an earlier user are part of all
  of it, except for a Switch controller, about which nothing is claimed after such a timer fired.
- **HidSetupProofs** (2.5).  `RecordsReady` (`DataComplete`), `AnswersMatch` (`AnswerMatches`)
  and `PinKnown` (`PinTyped`).  That answers meet the right search needs that there is only one
  at a time (`Searching`), and therefore that nothing is started twice: that each channel is
  opened once and configured once in each direction.  `ChanInv` counts, for a channel, the
  messages under way of either direction; what is missing of two is how many the host has
  handled (`Handled`), and the pending flag is set exactly if that is not none.  `Order` says
  that a channel, and the search, are not begun before both messages of the one before were
  handled.  `Kept` follows the two records from the first response to the task.
- **SmpProofs** (2.6).  `SmpTypeCorrect`, `AnswersMatched` (`QueuesMatched`): entries and
  commands stay matched for any capacity and any number of pairings.  `PairingCorrect`
  (`PairingSound`) and `KeysAfterPeer` (`DistributedLast`) from `PairInv`: slots and connections
  belong to each other (`Links`), and a pairing that is not disturbed is in one of seven phases,
  each of which says what is in the queues for its slot, what the peer waits for and how far
  its slot's values are computed (`InPhase`).
- **ConfigSvcProofs** (2.9).  `SettingsSurvive` (`Survives`), `CutsBounded` (`CutBounded`),
  `EntriesKept` (`UpgradeKeeps`), `WholeRead` (`ReadWhole`) and `CardRead` (`CardReads`).  The
  invariant `SvcIInv`: files and memory are configurations of a known layout (`FileInv`,
  `CfgInv`); a client in the middle of a mapping has selected the window it writes (`JobInv`);
  without a fault, memory is what clients were told plus what is prepared, and the file, once
  it is written, loads as what they were told (`Durable`); a file that was cut while
  it was written loads as a beginning of it (`Beginning`), whatever unit it ends at; and what a client has got of the
  card is a piece of it from the address it selected (`CardInv`).

Recursive functions (the upgrades, the windows of a read, the blocks of a file, the corrections of a
pad, the entries of a mapping) are reasoned about without induction over an operator: a set of
indices at which the claim fails has a least element (`WFMin` of the library, over the
numbers), and the equation of the function leads from it to a smaller one.

Only model-checked, and why:

- the liveness properties `Resolved`, `ConfigEnds`, `SetUp`, `Paired`, `Discovered`, `Settles`:
  liveness under fairness and ENABLED are beyond the proof system;
- `Discovery`: it has no parameter; TLC evaluates all of it, for both builds;
- `MetaPresent`, the other half of `DecodeSafe`: true of the descriptors in the instance, false of a pad
  with axes in two reports, so it would be proved from an assumption that says it;
- `Faithful`: it compares what is decoded with what the user of each listed controller holds,
  descriptor by descriptor, which TLC goes through already;
- `InRange`: the scaling divides and rounds, is in range only for entries with `max` up to 100 and
  the linear response, and needs the metas of `MetaPresent`;
- that the task may parse freed data (`ParsesAvailable`): it is refuted, not proved.

No module here uses a RECURSIVE operator.

## 5. What is not modelled

- Code that does not run at this commit: feedback to controllers and the write-back of the
  memory card (`adapter_q_fb` is empty and `bt_fb_task` compiled out), the system macros (their call is
  compiled out), the keyboard monitor and the wired drivers other than the Xbox's (not in the
  build, or used by nothing in it).  The build for the WavePak does not link: `wired.c` calls
  `wavepak_vx_*`, and `wired/wavepak_vx.c` defines `gp01_*`.
- Registers and endpoints of the console interfaces, the byte transport, the third-party
  headers, the tools and the test server.
- Of the HCI handlers, ROLE_CHANGE, MODE_CHANGE and CONN_UPDATE_COMPLETE, which log or set flags that nothing
  reads; of the configuration service, the contents of a firmware image and of directory listings.
- Contents of messages, formatting and logging.
- Of the GATT client, a response with several characteristics whose UUIDs have 128 bits:
  `att_hid.c:280` goes through it in steps of those with 16 bits and reads handles from
  the middle of entries.  Services of HID over GATT have characteristics of 16 bits only.  And the
  bound of the copy into the 2048 bytes of the report map (`att_hid.c:321`), which the code does
  not check: it holds for the at most 512 bytes an attribute may have.
- Undefined behaviour: beyond the end of `frag_buf` (the guard `off < BufCap` of `ContPacket`),
  of a block of the card (`over`) and of the tables of the parser (bounds kept by the
  descriptors, named in `HidParser` and `HidGeneric`).

## 6. Plan

1. Proofs: `InRange` of `ReportPath`, from an assumption on descriptors that gives `MetaPresent`.
2. `xbox_usb.c`: the timer and the USB task both find the endpoint free and fill one buffer.
3. The composition of `Smp` with `AttHid`: a peer that distributes no keys makes us start the
   discovery before the link is encrypted (`smp.c:284`).
