------------------------------ MODULE HidReports ------------------------------
(***************************************************************************)
(* From key and trackpad to host: src/keyboard/event.c and src/hid/hid.c    *)
(* keep the HID state, src/main.c's tick picks a transport,                *)
(* src/peripheral/peripheral.c reads the trackpad, src/usb/usb_hid.c and   *)
(* src/ble/ble.c take reports out.                                         *)
(*                                                                         *)
(* Handlers run one at a time, so a step is a handler.  A tick is several: *)
(* the scan reports key events, the mouse keys repeat, the transport is    *)
(* chosen, the USB task and the BLE poll call back, the trackpad is read,  *)
(* and only then is a report asked for.                                    *)
(*                                                                         *)
(* Modifier and button bytes are the sets of their bits; the 6-entry key   *)
(* arrays, which the code fills and empties without holes, are sequences.  *)
(***************************************************************************)
EXTENDS Pointing, Sequences

CONSTANTS
    Keys,       \* positions of the matrix
    Codes,      \* internal keycodes of the instance
    Setups,     \* builds, and the keymaps they may start with
    MaxSlots,   \* 6, the key entries of a report
    Packets,    \* packets the trackpad may deliver
    MoveThresh, \* MAX(MOUSE_MOVE_THRESH, 1), of event_init
    WheelThresh,\* MAX(MOUSE_WHEEL_THRESH, 1)
    MoveDelta,  \* MOUSE_MOVE_DELTA
    WheelDelta  \* MOUSE_WHEEL_DELTA

\* A code is an opcode with its usage and its modifier bits; the usage of a
\* mouse movement is its mouse_move_key_index_t.  Codes of other opcodes
\* (no-op, transparent, layer, user) reach no handler below.
Code == [op : {"keyboard", "modifier", "consumer", "button", "move", "system", "other"},
         usage : Nat, bits : SUBSET Nat]

\* Mouse movements: each moves its axis one way.
MoveKeys == 0 .. 5
Toward(a, sign) ==
    CASE a = "y" -> IF sign < 0 THEN 0 ELSE 1
      [] a = "x" -> IF sign < 0 THEN 2 ELSE 3
      [] a = "w" -> IF sign < 0 THEN 5 ELSE 4

\* hid_state.mouse has an element per pointing device: the mouse keys, and
\* the trackpad where there is one.
Devices == {"keys", "pad"}

ASSUME KeyAssumption ==
    /\ Codes \subseteq Code
    /\ \A c \in Codes : c.op \notin {"keyboard", "consumer"} \/ c.usage # 0
    /\ \A c \in Codes : c.op = "move" => c.usage \in MoveKeys
    \* PWMK_ENABLE_USB, PWMK_ENABLE_BLE, USE_PINNACLE, and, bounds of the
    \* run, the keys with a finger and the codes a key may be remapped to
    /\ Setups \subseteq [keymap : UNION {[K -> Codes] : K \in SUBSET Keys}, usb : BOOLEAN, ble : BOOLEAN,
                         pinnacle : BOOLEAN, newCodes : SUBSET Codes]
    /\ MaxSlots \in Nat \ {0}

ASSUME MouseAssumption ==
    /\ Packets \subseteq [x : Byte, y : Byte, w : Byte, buttons : SUBSET Nat]
    /\ {MoveThresh, WheelThresh} \subseteq 1 .. Wide - 1
    /\ {MoveDelta, WheelDelta} \subseteq Word

VARIABLES
    pc,           \* "wait" between ticks, "scan", "io" for the callbacks,
                  \* "read" once the trackpad was read
    use,          \* transport this tick chose
    setup,        \* the build
    keymap,       \* settings_get_keycode
    held,         \* prev_gpio_state: the keys whose press was processed
    real,         \* hid_state.keyboard.real_modifier
    virtual,      \* hid_state.keyboard.virtual_modifier
    slots,        \* hid_state.keyboard.keycode
    consumer,     \* hid_state.consumer.keycode
    buttons,      \* hid_state.mouse[].buttons
    moving,       \* mouse_move_key_pressed
    delta,        \* hid_state.mouse[].xDelta, yDelta, wDelta
    pending,      \* has_keyboard_event, has_consumer_event, has_mouse_event
    sample,       \* the packet the trackpad holds ready: a set of one or none
    pref,         \* conn_pref
    mounted,      \* tud_mounted()
    busy,         \* is a report in the USB input endpoint?
    chain,        \* usb_hid_report_chain_active
    bleOn,        \* ble_enabled
    connected,    \* con_handle is valid
    canSend,      \* a can-send-now event was asked for
    sent,         \* history: the last report of each kind taken out
    owed,         \* history: movement made and not reported, while exact
    exact,        \* history: no movement was clamped, wrapped or lost
    order,        \* history: keys held, in the order they were pressed
    crowded,      \* history: a press met what was held, since all were up
    remapped      \* history: a key was remapped while held

mouse == <<buttons, moving, delta, owed, exact>>
hid == <<real, virtual, slots, consumer, mouse, pending, sample>>
link == <<pref, mounted, busy, chain, bleOn, connected, canSend>>
keys == <<setup, keymap, held, order, crowded, remapped>>
vars == <<pc, use, keys, hid, link, sent>>

Kinds == {"keyboard", "consumer", "mouse"}
None == [kind \in Kinds |-> FALSE]

-----------------------------------------------------------------------------
(* event.c                                                                 *)

Has(seq, x) == \E i \in 1 .. Len(seq) : seq[i] = x

\* Mutated form: the free entry is filled without a look at the others.
FilledTwice(seq, x) == IF Len(seq) >= MaxSlots THEN seq ELSE Append(seq, x)

\* Pressing fills the first free entry; a full array drops the key.
Filled(seq, x) == IF Has(seq, x) \/ Len(seq) >= MaxSlots THEN seq ELSE Append(seq, x)

\* Mutated form: the entries behind the released one stay where they are.
EmptiedByLast(seq, x) ==
    IF Has(seq, x) THEN SubSeq(seq, 1, Len(seq) - 1) ELSE seq

\* Mutated form: the last entry fills the gap.
EmptiedBySwap(seq, x) ==
    IF Has(seq, x)
    THEN [i \in 1 .. Len(seq) - 1 |-> IF seq[i] = x THEN seq[Len(seq)] ELSE seq[i]]
    ELSE seq

\* Releasing takes the key out and moves the entries behind it up.
Emptied(seq, x) ==
    IF Has(seq, x)
    THEN LET at == CHOOSE i \in 1 .. Len(seq) : seq[i] = x
         IN [i \in 1 .. Len(seq) - 1 |-> IF i < at THEN seq[i] ELSE seq[i + 1]]
    ELSE seq

\* _event_apply_press/release_keyboard_key for a modifier key: only a change
\* of the byte the report shows is an event.
ModifierKey(c, pressed) ==
    /\ real' = IF pressed THEN real \cup c.bits ELSE real \ c.bits
    /\ pending' = [pending EXCEPT !["keyboard"] = @ \/ real \cup virtual # real' \cup virtual]
    /\ UNCHANGED <<virtual, slots, consumer, mouse, sample>>

\* Mutated form of KeyboardKey: a change of modifiers alone is no event.
KeyboardKeyByUsage(c, pressed) ==
    /\ virtual' = IF pressed THEN virtual \cup c.bits ELSE virtual \ c.bits
    /\ slots' = IF pressed THEN Filled(slots, c.usage) ELSE Emptied(slots, c.usage)
    /\ pending' = [pending EXCEPT !["keyboard"] = @ \/ slots' # slots]
    /\ UNCHANGED <<real, consumer, mouse, sample>>

\* ... for any other key of a keyboard.
KeyboardKey(c, pressed) ==
    /\ virtual' = IF pressed THEN virtual \cup c.bits ELSE virtual \ c.bits
    /\ slots' = IF pressed THEN Filled(slots, c.usage) ELSE Emptied(slots, c.usage)
    /\ pending' = [pending EXCEPT !["keyboard"] =
                      @ \/ virtual' # virtual \/ slots' # slots]
    /\ UNCHANGED <<real, consumer, mouse, sample>>

ConsumerKey(c, pressed) ==
    /\ consumer' = IF pressed THEN Filled(consumer, c.usage) ELSE Emptied(consumer, c.usage)
    /\ pending' = [pending EXCEPT !["consumer"] = @ \/ consumer' # consumer]
    /\ UNCHANGED <<real, virtual, slots, mouse, sample>>

\* _event_process_pointing through event_accumulate_mouse.
ButtonKey(c, pressed) ==
    /\ buttons' = [buttons EXCEPT !["keys"] = IF pressed THEN @ \cup c.bits ELSE @ \ c.bits]
    /\ pending' = [pending EXCEPT !["mouse"] = @ \/ buttons' # buttons]
    /\ UNCHANGED <<real, virtual, slots, consumer, moving, delta, owed, exact, sample>>

\* ... for a movement: a flag that event_process_periodic reads.
MoveKey(c, pressed) ==
    /\ moving' = IF pressed THEN moving \cup {c.usage} ELSE moving \ {c.usage}
    /\ UNCHANGED <<real, virtual, slots, consumer, buttons, delta, owed, exact, pending, sample>>

\* event_platform_process for ISC_CONN_TOGGLE: a press changes sides, and
\* state_switch_connection_preference turns the radio on for BLE.
TogglePreference(pressed) ==
    IF pressed
    THEN /\ pref' = IF pref = "usb" THEN "ble" ELSE "usb"
         /\ bleOn' = (bleOn \/ (setup.ble /\ pref' = "ble"))
    ELSE UNCHANGED <<pref, bleOn>>

\* event_process: each handler passes on the codes that are not its own.
Process(c, pressed) ==
    /\ \/ c.op = "keyboard" /\ KeyboardKey(c, pressed)
       \/ c.op = "modifier" /\ ModifierKey(c, pressed)
       \/ c.op = "consumer" /\ ConsumerKey(c, pressed)
       \/ c.op = "button" /\ ButtonKey(c, pressed)
       \/ c.op = "move" /\ MoveKey(c, pressed)
       \/ c.op \in {"system", "other"} /\ UNCHANGED hid
    /\ IF c.op = "system" THEN TogglePreference(pressed) ELSE UNCHANGED <<pref, bleOn>>
    /\ UNCHANGED <<mounted, busy, chain, connected, canSend>>

-----------------------------------------------------------------------------
(* Movement: event_accumulate_mouse and hid_mouse_to_report_and_consume.    *)

NoMotion == [a \in Axes |-> 0]
Threshold(a) == IF a = "w" THEN WheelThresh ELSE MoveThresh

\* What the mouse keys ask for in a tick, and what 8 bits make of it.
Asked ==
    LET On(key) == IF key \in moving THEN 1 ELSE 0
    IN [a \in Axes |-> (IF a = "w" THEN WheelDelta ELSE MoveDelta)
                           * (On(Toward(a, 1)) - On(Toward(a, -1)))]
KeyMotion == [a \in Axes |-> Int8(Asked[a])]

Accumulated(d, motion) ==
    [delta EXCEPT ![d] = [a \in Axes |-> Int16(delta[d][a] + motion[a])]]

\* _event_has_mouse_move_event
MotionReady(moved) == \E d \in Devices, a \in Axes : Reached(moved[d][a], Threshold(a))

Steps(d) == [a \in Axes |-> Quotient(delta[d][a], Threshold(a))]

\* Mutated form of Rest: what has not reached the threshold is dropped too.
RestDropped(d) == NoMotion

\* What is left of a device's movement once its steps are reported.
Rest(d) == [a \in Axes |-> delta[d][a] - Steps(d)[a] * Threshold(a)]

\* The movement of a report: 16 bits add up the devices, 8 are reported.
Moved == [a \in Axes |-> Clamped(Int16(Steps("keys")[a] + Steps("pad")[a]))]

\* History: a movement was made or reported; ok unless some of it is lost.
Account(made, reported, ok) ==
    /\ exact' = (exact /\ ok)
    /\ owed' = IF exact' THEN [a \in Axes |-> owed[a] + made[a] - Threshold(a) * reported[a]]
               ELSE NoMotion

ConsumeMotion ==
    /\ delta' = [d \in Devices |-> Rest(d)]
    /\ Account(NoMotion, Moved,
               \A a \in Axes : Moved[a] = Steps("keys")[a] + Steps("pad")[a])

-----------------------------------------------------------------------------
(* Taking reports out: event_pop_hid_report.                               *)

Report(kind) ==
    CASE kind = "keyboard" -> [mods |-> real \cup virtual, keys |-> slots]
      [] kind = "consumer" -> [keys |-> consumer]
      [] kind = "mouse" -> [buttons |-> buttons["keys"] \cup buttons["pad"]]

\* event_has_event, by kind.
Ready == {k \in Kinds : pending[k] \/ (k = "mouse" /\ MotionReady(delta))}
HasEvent == Ready # {}

\* Keyboard before consumer before mouse.
NextKind ==
    CASE "keyboard" \in Ready -> "keyboard"
      [] "keyboard" \notin Ready /\ "consumer" \in Ready -> "consumer"
      [] OTHER -> "mouse"

Take(kinds) ==
    /\ pending' = [k \in Kinds |-> pending[k] /\ k \notin kinds]
    /\ sent' = [k \in Kinds |-> IF k \in kinds THEN Report(k) ELSE sent[k]]
    /\ IF "mouse" \in kinds THEN ConsumeMotion ELSE UNCHANGED <<delta, owed, exact>>
    /\ UNCHANGED <<real, virtual, slots, consumer, buttons, moving, sample>>

Pop == Take({NextKind})

\* _usb_hid_send_report_chain
SendNext ==
    \/ HasEvent /\ Pop /\ busy' = TRUE /\ chain' = TRUE
    \/ ~HasEvent /\ chain' = FALSE /\ busy' = FALSE /\ UNCHANGED <<hid, sent>>

-----------------------------------------------------------------------------
Init ==
    /\ pc = "wait" /\ use = "none"
    /\ setup \in Setups /\ keymap = setup.keymap /\ held = {}
    /\ real = {} /\ virtual = {} /\ slots = <<>> /\ consumer = <<>>
    /\ buttons = [d \in Devices |-> {}] /\ moving = {}
    /\ delta = [d \in Devices |-> NoMotion] /\ owed = NoMotion /\ exact = TRUE
    /\ pending = None /\ sample = {}
    /\ pref = "usb" /\ mounted = FALSE /\ busy = FALSE /\ chain = FALSE
    /\ bleOn = setup.ble /\ connected = FALSE /\ canSend = FALSE
    /\ sent = [kind \in Kinds |-> Report(kind)]
    /\ order = <<>> /\ crowded = FALSE /\ remapped = FALSE

TickStart ==
    /\ pc = "wait"
    /\ pc' = "scan"
    /\ UNCHANGED <<use, keys, hid, link, sent>>

\* Something the code carries is already held, or no entry is left for it.
Crowded(c) ==
    \/ /\ c.op = "keyboard"
       /\ Has(slots, c.usage) \/ Len(slots) >= MaxSlots \/ c.bits \cap virtual # {}
    \/ c.op = "modifier" /\ c.bits \cap real # {}
    \/ c.op = "consumer" /\ (Has(consumer, c.usage) \/ Len(consumer) >= MaxSlots)
    \/ c.op = "button" /\ c.bits \cap buttons["keys"] # {}
    \/ c.op = "move" /\ c.usage \in moving

Without(seq, x) ==
    LET at == CHOOSE i \in 1 .. Len(seq) : seq[i] = x
    IN SubSeq(seq, 1, at - 1) \o SubSeq(seq, at + 1, Len(seq))

\* A debounced press or release: event_process.
PressKey(k) ==
    /\ pc = "scan" /\ k \in DOMAIN keymap \ held
    /\ held' = held \cup {k} /\ order' = Append(order, k)
    /\ Process(keymap[k], TRUE)
    /\ crowded' = (crowded \/ Crowded(keymap[k]))
    /\ UNCHANGED <<pc, use, setup, keymap, remapped, sent>>

ReleaseKey(k) ==
    /\ pc = "scan" /\ k \in held
    /\ held' = held \ {k} /\ order' = Without(order, k)
    /\ Process(keymap[k], FALSE)
    /\ crowded' = (crowded /\ held' # {})
    /\ UNCHANGED <<pc, use, setup, keymap, remapped, sent>>

\* _pwmk_process_tick after the scan: event_process_periodic, the radio's
\* power, the choice of a transport.
Decide ==
    LET power == IF setup.usb /\ setup.ble /\ pref = "usb" THEN ~mounted ELSE bleOn
    IN /\ pc = "scan"
       /\ pc' = "io"
       /\ use' = IF pref = "ble"
                 THEN IF connected THEN "ble" ELSE IF mounted THEN "usb" ELSE "none"
                 ELSE IF mounted THEN "usb" ELSE IF connected THEN "ble" ELSE "none"
       /\ bleOn' = power
       /\ connected' = (connected /\ power)
       /\ canSend' = (canSend /\ connected')
       /\ delta' = Accumulated("keys", KeyMotion)
       /\ Account(Asked, NoMotion, \A a \in Axes : delta'["keys"][a] = delta["keys"][a] + Asked[a])
       /\ pending' = [pending EXCEPT !["mouse"] = @ \/ MotionReady(delta')]
       /\ UNCHANGED <<keys, real, virtual, slots, consumer, buttons, moving, sample,
                      pref, mounted, busy, chain, sent>>

\* Mutated form of SendUsb: a chain that was started is left to itself.
SendUsbOnce ==
    \/ mounted /\ ~busy /\ ~chain /\ SendNext
    \/ ~(mounted /\ ~busy /\ ~chain) /\ UNCHANGED <<hid, busy, chain, sent>>

\* usb_hid_send_reports: a busy endpoint is left to its completion callback.
SendUsb ==
    \/ mounted /\ ~busy /\ SendNext
    \/ ~(mounted /\ ~busy) /\ UNCHANGED <<hid, busy, chain, sent>>

\* The tick ends by asking the chosen transport; both look again whether
\* they are still there.
TickEnd ==
    /\ pc = "read" \/ (pc = "io" /\ sample = {})
    /\ pc' = "wait" /\ use' = "none"
    /\ \/ use = "usb" /\ HasEvent /\ SendUsb /\ UNCHANGED canSend
       \/ /\ use = "ble" /\ HasEvent
          /\ canSend' = connected
          /\ UNCHANGED <<hid, busy, chain, sent>>
       \/ /\ use = "none" \/ ~HasEvent
          /\ UNCHANGED <<hid, busy, chain, canSend, sent>>
    /\ UNCHANGED <<keys, pref, mounted, bleOn, connected>>

-----------------------------------------------------------------------------
(* Callbacks of tud_task, inside the tick.                                 *)

\* settings_set_keycode, from a Vial request.
Remap(k, c) ==
    /\ pc = "io" /\ k \in DOMAIN keymap /\ c \in setup.newCodes /\ c # keymap[k]
    /\ keymap' = [keymap EXCEPT ![k] = c]
    /\ remapped' = (remapped \/ k \in held)
    /\ UNCHANGED <<pc, use, setup, held, order, crowded, hid, link, sent>>

\* tud_hid_report_complete_cb: the host took the report, the next one goes.
UsbComplete ==
    /\ pc = "io" /\ busy
    /\ IF chain THEN SendNext ELSE busy' = FALSE /\ UNCHANGED <<hid, chain, sent>>
    /\ UNCHANGED <<pc, use, keys, pref, mounted, bleOn, connected, canSend>>

\* The host comes or goes.  The endpoint is reset with the bus, the chain
\* flag stays as it is.
UsbMount ==
    /\ pc = "io" /\ setup.usb
    /\ mounted' = ~mounted /\ busy' = FALSE
    /\ UNCHANGED <<pc, use, keys, hid, pref, chain, bleOn, connected, canSend, sent>>

(* Events of the Bluetooth stack, between ticks or from ble_poll.          *)

BleConnect ==
    /\ pc \in {"wait", "io"} /\ bleOn /\ ~connected
    /\ connected' = TRUE
    /\ UNCHANGED <<pc, use, keys, hid, pref, mounted, busy, chain, bleOn, canSend, sent>>

BleDisconnect ==
    /\ pc \in {"wait", "io"} /\ connected
    /\ connected' = FALSE /\ canSend' = FALSE
    /\ UNCHANGED <<pc, use, keys, hid, pref, mounted, busy, chain, bleOn, sent>>

\* HIDS_SUBEVENT_CAN_SEND_NOW: _send_report takes out every report there is.
BleCanSend ==
    /\ pc \in {"wait", "io"} /\ canSend
    /\ canSend' = FALSE
    /\ Take(Ready)
    /\ UNCHANGED <<pc, use, keys, pref, mounted, busy, chain, bleOn, connected>>

-----------------------------------------------------------------------------
(* The trackpad.                                                           *)

\* The chip has a packet; it samples every 10 ms, so not twice in a tick,
\* and holds the packet until its status is cleared.
TouchArrives(p) ==
    /\ pc = "wait" /\ setup.pinnacle /\ sample = {}
    /\ sample' = {p}
    /\ Account(Decoded(p), NoMotion, TRUE)
    /\ UNCHANGED <<pc, use, keys, real, virtual, slots, consumer, buttons, moving, delta,
                   pending, link, sent>>

TakeSample(p) ==
    /\ delta' = Accumulated("pad", Decoded(p))
    /\ Account(NoMotion, NoMotion,
               \A a \in Axes : delta'["pad"][a] = delta["pad"][a] + Decoded(p)[a])
    /\ buttons' = [buttons EXCEPT !["pad"] = p.buttons]
    /\ pending' = [pending EXCEPT !["mouse"] = @ \/ buttons' # buttons]

\* peripheral_process_events: read the packet, clear the chip's status.
ReadTrackpad ==
    /\ sample' = {}
    /\ \E p \in sample : TakeSample(p)

\* Mutated form of TrackpadFails: the packet is used whatever i2c_access_failed
\* says.
FailureUsed ==
    /\ sample' = sample
    /\ \E p \in sample : TakeSample(p)

\* An access that fails ends the loop and drops the packet; the write that
\* clears the status may have reached the chip or not.
TrackpadFails ==
    /\ sample' \in {{}, sample}
    /\ Account(NoMotion, NoMotion, sample' = sample)
    /\ UNCHANGED <<buttons, delta, pending>>

TrackpadEvents ==
    /\ pc = "io" /\ sample # {}
    /\ pc' = "read"
    /\ ReadTrackpad \/ TrackpadFails
    /\ UNCHANGED <<use, keys, real, virtual, slots, consumer, moving, link, sent>>

Next ==
    \/ TickStart
    \/ \E k \in Keys : PressKey(k) \/ ReleaseKey(k)
    \/ Decide \/ TickEnd
    \/ \E k \in Keys, c \in Codes : Remap(k, c)
    \/ UsbComplete \/ UsbMount
    \/ TrackpadEvents \/ \E p \in Packets : TouchArrives(p)
    \/ BleConnect \/ BleDisconnect \/ BleCanSend

Spec == Init /\ [][Next]_vars

\* The worker reschedules itself every millisecond, whatever a tick does.  A
\* host that is there takes its reports, and a stack that was asked answers:
\* both wait for the tick to give them a turn, hence strong fairness.
FairSpec ==
    /\ Spec
    /\ WF_vars(TickStart) /\ WF_vars(Decide) /\ WF_vars(TrackpadEvents) /\ WF_vars(TickEnd)
    /\ SF_vars(UsbComplete) /\ SF_vars(BleCanSend)

-----------------------------------------------------------------------------
(* Properties.                                                             *)

Bits == UNION {c.bits : c \in Codes}
Usages == {c.usage : c \in Codes}
Distinct(seq) == \A i, j \in 1 .. Len(seq) : seq[i] = seq[j] => i = j

\* Types; above all, the entries of the keyboard and consumer reports hold
\* no usage twice and never more than a report has room for.
TypeOK ==
    /\ pc \in {"wait", "scan", "io", "read"} /\ use \in {"none", "usb", "ble"}
    /\ setup \in Setups /\ keymap \in [DOMAIN setup.keymap -> Codes] /\ held \subseteq DOMAIN keymap
    /\ {real, virtual} \subseteq SUBSET Bits /\ moving \subseteq MoveKeys
    /\ buttons \in [Devices -> SUBSET Nat] /\ delta \in [Devices -> [Axes -> Word]]
    /\ sample \in {{}} \cup {{p} : p \in Packets} /\ owed \in Motions
    /\ slots \in Seq(Usages) /\ Len(slots) <= MaxSlots /\ Distinct(slots)
    /\ consumer \in Seq(Usages) /\ Len(consumer) <= MaxSlots /\ Distinct(consumer)
    /\ pending \in [Kinds -> BOOLEAN]
    /\ pref \in {"usb", "ble"}
    /\ {mounted, busy, chain, bleOn, connected, canSend, exact, crowded, remapped} \subseteq BOOLEAN

\* The keys held with a code of this kind.
HeldWith(op) == {k \in held : keymap[k].op = op}

\* Nothing is reported that no held key stands for, however presses and
\* releases of keys that share a code, a modifier or the last free entry
\* are mixed: once all keys are up, the host is told of none.
NoPhantomKey ==
    ~remapped =>
        /\ \A i \in 1 .. Len(slots) :
              \E k \in HeldWith("keyboard") : keymap[k].usage = slots[i]
        /\ \A i \in 1 .. Len(consumer) :
              \E k \in HeldWith("consumer") : keymap[k].usage = consumer[i]
        /\ \A b \in virtual : \E k \in HeldWith("keyboard") : b \in keymap[k].bits
        /\ \A b \in real : \E k \in HeldWith("modifier") : b \in keymap[k].bits
        /\ \A b \in buttons["keys"] : \E k \in HeldWith("button") : b \in keymap[k].bits
        /\ \A i \in moving : \E k \in HeldWith("move") : keymap[k].usage = i

\* The entries are the held keys of this kind, in the order of the presses.
ListsHeld(seq, op) ==
    /\ {seq[i] : i \in 1 .. Len(seq)} = {keymap[k].usage : k \in HeldWith(op)}
    /\ \A i, j \in 1 .. Len(seq) : i < j =>
          \E m, n \in 1 .. Len(order) :
             /\ m < n /\ {order[m], order[n]} \subseteq HeldWith(op)
             /\ keymap[order[m]].usage = seq[i] /\ keymap[order[n]].usage = seq[j]

\* As long as no two held keys get in each other's way, the report holds
\* exactly the held keys, the key entries in the order of the presses.
RolloverInOrder ==
    ~remapped /\ ~crowded =>
        /\ ListsHeld(slots, "keyboard")
        /\ ListsHeld(consumer, "consumer")
        /\ virtual = UNION {keymap[k].bits : k \in HeldWith("keyboard")}
        /\ real = UNION {keymap[k].bits : k \in HeldWith("modifier")}
        /\ buttons["keys"] = UNION {keymap[k].bits : k \in HeldWith("button")}
        /\ moving = {keymap[k].usage : k \in HeldWith("move")}

\* No change is forgotten: a kind without an event flag was last taken out
\* in just the state it is in now, whichever transport took it.
NothingForgotten ==
    \A kind \in Kinds : ~pending[kind] => sent[kind] = Report(kind)

\* No movement is lost or made twice, however the repetition of the mouse
\* keys, failing reads of the trackpad and reports interleave: what fingers
\* moved and the hosts were not told, in units of the thresholds, is what the
\* devices still count and the packet not read.
MotionKept ==
    exact => \A a \in Axes :
        owed[a] = delta["keys"][a] + delta["pad"][a]
                      + (IF sample = {} THEN 0 ELSE Decoded(CHOOSE p \in sample : TRUE)[a])

\* A keyboard event is taken out once USB stays mounted and preferred,
\* whatever an earlier unplugging left behind.
UsbDelivers ==
    <>[](mounted /\ pref = "usb") =>
        (pending["keyboard"] ~> ~pending["keyboard"])

\* 内部処理_処理フロー.md: reports go to USB or BLE by the state of the
\* connections and the preference set.  Here: in a tick that has chosen BLE,
\* what is taken out is taken out by a can-send event.
ReportsFollowChoice ==
    [][use = "ble" /\ pending' # pending => canSend /\ ~canSend']_vars
=============================================================================
