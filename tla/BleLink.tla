-------------------------------- MODULE BleLink --------------------------------
(***************************************************************************)
(* The Bluetooth side of the keyboard: the radio, the link and the slots.  *)
(* src/ble/ble.c restarts the radio to change slots, main.c's tick turns   *)
(* it off and on with USB, src/ble/le_device_db_tlv_custom.c keeps one     *)
(* bond per slot, in memory and in the TLV store, and shows the stack only *)
(* the slot selected.                                                      *)
(*                                                                         *)
(* Of the stack the model has what ble.c waits for: a radio that takes     *)
(* time to start and halt, and drops its link before it is off.            *)
(***************************************************************************)
EXTENDS Integers

CONSTANTS
    NSlots,            \* LE_DEVICE_DB_SLOT_COUNT
    Generations,       \* values of a generation byte
    PersistSelected,   \* BLE_PERSIST_SELECTED_SLOT
    StoreOutcomes,     \* what the TLV store may answer: {TRUE} or BOOLEAN
    MaxPresses, MaxBonds, MaxLosses   \* bounds of a run

ASSUME BleAssumption ==
    /\ NSlots \in Nat \ {0} /\ Generations \in Nat \ {0}
    /\ PersistSelected \in BOOLEAN
    /\ StoreOutcomes \subseteq BOOLEAN /\ TRUE \in StoreOutcomes
    /\ {MaxPresses, MaxBonds, MaxLosses} \subseteq Nat

Slots == 0 .. NSlots - 1

VARIABLES
    mounted,      \* usb_hid_is_active()
    pref,         \* conn_pref
    enabled,      \* ble_enabled
    restart,      \* ble_restart_pending
    handle,       \* con_handle is valid
    radio,        \* state of the stack: "off", "starting", "working", "halting"
    link,         \* address the host connected to, or NoLink
    dropping,     \* the stack was told to drop the link
    addr,         \* own address, as set with gap_random_address_set
    selected,     \* selected_slot
    action,       \* pending_action
    target,       \* pending_slot
    gen,          \* address_generation
    bonds,        \* slots[].used and .data: a bond, or NoBond
    tlv,          \* the TLV store: selected slot, generations and bonds
    asked,        \* history: the last slot request accepted and not applied
    forgotten,    \* history: bonds that were deleted
    disturbed,    \* history: power was taken during a restart, or a
                  \* generation could not be saved
    count         \* bounds: presses, bonds and power losses so far

usb == <<mounted, pref>>
stack == <<enabled, restart, handle, radio, link, dropping>>
slotVars == <<addr, selected, action, target, gen, bonds, tlv>>
history == <<asked, forgotten, disturbed>>
vars == <<usb, stack, slotVars, history, count>>

\* Slot and generation determine the address; boards and bytes are left out.
Addresses == Slots \X (0 .. Generations - 1)
NoLink == <<>>

\* The hosts that pair, in the order they do; 0 is none.
Hosts == 1 .. MaxBonds
\* An entry of the device database: a host, the address it knows, and the host
\* the encryption keys were agreed with.
Bonds == [at : Addresses, host : Hosts, keys : Hosts \cup {0}]
NoBond == [at |-> <<>>, host |-> 0, keys |-> 0]
NoRequest == <<"none", 0>>

Address(s) == <<s, gen[s]>>

-----------------------------------------------------------------------------
(* hci_power_control of the stack.                                         *)

PowerOn == radio' = IF radio \in {"off", "halting"} THEN "starting" ELSE radio
PowerOff == radio' = IF radio \in {"starting", "working"} THEN "halting" ELSE radio

\* ble_power_set
PowerSet(on) ==
    /\ enabled' = on
    /\ IF on
       THEN PowerOn /\ UNCHANGED <<handle, dropping>>
       ELSE PowerOff /\ handle' = FALSE /\ dropping' = (dropping \/ handle)
    /\ disturbed' = (disturbed \/ (~on /\ restart))
    /\ UNCHANGED <<restart, link>>

-----------------------------------------------------------------------------
(* Slots                                                                   *)

\* Mutated form of Schedule: a request that is pending is not replaced.
ScheduleFirst(what, slot) ==
    /\ asked' = <<what, slot>>
    /\ action' = IF action = "none" THEN what ELSE action
    /\ target' = IF action = "none" THEN slot ELSE target

\* le_device_db_tlv_schedule_select_slot, ..._schedule_clear_selected_slot
Schedule(what, slot) == action' = what /\ target' = slot /\ asked' = <<what, slot>>

\* ble_reconnect: drop the link, or halt the radio where there is none.
Reconnect ==
    /\ restart' = TRUE
    /\ IF handle
       THEN dropping' = TRUE /\ UNCHANGED radio
       ELSE PowerOff /\ UNCHANGED dropping
    /\ UNCHANGED <<enabled, handle, link>>

\* _le_device_db_write_entry: memory follows the store.
Written(entry, saved) == [bonds EXCEPT ![selected] = IF saved THEN entry ELSE @]

\* le_device_db_add: the entry of the slot selected gets a new host; the
\* encryption data of the host it had is kept.
Added(host, at) == [bonds[selected] EXCEPT !.at = at, !.host = host]

\* le_device_db_encryption_set on that entry.
Encrypted(entry, host) == [entry EXCEPT !.keys = host]

\* _le_device_db_delete_entry
Deleted == [bonds EXCEPT ![selected] = NoBond]
HostsOf(bond) == {bond.host, bond.keys} \ {0}

\* Mutated form of ClearSelected: the bond stays in the store.
ClearSelectedInMemory ==
    /\ gen' = [gen EXCEPT ![selected] = (@ + 1) % Generations]
    /\ bonds' = Deleted
    /\ forgotten' = forgotten \cup ({bonds[selected]} \ {NoBond})
    /\ tlv' = [tlv EXCEPT !.gen = gen']
    /\ UNCHANGED <<selected, disturbed>>

\* _le_device_db_clear_selected_slot_now: the bond goes from the store and
\* from memory, then the generation is advanced, saved or not.
ClearSelected ==
    /\ gen' = [gen EXCEPT ![selected] = (@ + 1) % Generations]
    /\ bonds' = Deleted
    /\ forgotten' = forgotten \cup ({bonds[selected]} \ {NoBond})
    /\ \E saved \in StoreOutcomes :
          /\ tlv' = [tlv EXCEPT !.bonds = Deleted, !.gen = IF saved THEN gen' ELSE @]
          /\ disturbed' = (disturbed \/ ~saved)
    /\ UNCHANGED selected

\* The slot changes even where that could not be saved.
SelectTarget ==
    /\ selected' = target
    /\ \E saved \in StoreOutcomes :
          tlv' = [tlv EXCEPT !.selected = IF PersistSelected /\ saved THEN target ELSE @]
    /\ UNCHANGED <<gen, bonds, forgotten, disturbed>>

\* le_device_db_tlv_apply_pending_slot_action
ApplyPending ==
    /\ \/ action = "select" /\ SelectTarget
       \/ action = "clear" /\ ClearSelected
       \/ action = "none" /\ UNCHANGED <<selected, gen, bonds, tlv, forgotten, disturbed>>
    /\ action' = "none"
    /\ target' = IF action = "none" THEN target ELSE selected'
    /\ asked' = NoRequest

\* Mutated form of ResumeAdvertising: the address is that of the old slot.
ResumeOldAdvertising ==
    addr' = IF enabled THEN Address(selected) ELSE addr

\* _ble_resume_advertising, on what ApplyPending left.
ResumeAdvertising ==
    addr' = IF enabled THEN <<selected', gen'[selected']>> ELSE addr

-----------------------------------------------------------------------------
(* Starting: ble_setup and ble_power_set(true), on what the store kept.    *)

Boot(kept) ==
    /\ enabled' = TRUE /\ restart' = FALSE /\ handle' = FALSE
    /\ radio' = "starting" /\ link' = NoLink /\ dropping' = FALSE
    /\ selected' = kept.selected /\ gen' = kept.gen /\ bonds' = kept.bonds
    /\ action' = "none" /\ target' = kept.selected
    /\ addr' = <<kept.selected, kept.gen[kept.selected]>>
    /\ mounted' = FALSE /\ pref' = "usb"
    /\ tlv' = kept /\ asked' = NoRequest

Init ==
    /\ mounted = FALSE /\ pref = "usb"
    /\ enabled = TRUE /\ restart = FALSE /\ handle = FALSE
    /\ radio = "starting" /\ link = NoLink /\ dropping = FALSE
    /\ selected = 0 /\ gen = [s \in Slots |-> 0] /\ bonds = [s \in Slots |-> NoBond]
    /\ addr = <<0, 0>> /\ action = "none" /\ target = 0
    /\ tlv = [selected |-> 0, gen |-> gen, bonds |-> bonds]
    /\ asked = NoRequest /\ forgotten = {} /\ disturbed = FALSE
    /\ count = [presses |-> 0, bonds |-> 0, losses |-> 0]

-----------------------------------------------------------------------------
(* Keys, from event_platform_process                                       *)

Press == count.presses < MaxPresses /\ count' = [count EXCEPT !.presses = @ + 1]

\* ble_select_slot
Select(slot) ==
    /\ enabled /\ Press
    /\ Schedule("select", slot) /\ Reconnect
    /\ UNCHANGED <<usb, addr, selected, gen, bonds, tlv, forgotten, disturbed>>

\* ble_unpair_selected_slot
Unpair ==
    /\ enabled /\ Press
    /\ Schedule("clear", selected) /\ Reconnect
    /\ UNCHANGED <<usb, addr, selected, gen, bonds, tlv, forgotten, disturbed>>

\* state_switch_connection_preference
SwitchPreference ==
    /\ Press
    /\ pref' = IF pref = "usb" THEN "ble" ELSE "usb"
    /\ IF pref' = "ble" /\ ~enabled THEN PowerSet(TRUE) ELSE UNCHANGED <<stack, disturbed>>
    /\ UNCHANGED <<mounted, slotVars, asked, forgotten>>

\* The tick: BLE is off while USB is there and preferred.
TickPower ==
    /\ pref = "usb" /\ enabled = mounted
    /\ PowerSet(~mounted)
    /\ UNCHANGED <<usb, slotVars, asked, forgotten, count>>

UsbMount ==
    /\ mounted' = ~mounted
    /\ UNCHANGED <<pref, stack, slotVars, history, count>>

-----------------------------------------------------------------------------
(* Events of the stack, to _packet_handler                                 *)

\* BTSTACK_EVENT_STATE: HCI_STATE_WORKING
RadioUp ==
    /\ radio = "starting" /\ link = NoLink
    /\ radio' = "working" /\ restart' = FALSE
    /\ IF restart
       THEN ApplyPending /\ ResumeAdvertising
       ELSE UNCHANGED <<slotVars, history>>
    /\ UNCHANGED <<usb, enabled, handle, link, dropping, count>>

\* Mutated form of RadioDown: the radio stays off.
RadioDownForGood ==
    /\ radio = "halting" /\ link = NoLink
    /\ radio' = "off"
    /\ UNCHANGED <<usb, enabled, restart, handle, link, dropping, slotVars, history, count>>

\* BTSTACK_EVENT_STATE: HCI_STATE_OFF, and on again for a restart.
RadioDown ==
    /\ radio = "halting" /\ link = NoLink
    /\ radio' = IF restart THEN "starting" ELSE "off"
    /\ UNCHANGED <<usb, enabled, restart, handle, link, dropping, slotVars, history, count>>

\* HCI_EVENT_DISCONNECTION_COMPLETE
Disconnected ==
    /\ link # NoLink
    /\ link' = NoLink /\ handle' = FALSE /\ dropping' = FALSE
    /\ IF restart
       THEN PowerOff /\ UNCHANGED <<slotVars, history>>
       ELSE ApplyPending /\ ResumeAdvertising /\ UNCHANGED radio
    /\ UNCHANGED <<usb, enabled, restart, count>>

\* GAP_SUBEVENT_LE_CONNECTION_COMPLETE: a host found the address advertised.
Connected ==
    /\ radio = "working" /\ link = NoLink
    /\ link' = addr /\ handle' = TRUE
    /\ UNCHANGED <<usb, enabled, restart, radio, dropping, slotVars, history, count>>

\* HIDS_SUBEVENT_INPUT_REPORT_ENABLE
ReportEnabled ==
    /\ link # NoLink
    /\ handle' = TRUE
    /\ UNCHANGED <<usb, enabled, restart, radio, link, dropping, slotVars, history, count>>

\* The next host to pair; bounds the pairings stored.
NextHost == count.bonds + 1
Pairs(at) == at # NoLink /\ NextHost <= MaxBonds

\* Mutated form of StoreBond: the bond goes to the slot asked for.
StoreBondOfTarget(host) ==
    /\ bonds' = [bonds EXCEPT ![target] = [at |-> link, host |-> host, keys |-> host]]
    /\ tlv' = [tlv EXCEPT !.bonds = bonds']

\* Mutated form of StoreBond: memory is updated before the store has answered.
StoreBondUnsaved(host) ==
    /\ bonds' = [bonds EXCEPT ![selected] = [at |-> link, host |-> host, keys |-> host]]
    /\ \E saved \in StoreOutcomes : tlv' = [tlv EXCEPT !.bonds = IF saved THEN bonds' ELSE @]

\* What the stack stores when pairing ends: the host, and if that could be
\* stored its keys.
StoreBond(host) ==
    /\ \E added, set \in StoreOutcomes :
          LET entry == Added(host, link)
          IN bonds' = IF added /\ set THEN Written(Encrypted(entry, host), TRUE)
                      ELSE Written(entry, added)
    /\ tlv' = [tlv EXCEPT !.bonds = bonds']

Bonded ==
    /\ Pairs(link)
    /\ StoreBond(NextHost)
    /\ count' = IF bonds' = bonds THEN count ELSE [count EXCEPT !.bonds = NextHost]
    /\ UNCHANGED <<usb, stack, addr, selected, action, target, gen, history>>

PowerLoss ==
    /\ count.losses < MaxLosses
    /\ Boot(tlv)
    /\ count' = [count EXCEPT !.losses = @ + 1]
    /\ UNCHANGED <<forgotten, disturbed>>

\* Power is lost between the host and its keys.
LossWhileBonding ==
    /\ count.losses < MaxLosses /\ Pairs(link)
    /\ Boot([tlv EXCEPT !.bonds = Written(Added(NextHost, link), TRUE)])
    /\ count' = [count EXCEPT !.losses = @ + 1, !.bonds = NextHost]
    /\ UNCHANGED <<forgotten, disturbed>>

\* Power is lost between the two stores of ClearSelected.
LossWhileClearing ==
    /\ count.losses < MaxLosses
    /\ radio = "starting" /\ link = NoLink /\ restart /\ action = "clear"
    /\ Boot([tlv EXCEPT !.bonds = Deleted])
    /\ count' = [count EXCEPT !.losses = @ + 1]
    /\ forgotten' = forgotten \cup ({bonds[selected]} \ {NoBond})
    /\ UNCHANGED disturbed

Next ==
    \/ \E slot \in Slots : Select(slot)
    \/ Unpair \/ SwitchPreference \/ TickPower \/ UsbMount
    \/ RadioUp \/ RadioDown \/ Disconnected
    \/ Connected \/ ReportEnabled \/ Bonded
    \/ PowerLoss \/ LossWhileBonding \/ LossWhileClearing

Spec == Init /\ [][Next]_vars

\* The tick runs every millisecond; the stack ends what it was told to do.
FairSpec ==
    /\ Spec
    /\ WF_vars(TickPower) /\ WF_vars(RadioUp) /\ WF_vars(RadioDown)
    /\ WF_vars(Disconnected /\ (dropping \/ radio # "working"))

-----------------------------------------------------------------------------
(* Properties.                                                             *)

\* Types; above all, the bonds in memory are those in the store, also when
\* the store refused one.
TypeOK ==
    /\ {mounted, enabled, restart, handle, dropping, disturbed} \subseteq BOOLEAN
    /\ pref \in {"usb", "ble"}
    /\ radio \in {"off", "starting", "working", "halting"}
    /\ link \in Addresses \cup {NoLink} /\ addr \in Addresses
    /\ selected \in Slots /\ target \in Slots
    /\ action \in {"none", "select", "clear"}
    /\ gen \in [Slots -> 0 .. Generations - 1]
    /\ bonds \in [Slots -> Bonds \cup {NoBond}]
    /\ tlv \in [selected : Slots, gen : [Slots -> 0 .. Generations - 1], bonds : {bonds}]
    /\ count \in [presses : Nat, bonds : 0 .. MaxBonds, losses : Nat]
    /\ forgotten \subseteq Bonds

\* Whoever looks for the keyboard finds it under the address of the slot
\* selected, whatever restarts and requests came before, provided that no
\* restart was robbed of its power and every generation was saved.
AdvertisesSelectedSlot ==
    radio = "working" /\ link = NoLink /\ ~disturbed => addr = Address(selected)

\* A bond is in the slot whose address its host knows: a request made while
\* the host is pairing waits until the link is gone.
BondBelongsToAddress ==
    ~disturbed => \A s \in Slots : bonds[s] # NoBond => bonds[s].at = Address(s)

\* What is pending is the last request accepted, and an unpairing still
\* concerns the slot that was selected when the key was pressed.
ClearHitsTheSlotAsked ==
    /\ action # "none" => asked = <<action, target>> /\ restart
    /\ action = "clear" => target = selected

\* Nothing of a host that was unpaired is in a slot again, neither its bond
\* nor the keys a later host of the slot took over, in memory or in the
\* store, whatever could not be stored and wherever power is lost.
ForgottenStaysForgotten ==
    \A s \in Slots, b \in forgotten :
        HostsOf(b) \cap (HostsOf(bonds[s]) \cup HostsOf(tlv.bonds[s])) = {}

\* A restart ends once USB no longer comes and goes.
RestartSettles ==
    <>[]mounted \/ <>[]~mounted => (restart ~> ~restart)

\* The slots as PairingSlots has them.
Pairing == INSTANCE PairingSlots
    WITH current <- selected, remembered <- tlv.selected,
         paired <- [s \in Slots |-> HostsOf(bonds[s])],
         request <- asked, gone <- UNION {HostsOf(b) : b \in forgotten}

\* Every restart, pairing, refused store and power loss does what was asked
\* last, as a whole and to the slot it was asked for, or nothing.
ImplementsPairingSlots == Pairing!Spec

\* 内部処理_処理フロー.md: unpairing the selected slot advances its generation
\* and changes the address of the next advertising, so that the old host
\* does not come back.  Here: BLE does not advertise the address of a bond
\* that was deleted.
UnpairedAddressRetired ==
    enabled /\ radio = "working" /\ link = NoLink => \A b \in forgotten : b.at # addr
=============================================================================
