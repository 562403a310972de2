-------------------------------- MODULE Vial --------------------------------
(***************************************************************************)
(* The Vial and Via protocol of src/vial/vial.c, between the matrix scan   *)
(* it reads and the keymap of src/settings/settings.c and                  *)
(* src/profile/keymap.c it changes, with the one request of the USB        *)
(* endpoint, src/usb/usb_hid.c.                                            *)
(*                                                                         *)
(* A tick scans the matrix and then lets the USB stack deliver requests,   *)
(* of which the first is executed.  Requests that only ask are not in the  *)
(* model; what the host would read is BufferByte and GetKeycode.           *)
(***************************************************************************)
EXTENDS MatrixScan, Keycodes

CONSTANTS
    Rows, Cols, Layers,   \* ROWS, COLS, KEYMAP_LAYER_COUNT
    Layout,               \* layout[index]: its <<row, col>>, or none such
    Default,              \* KEYMAP: internal code of each keymap entry
    Combo,                \* vial_unlock_combo
    Hold,                 \* VIAL_UNLOCK_HOLD_MS
    TickTimes,            \* times between two ticks
    Requests,             \* requests the host makes
    MaxWrites             \* bound: changes made to the keymap

PerLayer == Rows * Cols
Entry == 0 .. Layers * PerLayer - 1
Position == (0 .. Rows - 1) \X (0 .. Cols - 1)

ASSUME VialAssumption ==
    /\ {Rows, Cols, Layers} \subseteq Nat
    /\ Layout \in [0 .. PerLayer - 1 -> Int \X Int]
    /\ \A n \in Entry : Valid(Default[n])
    /\ Combo \subseteq Switch
    /\ Hold \in Nat
    /\ TickTimes \subseteq Nat \ {0}
    /\ \A request \in Requests :
          request[1] = "set" => request[2] \in Nat /\ request[5] \in VialCode
    /\ MaxWrites \in Nat

VARIABLES
    phase,      \* what the tick does next
    pending,    \* the request received and not executed, if any
    unlocked,
    unlocking,  \* unlock_in_progress
    comboHeld,  \* unlock_combo_held
    heldFor,    \* time since unlock_hold_started_at_ms, up to Hold
    keymap,     \* settings_state.dynamic_keymap
    ramOnly,    \* persistence_unavailable
    bootAsked,  \* the bootloader was requested: the firmware ends
    writes      \* changes made to the keymap

(* History, read by no action: the code last acknowledged at a position    *)
(* and not overwritten since, the time the whole combo has been pressed,   *)
(* and the time since the last poll while it counts, which remains at      *)
(* TooLong once two polls were so far apart.                               *)
VARIABLES acknowledged, comboFor, pollGap

lockVars == <<unlocked, unlocking, comboHeld, heldFor>>
settingsVars == <<keymap, ramOnly, writes, acknowledged>>
vars == <<scanVars, phase, pending, lockVars, settingsVars, bootAsked, comboFor, pollGap>>

TooLong == Debounce + 2
NoRequest == <<>>
Pause(time) == Min({TooLong, time})
ComboPressed == \A key \in Combo : IsPressed(key)

-----------------------------------------------------------------------------
(* The keymap, keymap.c.                                                   *)

Exists(index) == Layout[index] \in Position

\* keyswitch_index_lookup: a later index of the same position overwrites.
Lookup(row, col) == {i \in DOMAIN Layout : Exists(i) /\ Layout[i] = <<row, col>>}

ValidPosition(layer, row, col) == layer < Layers /\ Lookup(row, col) # {}

\* Mutated form of EntryOf: the layer is forgotten.
EntryOfFirstLayer(layer, row, col) == Max(Lookup(row, col))

EntryOf(layer, row, col) == layer * PerLayer + Max(Lookup(row, col))

DefaultKeymap ==
    [n \in Entry |-> IF Exists(n % PerLayer) THEN Default[n] ELSE NoOp]

\* settings_get_keycode
Keycode(layer, row, col) ==
    IF ValidPosition(layer, row, col) THEN keymap[EntryOf(layer, row, col)] ELSE NoOp

\* What request 0x04 answers.
GetKeycode(layer, row, col) ==
    LET shown == ToVial(Keycode(layer, row, col))
    IN  IF shown = {} THEN 0 ELSE CHOOSE v \in shown : TRUE

\* One byte of the Dynamic Keymap Buffer, request 0x12.
BufferByte(offset) ==
    LET n == offset \div 2
        cell == n % PerLayer
        code == GetKeycode(n \div PerLayer, cell \div Cols, cell % Cols)
    IN  IF n \notin Entry THEN 0
        ELSE IF offset % 2 = 0 THEN code \div 256 ELSE code % 256

-----------------------------------------------------------------------------
Unacknowledged == -1
Place == {p \in (0 .. Layers - 1) \X (0 .. Rows - 1) \X (0 .. Cols - 1) :
             ValidPosition(p[1], p[2], p[3])}

Init ==
    /\ ScanInit
    /\ phase = "scan" /\ pending = NoRequest
    /\ unlocked = FALSE /\ unlocking = FALSE /\ comboHeld = FALSE /\ heldFor = 0
    /\ keymap = DefaultKeymap /\ ramOnly \in BOOLEAN
    /\ bootAsked = FALSE /\ writes = 0
    /\ acknowledged = [p \in Place |-> Unacknowledged]
    /\ comboFor = 0 /\ pollGap = 0

\* matrix_scan_process, at the start of the tick.
Tick(raw, elapsed) ==
    /\ phase = "scan" /\ ~bootAsked
    /\ Scan(raw, elapsed)
    /\ phase' = "usb"
    /\ heldFor' = Min({Hold, heldFor + elapsed})
    /\ pollGap' = IF comboHeld THEN Pause(pollGap + elapsed) ELSE 0
    /\ comboFor' = IF ComboPressed /\ ComboPressed' THEN Min({Hold, comboFor + elapsed}) ELSE 0
    /\ UNCHANGED <<pending, unlocked, unlocking, comboHeld, settingsVars, bootAsked>>

(* tud_task.  A request that comes while one is pending is dropped.        *)
Changing(request) == request[1] \in {"set", "reset"}

Receive(request) ==
    /\ phase = "usb" /\ pending = NoRequest
    /\ Changing(request) => writes < MaxWrites
    /\ pending' = request
    /\ UNCHANGED <<scanVars, phase, lockVars, settingsVars, bootAsked, comboFor, pollGap>>

Unmount ==
    /\ phase = "usb" /\ pending # NoRequest
    /\ pending' = NoRequest
    /\ UNCHANGED <<scanVars, phase, lockVars, settingsVars, bootAsked, comboFor, pollGap>>

-----------------------------------------------------------------------------
(* Locking.  Every operator below is the part of a request that it names.  *)

UnlockStart ==
    /\ IF unlocked THEN UNCHANGED <<unlocking, comboHeld>>
       ELSE unlocking' = TRUE /\ comboHeld' = FALSE
    /\ UNCHANGED <<unlocked, heldFor>>

\* Mutated forms of UnlockPoll: a release is overlooked, unlocking goes on.
PollIgnoresRelease ==
    IF unlocked \/ ~unlocking \/ ~ComboPressed THEN UNCHANGED lockVars
    ELSE IF ~comboHeld THEN
        comboHeld' = TRUE /\ heldFor' = 0 /\ UNCHANGED <<unlocked, unlocking>>
    ELSE IF heldFor < Hold THEN UNCHANGED lockVars
    ELSE unlocked' = TRUE /\ unlocking' = FALSE /\ comboHeld' = FALSE /\ UNCHANGED heldFor

PollStaysUnlocking ==
    IF unlocked \/ ~unlocking THEN UNCHANGED lockVars
    ELSE IF ~ComboPressed THEN comboHeld' = FALSE /\ UNCHANGED <<unlocked, unlocking, heldFor>>
    ELSE IF ~comboHeld THEN
        comboHeld' = TRUE /\ heldFor' = 0 /\ UNCHANGED <<unlocked, unlocking>>
    ELSE IF heldFor < Hold THEN UNCHANGED lockVars
    ELSE unlocked' = TRUE /\ comboHeld' = FALSE /\ UNCHANGED <<unlocking, heldFor>>

\* _vial_update_unlock_state: the hold begins with the first poll that finds
\* the combo pressed and is broken only by a poll that does not.
UnlockPoll ==
    IF unlocked \/ ~unlocking THEN UNCHANGED lockVars
    ELSE IF ~ComboPressed THEN comboHeld' = FALSE /\ UNCHANGED <<unlocked, unlocking, heldFor>>
    ELSE IF ~comboHeld THEN
        comboHeld' = TRUE /\ heldFor' = 0 /\ UNCHANGED <<unlocked, unlocking>>
    ELSE IF heldFor < Hold THEN UNCHANGED lockVars
    ELSE unlocked' = TRUE /\ unlocking' = FALSE /\ comboHeld' = FALSE /\ UNCHANGED heldFor

Lock ==
    /\ unlocked' = FALSE /\ unlocking' = FALSE /\ comboHeld' = FALSE
    /\ UNCHANGED heldFor

\* History of a poll: a gap counts between two polls of one hold.
NotePoll ==
    pollGap' = IF ~comboHeld' THEN 0
               ELSE IF comboHeld /\ pollGap = TooLong THEN TooLong
               ELSE 0

-----------------------------------------------------------------------------
(* Changing the keymap.                                                    *)

\* _settings_persist_current_state and _settings_rebuild_current_state.
Save(persisted) ==
    /\ persisted => ~ramOnly
    /\ ramOnly' = ~persisted
    /\ writes' = writes + 1

Refused == UNCHANGED settingsVars

\* settings_set_keycode; only a save that reached flash is acknowledged.
Store(place, n, internal, v) ==
    IF keymap[n] = internal
    THEN /\ acknowledged' = [acknowledged EXCEPT ![place] = IF ramOnly THEN @ ELSE v]
         /\ UNCHANGED <<keymap, ramOnly, writes>>
    ELSE \E persisted \in BOOLEAN :
         /\ Save(persisted)
         /\ keymap' = [keymap EXCEPT ![n] = internal]
         /\ acknowledged' =
                [acknowledged EXCEPT ![place] = IF persisted THEN v ELSE Unacknowledged]

\* Mutated form of WriteAllowed: unlocking is enough.
WriteAllowedEarly(v) == unlocked \/ unlocking \/ ~Dangerous(v)

\* _vial_keycode_write_allowed
WriteAllowed(v) == unlocked \/ ~Dangerous(v)

SetKeycode(layer, row, col, v) ==
    \/ /\ WriteAllowed(v) /\ ValidPosition(layer, row, col)
       /\ \E internal \in ToInternal(v) :
             /\ Valid(internal)
             /\ Store(<<layer, row, col>>, EntryOf(layer, row, col), internal, v)
    \/ /\ ~WriteAllowed(v) \/ ~ValidPosition(layer, row, col) \/ ToInternal(v) = {}
       /\ Refused

\* settings_reset
ResetKeymap ==
    \/ ~unlocked /\ Refused
    \/ unlocked /\ keymap = DefaultKeymap /\ Refused
    \/ /\ unlocked /\ keymap # DefaultKeymap
       /\ \E persisted \in BOOLEAN : Save(persisted)
       /\ keymap' = DefaultKeymap
       /\ acknowledged' = [p \in Place |-> Unacknowledged]

BootloaderJump == bootAsked' = (bootAsked \/ unlocked)

-----------------------------------------------------------------------------
(* _usb_hid_process_vial with vial_handle_packet, at the end of the tick.  *)

NoPending ==
    /\ pending = NoRequest
    /\ UNCHANGED <<lockVars, settingsVars, bootAsked, pollGap>>

ProcessStart ==
    /\ pending = <<"start">> /\ UnlockStart
    /\ pollGap' = IF comboHeld' THEN pollGap ELSE 0
    /\ UNCHANGED <<settingsVars, bootAsked>>

ProcessPoll ==
    /\ pending = <<"poll">> /\ UnlockPoll /\ NotePoll
    /\ UNCHANGED <<settingsVars, bootAsked>>

ProcessLock ==
    /\ pending = <<"lock">> /\ Lock
    /\ pollGap' = 0
    /\ UNCHANGED <<settingsVars, bootAsked>>

ProcessSet ==
    /\ pending # NoRequest /\ pending[1] = "set"
    /\ SetKeycode(pending[2], pending[3], pending[4], pending[5])
    /\ UNCHANGED <<lockVars, bootAsked, pollGap>>

ProcessReset ==
    /\ pending = <<"reset">> /\ ResetKeymap
    /\ UNCHANGED <<lockVars, bootAsked, pollGap>>

ProcessBoot ==
    /\ pending = <<"boot">> /\ BootloaderJump
    /\ UNCHANGED <<lockVars, settingsVars, pollGap>>

ProcessVial ==
    /\ phase = "usb"
    /\ phase' = "scan" /\ pending' = NoRequest
    /\ NoPending \/ ProcessStart \/ ProcessPoll \/ ProcessLock
         \/ ProcessSet \/ ProcessReset \/ ProcessBoot
    /\ UNCHANGED <<scanVars, comboFor>>

Next ==
    \/ \E raw \in SUBSET Switch, elapsed \in TickTimes : Tick(raw, elapsed)
    \/ \E request \in Requests : Receive(request)
    \/ Unmount
    \/ ProcessVial

\* The tick runs for ever; usb_hid_task returns.
Fairness ==
    /\ WF_vars(\E raw \in SUBSET Switch, elapsed \in TickTimes : Tick(raw, elapsed))
    /\ WF_vars(ProcessVial)

Spec == Init /\ [][Next]_vars /\ Fairness

-----------------------------------------------------------------------------
(* Types, and: unlocking ends when it succeeds, the timer runs only while  *)
(* unlocking (_vial_update_unlock_state), and the keymap holds valid codes *)
(* only.                                                                   *)
TypeOK ==
    /\ ScanTypeOK
    /\ phase \in {"scan", "usb"}
    /\ pending \in Requests \cup {NoRequest}
    /\ {unlocked, unlocking, comboHeld, ramOnly, bootAsked} \subseteq BOOLEAN
    /\ ~(unlocked /\ unlocking)
    /\ comboHeld => unlocking
    /\ heldFor \in 0 .. Hold
    /\ DOMAIN keymap = Entry /\ \A n \in Entry : Valid(keymap[n])
    /\ writes \in 0 .. MaxWrites
    /\ acknowledged \in [Place -> {Unacknowledged} \cup VialCode]
    /\ comboFor \in 0 .. Hold /\ pollGap \in 0 .. TooLong

(* Unlocking takes the whole combo, pressed without a break for the hold   *)
(* time - if the host polls at least once in any Debounce + 1: releasing   *)
(* and pressing a key again takes longer, so a poll falls in between.      *)
(* With slower polls a release goes unnoticed; then only the polls found   *)
(* the combo pressed (_vial_update_unlock_state, matrix_scan_process).     *)
UnlockTakesHolding ==
    [][(~unlocked /\ unlocked') => (pollGap = TooLong \/ comboFor >= Hold)]_vars

(* A key that starts the bootloader enters the keymap, and the bootloader  *)
(* is asked for, only while unlocked - although the lock tests the code of *)
(* Vial and the keymap stores the internal one (_handle_via_command,       *)
(* code_convert_to_internal).                                              *)
BootCodeNeedsUnlock ==
    [][unlocked \/ /\ ~(~bootAsked /\ bootAsked')
                   /\ \A n \in Entry : keymap'[n] = Boot => keymap[n] = Boot]_vars

(* What the host was told was set, it reads back at that position by both  *)
(* ways of reading: no other write, reset that failed or key without a     *)
(* place in the matrix has disturbed it (_keymap_buffer_get_byte,          *)
(* keymap_get, keymap_set).                                                *)
AcknowledgedReadsBack ==
    \A place \in Place :
        LET l == place[1]  r == place[2]  c == place[3]
            at == 2 * (l * PerLayer + r * Cols + c)
        IN  acknowledged[place] # Unacknowledged =>
                /\ GetKeycode(l, r, c) = acknowledged[place]
                /\ 256 * BufferByte(at) + BufferByte(at + 1) = acknowledged[place]

(* A matrix that comes to rest is reported as it is, whatever chattered    *)
(* before: the timer of the matrix is not restarted by anything else than  *)
(* a change (matrix_scan_process).                                         *)
SettledMatrixIsReported ==
    \/ []<><<last' # last>>_vars
    \/ <>[](prev = last)
    \/ <>bootAsked
=============================================================================
