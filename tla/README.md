# Verification of the PWMK firmware

TLA+ models of the keyboard firmware under `src/src` (Raspberry Pi Pico W, C),
model-checked with TLC, and proofs about them checked by TLAPS. `PROJECT.json`
lists the runs with their properties, the lines every definition stands for,
the mutations that each property is known to catch, the hazards found while
reading the code, and the theorems.

Paths below are relative to `src/src` unless they start with `docs/`.

## 1. The system

### Threads

`main.c` starts everything and then loops. With Bluetooth, a worker of the SDK's
`async_context_threadsafe_background` runs `_pwmk_process_tick` every
millisecond from a low-priority interrupt, and the handlers of BTstack run in
that same context. Handlers and ticks therefore exclude each other, and any of
them can interrupt the main loop between two statements. Without Bluetooth the
main loop calls the tick itself and nothing interrupts it.

A tick, in order: matrix scan and its events, the repetition of mouse keys,
power of the radio and choice of the transport, `tud_task` (USB callbacks,
Vial), `ble_poll`, trackpad, a request to send if something is pending, the
activity clock and the deep-sleep request, `state_process_periodic`, and the
LED.

### Components

| Component | State | Operations | Correct if |
|---|---|---|---|
| Settings `settings/settings.c` | keymap in RAM, `persistence_unavailable` | init, set a keycode, reset | what it calls persisted survives a reboot; after a failure only RAM changes |
| Persistence `persistence/persistence.c` | `available`, counters of saves and log bytes | restore, commit, rebuild | the image accepted at boot is one that was saved whole |
| Formats `persistence/persistence_format.c` | none | progress analysis and update, record encoding and replay | the loops compute what is meant, at every boundary |
| Flash `persistence/persistence_flash.c` | the region, its layout | erase, program page by page, read | a write touches nothing but its bytes, and fails if a bit would have to be set |
| Keymap `profile/keymap.c` | keymap array | get, set, reset | rejects positions and codes that do not exist |
| Events, HID state `keyboard/event.c`, `hid/hid.c` | modifiers, six entries, consumer entries, buttons and movement of two devices, three event flags | press, release, repeat, accumulate, pop a report | no key without a finger, no forgotten change, no movement lost or made twice |
| Platform keys `keyboard/event_platform.c` | none | transport toggle, slot keys, unpairing, bootloader | the request reaches its component once |
| Matrix scan `keyboard/matrix_scan.c` | last and committed pins, one timer | scan | presses and releases alternate per key |
| USB HID `usb/usb_hid.c` | chain flag, one Vial request | send, completion, set report | every pending report is taken out in turn; requests answered |
| BLE `ble/ble.c` | power wish, connection handle, restart flag | power, reconnect, select, unpair, packet handler | it advertises the address of the slot selected |
| Device database `ble/le_device_db_tlv_custom.c` | selected slot, generations, bonds, one pending action; the TLV store | schedule, apply, add | memory and store agree, deleted bonds stay deleted |
| State `state/state.c` | steady, requested and temporary state, preference | request, set, process | the state tells the truth, requests are not lost |
| Sleep `state/sleep.c` | hardware | enter, reboot on waking | an idle device sleeps, with its LED dark |
| Peripherals, LED `peripheral/peripheral.c`, `led/led.c` | shown notice and its start | periodic, prepare sleep | a notice is shown for its time |
| Vial `vial/vial.c` | lock, unlock timer | Via and Vial commands | locked keyboards refuse dangerous writes |
| Keycodes `keyboard/code.c`, `code_convert.c` | none | validate, convert | conversion keeps the code |
| Trackpad `pinnacle/pinnacle.c` | I2C device, table of speeds | read a packet | a packet is used at most once, whichever access fails |
| Tools `tools/*.py` | none | build headers from a profile | runs on the developer's machine |

Interactions: keys go from the scan through settings (keycode of a position) to
events, from there to the HID state or, for system codes, to platform keys,
which call state, BLE and the database. USB and BLE take reports out of the HID
state. Vial calls settings, which calls persistence and sets a notice. The tick
feeds the connection, activity and requests into state, and state into the LED.

What is hard here: power loss and failing operations while saving; the tick
against the main loop; the radio, which takes time, against USB plugging and
slot keys; reports taken out by three callers; keys that share codes or
modifiers. Section 7 gives the list as hazards.

## 2. Modules

| Module | Models | Kind |
|---|---|---|
| `KeymapStore` | what saving the keymap promises | abstract specification |
| `ProgressSlots` | meaning of the progress array | operators |
| `Persistence` | settings over persistence over flash | detailed specification, implements `KeymapStore` |
| `FlashPages` | layout of the region, programming page by page | algorithm under `Persistence` |
| `ProgressFormat` | the progress analysis loop and the slot update, bit by bit | algorithm, checked against `ProgressSlots` |
| `LogFormat` | record encoding, the chunk loop of commit, replay | algorithm |
| `Pointing` | arithmetic of the trackpad and of movement, in its widths | operators |
| `HidReports` | keys and trackpad to reports over USB and BLE | specification, extends `Pointing` |
| `PairingSlots` | what the slot and pairing keys promise | abstract specification |
| `BleLink` | radio, slots, addresses, bonds | detailed specification, implements `PairingSlots` |
| `StateDiagram` | the diagram of the steady states | abstract specification |
| `SystemState` | start, tick, main loop, notices, sleep | detailed specification, implements `StateDiagram` |
| `Keycodes` | valid internal codes, their translation to Vial's codes and back | algorithm |
| `MatrixScan` | debouncing | state and step, part of `Vial` |
| `Vial` | lock, keymap requests, keymap lookup, the request queue of USB | composes `MatrixScan` and `Keycodes` |
| `PersistenceProofs`, `ProgressProofs`, `LogProofs`, `HidProofs`, `BleLinkProofs`, `SystemStateProofs`, `VialProofs` | section 4 | theorems about the module named (`PersistenceProofs` also about `FlashPages`) |
| `NaturalSets` | least and greatest members of sets of numbers | lemmas of the others |

`MC*` modules give constants to TLC.

### Persistence

One action is one flash operation with the code that runs up to it, because
power can go between any two. `pc` is the operation the call in progress has
reached; `marker`, `serial`, `progress`, `built`, `log` are the region; the rest
are the static variables of `persistence.c` and `settings.c`. `EraseAll` to
`FinishRebuild` are `persistence_rebuild`, `Commit` to `FinishRecord`
`persistence_commit` with `_persistence_append_log`; `PowerOn` is
`settings_init`, `SetKeycode`, `ResetKeymap` and `SetRefused` the calls of the
settings. `Fail` and `Succeed` are what the callers do with the result.

An operation may succeed, or fail having changed nothing, part or all of what it
writes. Power loss inside an operation leaves the flash as such a failure does,
so it is a failure followed by `PowerLoss`. A record carries the key it rewrites
with its size in bytes; sizes are constants per key, because a fixed record has
six bytes and one at the end of the image may be a variable one.

Assumed: an erase that is interrupted after it changed the first sector has
destroyed the marker. The format has no checksum, so nothing else could tell.
Left out: `persistence_init` refusing an image larger than the region (when it
does is `Fits` in `FlashPages`).

`FlashPages` says why an operation may be taken so. It has the layout of
`persistence_flash_init` and the loop of `persistence_flash_program`, a turn per
page: buffer, the check that no bit is set, the page, reading it back. `Torn` is
a chip that refuses or stops anywhere in a page. `AreasShareNoPage` and
`ProgramIsAnOutcome` are about constants only, so `MCPersistence` states them as
assumptions, which TLC evaluates in the run `persist_core`, and they are proved.

`KeymapStore` forgets all this: one stored copy or none, a live keymap, and a
status. `Store` in `Persistence` is the mapping; `Whole` says when the region
counts as a stored copy. `PersistedIsStored` and `StoredStays` say what a caller may
rely on; they are proved of the abstract specification and so hold of the code's model.

### ProgressFormat and LogFormat

`ProgressFormat` runs `persistence_format_progress_analyze` slot by slot on two
bytes and compares the result with `ProgressSlots`, which is what `Persistence`
uses; it also starts and completes slots. `LogFormat` has records as bytes. Its
byte has `B` values, and `B - 1` plays FF, so that an offset whose high byte is
FF, a record of erased bytes and a difference longer than a record's capacity
all occur in small images. It runs the general loop over chunks, which
`Persistence` reduces to one record; that this loses nothing is
`CommitChangesOneKey`, checked and proved there. `After` is the replay loop as a
function of the number of records read. `LogAssumption` asks for more than two
values of a byte: with two, the header of a variable record could be all FF.

### HidReports

Handlers exclude each other, so one handler is one step; the tick is split where
others can come between: scan, mouse keys and choice of the transport (`Decide`),
USB task and BLE poll, trackpad, end. Entry arrays have no holes in the code, so
they are sequences; modifier and button bytes are sets of bits. `sent` is the
report last handed to a stack. `keymap` may change while a key is held (`Remap`).

`delta` are the 16-bit counters of the two devices of `hid_state.mouse`: the
mouse keys, which each tick adds to (`KeyMotion`, converted to 8 bits as the call
does), and the trackpad. `sample` is the packet the chip holds. `ReadTrackpad`
takes it, `TrackpadFails` drops it, and then the write that clears the status may
have reached the chip or not. A report takes whole thresholds out of both devices
(`Steps`, `Moved`) and leaves the `Rest`.

History: `order` (which takes keys out by a definition of its own, `Without`),
`crowded` and `remapped` say in which cases the properties about keys are stated.
`owed` is all movement made and not yet reported, in counts, and `exact` becomes
false where the code is known to lose some: a counter that wraps, a step beyond what
a report can hold, a packet dropped with its status cleared.

Left out: USB suspend, the user callback (taken as its default), and a stack
refusing a report (the sources ignore the result). A connection lost between two
reports of one can-send event is taken as lost after them.

### BleLink

The radio behaves as `ble.c` uses it: `hci_power_control` starts and stops it with a
delay, the STATE event is atomic with the change, a link is down before the radio is
off, and a stack with advertising enabled goes on advertising. `Address(s)` stands
for the address derived from the slot and its generation. A bond is a record: the
address its host knows, the host, and the host its keys were agreed with. `Bonded`
is what the security manager does after a pairing, an entry and then its keys in a
second store. A new host takes over the entry of the slot with the keys in it, which
the code intends (「既存の暗号化情報も必要なら引き継ぐ」, `ble/le_device_db_tlv_custom.c`); they are
its own after the second store. `tlv` is the store; each of its writes may fail
(`StoreOutcomes`), `LossWhileBonding` is the power loss between the two stores of a
bond, and `LossWhileClearing` the one between deleting a bond and writing the
generation. `disturbed` is a history variable: a generation was not saved, or a
restart was robbed of its power, the case of the finding `ble_unpair`.

`PairingSlots` leaves out the radio, its restarts, addresses and keys: there is a current
slot, the hosts each slot knows, and the last request. A request is granted whole and
once, an unpairing empties the slot that was current when it was asked for, and losing
power loses the request or grants it. `Pairing` in `BleLink` is the mapping: the hosts of
a slot are those its bond names, `remembered` is what the store would bring back.

### SystemState

Main and tick are two processes. With Bluetooth, the tick may run between any
two statements of the main loop; without, only at its place in the loop
(`MayTick`). A tick takes one unit of time and processes at most one key, and its
three parts are split at the calls that let the stacks in. Waveforms of the LED
are named by the table entry they come from. Waking is a reboot, as in the code.
The branch of the main loop for a request that is gone when it looks again is
left out, because `SleepRequestSurvives`, proved as `RequestIsNotLost`, shows that it is
not reached.

`StateDiagram` has only the build, the steady state, the request and whether the device is
on: the start goes through its stages, then requests go before the connection, and deep
sleep and the bootloader are left by starting again. `Diagram` in `SystemState` is the
mapping; which thread makes a step and where the tick stands are forgotten. A step of the
main loop that sets or applies a request is a step of the diagram like one of the tick.

### Vial, MatrixScan and Keycodes

A tick of `Vial` is a scan and then the delivery of requests; `Tick` takes what
the pins read and the time since the tick before, as ticks come late after a
flash operation. The clock itself is not there: `quiet` and `heldFor` are the
differences to `last_change_time` and `unlock_hold_started_at_ms`, capped where
the code stops telling them apart. One request can be pending; one that arrives
then is dropped by the code and is no step here, `Unmount` takes the pending one
back. `keymap` has the order of the array in the code, by layer and layout index,
with the entries of places without a switch. A save is its outcome; what flash
does is the subject of `Persistence`. The bootloader request ends the firmware.

`acknowledged`, `comboFor` and `pollGap` are history: the code the host was last
told it had set at a position, the time the combination has been pressed as the
scan sees it, and how far apart the polls of one hold were.

`Keycodes` writes an internal code as <<opcode, mode, operand>>; the tables of the code
are sets of rows. `VialRoundTrip` says that every code of Vial that is accepted becomes
one valid internal code and is shown again as what it was. It is about tables only: it is
proved, and `MCVial` has it as an assumption, which TLC evaluates for all 65536 codes.

Left out: whether an answer reaches the host; requests that read constants.

## 3. Runs

| Run | Instance | Distinct states | Shows |
|---|---|---|---|
| `persist_core` | 2 keys, 2 codes, 2 builds, 3 slots, 13 bytes of log; pages of 2 and 3 bytes | 21,578 | types; persisted means durable; accepted images are whole; one record per commit; a failure freezes the flash; saves end; implements `KeymapStore`; the two assumptions about `FlashPages` |
| `persist_failed` | same | violation | finding, see 6 |
| `progress` | every first byte with seven second bytes | 111,624 | the loop computes the definition, updates stay in their slot |
| `log` | `B` = 4, images of 10 and 15 bytes, 6 saves, 28 bytes of log, 2 commits | 64,277 | read-back, progress of the chunk loop, the count identifies the log, records go on erased bytes only |
| `hid` | 4 keys, 3 entries, counters of 2 and 3 bits, a trackpad with failing reads, USB and BLE, remapping | 440,709 | no phantom key, order of entries, nothing forgotten, no movement lost or made twice, USB delivers |
| `chain` | 2 keys, 2 entries, a key and the transport toggle, both transports | violation | finding |
| `ble` | 2 slots, 3 presses, 2 bonds, failing store, 1 power loss | 1,085,476 | slot, address and bonds stay together, a forgotten host stays forgotten, restarts end; implements `PairingSlots` |
| `ble_unpair` | same, reliable store | violation | finding |
| `power` | 3 builds, sleep after 1 idle unit, 3 kinds of notice | 312,112 | state follows connection, notices are shown, idle devices sleep, the bootloader is reached; implements `StateDiagram` |
| `power_awake` | same | violation | finding |
| `power_dark` | same | violation | finding |
| `vial` | 2 switches in a 1 x 3 matrix, 2 layers, debounce 1, hold 3, ticks 1 or 2 apart, 2 changes | 145,170 | unlocking takes holding, a bootloader key needs it, acknowledged writes are read back, a matrix at rest is reported |

Why the bounds are enough. Persistence treats keys alike apart from the size of
their records; two keys are the least that make a change of one key differ from a
reset, and with two sizes for the second key the log is filled exactly, or missed by
one byte. Three slots allow a rebuild, two appends and running out. Two builds are a
reflash and a return. In `progress` a slot's neighbours in the byte and across a
byte boundary are all that the shifts can touch. In `log` five chunks of a
difference meet a log with room for four. Four keys with three entries give an
overflow by one, which is what the arrays can tell apart from six entries and seven
keys, and a release that leaves two entries in one order. With narrow counters a few
ticks without a host reach both ends of the range, which take the real ones
thousands; a speed goes beyond what a packet carries, and movement needs two steps
to be reported. In `ble` two slots and three presses let one request overtake
another while a third arrives in the restart; generations do not wrap within them.
Pages of two and three bytes in a region of six give writes that begin and end
inside a page, on its edge, and over several pages; one bit stands for a byte,
because bits are programmed independently. In `power` a notice is as long as falling
asleep, so that either may end first.

In `vial` the layout lists the switches against the order of the matrix and the
middle place has none, so that index and position differ everywhere; two layers
and two changes let one write meet the entry of another. The bound of
`UnlockTakesHolding` is sharp: with polls one unit further apart TLC finds the
keyboard unlocked over a release.

`CHECK_DEADLOCK FALSE` stands in `progress` and `log`, whose behaviours end when
the bounded input is used up, and in `vial`, where the bootloader ends the
firmware.

### Fairness

- `Persistence`: weak fairness of `SaveStep`. Saving is straight-line code; it
  continues unless power is lost, and power loss is always possible.
- `HidReports`: weak fairness of the tick's steps, the trackpad's included, which a timer
  drives. Strong
  fairness of the completion and of the can-send event: the stacks call back
  while the host is there, but it may go and come.
- `BleLink`: weak fairness of the tick's power management and of the radio
  reaching the state it was told to. Disconnection is fair only when the
  firmware or the radio brings it about.
- `SystemState`: weak fairness of start and tick. Strong fairness of the main
  loop's statements, because with Bluetooth ticks interrupt it again and again
  and disable it while they run; no fairness of any input.
- `Vial`: weak fairness of the scan, which a timer drives, and of
  `usb_hid_task` returning; none of the host's requests.

## 4. Proofs

`PersistenceProofs` proves, for all sets of keys, codes and builds, any number of
slots, size of the log and record sizes, under `StorageAssumption`:

- `InductiveInvariant`: `Spec => []IInv`;
- `TypeCorrect`, `PersistedKeymapSurvives`, `AcceptedImageIsWhole`,
  `OneRecordCarriesAChange`: the four invariants of the run `persist_core`;
- `FailureFreezesFlash`: the action property `FrozenAfterFailure`;
- `Refinement`: `Spec => Store!StoreSpec`, and from it `PersistedStays`: what is called
  persisted is in flash, and stays there until the next save begins;
- `ChecksOnlyCatchFaults`: the checks on the way of a save find what they expect, so a
  save fails only because the flash did;
- `SaveComesNearer`: each step of a save leaves fewer flash operations of it
  (`OperationsLeft`), so no save goes in circles.

None of the invariants is inductive. That a region judged complete is whole
depends on what an unfinished save may have left, and that depends on the step at
which it stopped. `IInv` is `TypeOK` with two parts. `FlashInv` relates the
contents to the progress array alone, so it survives power loss and failures:
if the array reads complete, image and log are `Clean`. `PhaseInv` says for each
value of `pc` what the running call has already written (`Building` for a
rebuild, `Adding` for an append, `Ready` between calls), so that the step which
marks a slot done finds the data in place. `Filled(p, n, v)` describes an array of n
completed slots with v behind them; `FilledCount` and `FilledState`
compute its meaning once, and `ReplayAppend` gives the effect of one more record.
The refinement needs `IInv` before and after a step: what a step leaves is the old
copy, no copy, or the copy of the live keymap, and success is reported only with
the last.

The two results on `FlashPages` are about any page size and region that
`PagesAssumption` allows. `AreasAreOnTheirOwnPages` is arithmetic of multiples.
`ProgramHasOneOutcome` follows the loop turn by turn (`TurnsAre`, `TurnsAreGood`): before
every turn the bytes behind are written and the bytes ahead are as before, and a
torn page changes only bytes of its own turn. It is what allows `Persistence` to take an
operation as one step with the outcomes it has.

The other modules are proved in the same way, for every value of the constants
that the assumption of the module allows:

- `HidProofs`. `MotionKept` follows from `MotionInv`, which needs that a report
  takes whole thresholds and leaves less than one on the same side of zero
  (`QuotientRest`) and that a conversion which fits changes nothing
  (`WrappedExact`). `NothingForgotten` is inductive with the types of the report
  flags (`ReportedInv`). `NoPhantomKey` needs that no usage is twice in an array
  (`KeyInv`; `FilledEntries`, `EmptiedEntries` are the two loops over it).
  `RolloverInOrder` needs that held keys which are not crowded have codes `Apart`,
  and what the two loops do to the order (`EmptiedOrder`, `ReleaseOrder`).
  Together (`HidInv`) they say what a host knows: `HostKnowsTheFingers` and
  `NoKeySticks` relate the reports last taken out to the fingers, not only to the HID
  state. `PointerDoesNotDrift` bounds what the rests of the division may add up to.
  `ReportsComeToAnEnd` says that each turn of a transport takes out one kind or all and
  makes none ready. `PacketsAreTurned` is about the arithmetic of the trackpad: only the
  byte that has no negative may be turned the wrong way.
- `BleLinkProofs`. `AddressInv`: unless a restart lost its power or a generation
  was not saved, the store has the generations of memory, and the address set, like
  that of any link, is the one of the selected slot. `HostsApart` is the reason that
  forgotten hosts stay away: no two slots share a host, by bond or by keys, no slot
  has one that was forgotten, and all of them have paired before, so that a later
  host is none of them. The refinement `SlotsAreAsPromised` needs both and that an
  unpairing names the slot it was asked for (`ClearHitsTheSlotAsked`); `HostsStayApart`
  is then a property of `PairingSlots`. `RadioInv` says for each state of radio and link
  what a restart waits for (`RestartIsUnderWay`); with it `RestartComesNearer` counts the
  steps left.
- `SystemStateProofs`. `ControlInv` says where the main loop may be for each
  steady state, request and tick under way, `DarkInv` when the LED of a build without
  Bluetooth is dark, `ShownInv` that a notice which was not on the LED when it was
  set has been shown for at least its age. The refinement `StatesAreAsDrawn` needs
  `ControlInv` and `StageInv`, which relates the stage of the start to the state shown;
  `BootloaderIsNotLost` and `ConnectionHasToWait` are properties of the diagram carried
  through it. `SleepComesNearer` says that the count to deep sleep and the main loop's way
  there only go forward, unless there is activity.
- `ProgressProofs`. `LoopInv` describes what the slots passed so far have been;
  the bytes are arbitrary, their bits are computed by cases.
- `LogProofs`. `LogInv` relates memory, image, log and the chunk loop. What replay
  computes is a matter of induction over records, which is done by taking the least record
  for which a claim fails (`NaturalSets`). `LogAssumption`, with more than two values of a
  byte, is used: a header can then not be mistaken for erased flash. From `LogInv`,
  `RecordsAreNotOverwritten` shows `RecordsGoOnErased`, that programming meets erased
  bytes only, and `OneKeyOneRecord` that a change within one record's data takes one record or a rebuild,
  which is the abstraction that `Persistence` makes.
- `VialProofs`. `HoldInv` says that while a hold counts, the polls are too far
  apart, or the combination has been pressed for as long as the hold, or a key has
  been up since the last poll and cannot have been reported down again.
  `EveryVialCodeReturns` proves `VialRoundTrip` by the kinds of codes, with the tables as
  sets of rows that are apart in both columns; `EveryShownCodeIsAccepted` is the other
  direction, with its exceptions: 0 and keypad keys with modifiers.
  `AcknowledgedReadsBack` follows from the positions of entries being apart and from the
  first. `QuietMatrixIsReported` says of the scan that only a change starts the timer
  anew and that what is quiet long enough is reported as read.

Only model-checked: all liveness (`SaveSettles`, `UsbDelivers`, `RestartSettles`,
`IdleSleeps`, `BootloaderIsReached`, `SettledMatrixIsReported`), which is out of the
prover's reach; and the violated properties, which are false. The safety half of each
liveness property is proved - that something is always under way, and that no step leads
away from the end: `SaveComesNearer`, `ReportsComeToAnEnd`, `RestartIsUnderWay` with
`RestartComesNearer`, `SleepComesNearer`, `BootloaderIsNotLost`, `QuietMatrixIsReported`.
What remains is that the steps are taken, which is fairness.

## 5. What is not modelled

- `pinnacle/pinnacle.c` below the packet: initialisation, calibration and the
  register protocol of one chip. `HidReports` has what a read may come to.
- Of the device database, sequence numbers, which nothing reads but the choice of
  the next one; entries of another size in the store; removal asked by the stack
  itself.
- The result of handing a report to a stack, which the sources ignore; USB
  suspend; the user callback of an event, which boards may define.
- Whether Vial's answers reach the host; requests that read constants.
- The waveforms of the LED, advertising data, descriptors, debug output and the
  build tools: tables, formatting, or a program that runs alone.

`PROJECT.json` says for each component what is missing.

## 6. Where code and documents differ

Five runs are expected to be violated, and `PROJECT.json` quotes the
documents.

- `persist_failed`: the document says that a failed save leads to the default
  keymap at the next boot. When the first operation fails without effect,
  the previous image is still valid and comes back.
- `chain`: reports go by connection and preference, but a USB completion goes on
  taking reports after the user changed to BLE.
- `ble_unpair`: unpairing must renew the address. If USB is mounted during the
  restart that applies it, the radio works with BLE disabled, and once
  BLE is enabled again the address of the deleted bond is advertised.
- `power_awake`: the time to deep sleep is documented as time without operation. A key
  pressed while no host is there leaves an event that nobody takes, and every tick
  counts it as activity: the device never sleeps.
- `power_dark`: the LED must be off in deep sleep. A tick between darkening and
  sleeping lights it again.

Read in the code and not made a run: slot and transport keys do not count as
activity; a notice set again right after its own expiry is never shown; a slot key
that overtakes an unpairing drops it after the LED confirmed it; `docs/内部処理_状態管理.md`
starts peripherals before BLE, `main.c` after it; a keypad key with modifiers is
shown to Vial as modifiers on nothing, a code the keyboard refuses to take back;
unlocking overlooks a release that fits between two polls; a key held while entering deep
sleep keeps its column from waking the device.

`docs/内部処理_状態管理.md` is not of one mind about USB and BLE both connected: its
lines 73 to 79 give the rule of the code, that the connection preference decides, and
say that USB is not always taken; the drawings of lines 154 to 160 and 270 to 273 still
put USB first. `SystemState` follows the code, and with it the former.

About movement, where `exact` becomes false in `HidReports`: what a report clamps
away is consumed with it, though `hid/hid.c` says that only what was converted is;
nothing limits `mouse_*_delta`, so a large one changes its sign in 8 bits; with a
threshold of 1, two devices may add up to more than 16 bits; a packet is lost when
its read failed and the write that clears the status did not. A trackpad that cannot
be read counts as activity in each tick as long as its line is high.

## 7. Hazards and the plan

The hazards of `PROJECT.json` that have a note and no property are the plan's
first candidates.

Done: saving down to the pages of the flash, reports of keys and movement, the BLE
link with its bonds, the system state, and Vial with the matrix scan and the
keycodes; the safety and action properties of all of them are proved, the three
refinements, and the safety halves of the liveness properties. Left, in this order:

1. A host that refuses a report, with the report then lost (`usb/usb_hid.c`), and a
   transport switched between press and release.
2. The device database against a store that holds entries of another size, and removal by
   the stack.
3. Proofs: an abstract specification of the lock of Vial, and one of what a host may
   rely on in reports, each implemented by its module; that the outcomes
   `Persistence` gives an operation are those `FlashPages` computes, as one theorem.
