------------------------------ MODULE SystemState ------------------------------
(***************************************************************************)
(* Booting, the steady and temporary states, what the LED shows of them,   *)
(* and deep sleep: src/main.c, src/state/, src/peripheral/peripheral.c.    *)
(*                                                                         *)
(* Two threads of control share the state.  The main loop only waits for   *)
(* the sleep timeout; the 1 ms tick does the work.  With Bluetooth in the  *)
(* build the tick runs from an interrupt and may come between any two      *)
(* statements of the main loop, never the other way round; without it the  *)
(* main loop calls the tick.                                               *)
(*                                                                         *)
(* Time is counted in ticks.  Colours and waveforms are left out: the LED  *)
(* shows an entry of one of the two tables, or is off.                     *)
(***************************************************************************)
EXTENDS Naturals

CONSTANTS
    Builds,      \* firmware builds: PWMK_ENABLE_USB and PWMK_ENABLE_BLE
    SleepAfter,  \* DEEP_SLEEP_TIMEOUT_US, in ticks
    Duration     \* _temporary_duration_ms, in ticks

\* Temporary states: of saving settings, of Vial, and of connection and slot.
Notices == {"settings", "vial", "link"}

ASSUME SystemAssumption ==
    /\ Builds \subseteq [usb : BOOLEAN, ble : BOOLEAN]
    /\ SleepAfter \in Nat
    /\ Duration \in [Notices -> Nat \ {0}]

VARIABLES
    build,       \* the build that runs
    main,        \* where the main loop, or the start before it, is
    phase,       \* where the tick is: "idle", "tasks" or "end"
    halted,      \* "no", "dormant" or "bootloader"
    steady,      \* current_steady_state
    requested,   \* requested_steady_state
    temp,        \* current_temporary_state
    rendered,    \* rendered_temporary_state
    age,         \* ticks since temporary_state_started_at_ms
    led,         \* the entry led_put_rgb was last called for
    pref,        \* conn_pref
    mounted,     \* usb_hid_is_active()
    connected,   \* ble_is_connected()
    bleOn,       \* ble_is_enabled()
    use,         \* transport this tick chose
    canSend,     \* a can-send-now event was asked for
    pending,     \* event_has_event()
    active,      \* has_activity, before pending events count
    idle,        \* ticks since last_activity_time
    sleepAsked,  \* requested_deep_sleep
    moved,       \* history: a connection changed since the state was resolved
    fresh,       \* history: temp was not the one on the LED when it was set
    shown        \* history: ticks temp was shown since it was set

states == <<steady, requested>>
notice == <<temp, rendered, age, fresh, shown>>
conn == <<pref, mounted, connected, bleOn, use, canSend, pending, moved>>
sleep == <<active, idle, sleepAsked>>
vars == <<build, main, phase, halted, states, notice, led, conn, sleep>>

Runtime == {"USB_WAITING", "BLE_WAITING", "BLE_CONNECTED", "USB_CONNECTED"}
InitErrors == {"INIT_ERROR_BLE", "INIT_ERROR_PERIPHERAL"}
Starting == {"BOOTING", "SYS_INIT", "BLE_INIT", "INIT_COMPLETE"}
Running == halted = "no" /\ main \in {"loop", "prepare", "request", "process", "enter"}

Steady(s) == <<"steady", s>>

\* Entries the LED is dark for.
Dark == {Steady(s) : s \in {"BLE_CONNECTED", "USB_CONNECTED", "DEEP_SLEEP"}} \cup {<<"off">>}

-----------------------------------------------------------------------------
(* state.c                                                                 *)

\* Mutated forms of Resolve: USB always wins; the build does not matter.
ResolveUsbFirst ==
    IF mounted' THEN "USB_CONNECTED"
    ELSE IF connected' THEN "BLE_CONNECTED"
    ELSE IF build.ble /\ (pref' = "ble" \/ ~build.usb) THEN "BLE_WAITING" ELSE "USB_WAITING"

ResolveAnyBuild ==
    IF pref' = "ble"
    THEN IF connected' THEN "BLE_CONNECTED" ELSE IF mounted' THEN "USB_CONNECTED" ELSE "BLE_WAITING"
    ELSE IF mounted' THEN "USB_CONNECTED" ELSE IF connected' THEN "BLE_CONNECTED" ELSE "USB_WAITING"

\* _state_resolve_runtime
Resolve ==
    IF mounted' /\ (pref' = "usb" \/ ~connected') THEN "USB_CONNECTED"
    ELSE IF connected' THEN "BLE_CONNECTED"
    ELSE IF build.ble /\ (pref' = "ble" \/ ~build.usb) THEN "BLE_WAITING"
    ELSE IF build.usb THEN "USB_WAITING" ELSE "INIT_COMPLETE"

\* Mutated forms of StateStep: the connection goes before a request; a
\* request for deep sleep is dropped by the tick.
StateStepResolveFirst ==
    IF steady \in Runtime \cup {"INIT_COMPLETE"}
    THEN steady' = Resolve /\ UNCHANGED requested
    ELSE /\ steady' = IF requested # "NONE" THEN requested ELSE steady
         /\ requested' = "NONE"

StateStepDropsSleep ==
    /\ requested' = "NONE"
    /\ steady' = IF requested = "BOOTLOADER" THEN requested
                 ELSE IF steady \in Runtime \cup {"INIT_COMPLETE"} THEN Resolve ELSE steady

\* state_process_periodic: a request is applied, and only without one the
\* connection decides.
StateStep ==
    /\ steady' = IF requested # "NONE" THEN requested
                 ELSE IF steady \in Runtime \cup {"INIT_COMPLETE"} THEN Resolve ELSE steady
    /\ requested' = "NONE"

\* state_set_temporary_state
SetNotice(n) ==
    /\ temp' = n /\ shown' = 0
    /\ fresh' = (rendered # n)
    /\ UNCHANGED <<rendered, age>>

-----------------------------------------------------------------------------
(* peripheral.c                                                            *)

\* Mutated form of Render: a notice that replaces another inherits its time.
RenderOldTimer ==
    LET now == IF temp # "none" /\ rendered = "none" THEN 0 ELSE age
        expired == temp = "none" \/ now >= Duration[temp]
    IN /\ rendered' = temp
       /\ temp' = IF expired THEN "none" ELSE temp
       /\ age' = IF temp = "none" THEN 0 ELSE IF expired THEN now ELSE now + 1
       /\ shown' = IF expired THEN 0 ELSE IF shown < Duration[temp] THEN shown + 1 ELSE shown
       /\ led' = IF expired THEN Steady(steady') ELSE <<"temp", temp>>
       /\ UNCHANGED fresh

\* peripheral_process_periodic: the time of a notice starts when another is
\* found on the LED; when it is over the steady state is shown again.
Render ==
    LET now == IF temp # rendered THEN 0 ELSE age
        expired == temp = "none" \/ now >= Duration[temp]
    IN /\ rendered' = temp
       /\ temp' = IF expired THEN "none" ELSE temp
       /\ age' = IF temp = "none" THEN 0 ELSE IF expired THEN now ELSE now + 1
       /\ shown' = IF expired THEN 0 ELSE IF shown < Duration[temp] THEN shown + 1 ELSE shown
       /\ led' = IF expired THEN Steady(steady') ELSE <<"temp", temp>>
       /\ UNCHANGED fresh

-----------------------------------------------------------------------------
(* Starting: main() before its loop.                                       *)

Init ==
    /\ build \in Builds
    /\ main = "start" /\ phase = "idle" /\ halted = "no"
    /\ steady = "BOOTING" /\ requested = "NONE"
    /\ temp = "none" /\ rendered = "none" /\ age = 0 /\ fresh = FALSE /\ shown = 0
    /\ led = <<"off">>
    /\ pref = "usb" /\ mounted = FALSE /\ connected = FALSE /\ bleOn = FALSE
    /\ use = "none" /\ canSend = FALSE /\ pending = FALSE /\ moved = FALSE
    /\ active = FALSE /\ idle = 0 /\ sleepAsked = FALSE

\* One state of the start: requested, applied and shown.
Stage(s) ==
    /\ halted = "no"
    /\ steady' = s /\ led' = Steady(s)
    /\ UNCHANGED <<build, phase, halted, requested, notice, sleep>>

BootSystem ==
    /\ main = "start"
    /\ main' = IF build.ble THEN "ble" ELSE "devices"
    /\ Stage("SYS_INIT") /\ UNCHANGED conn

BootBle ==
    /\ main = "ble"
    /\ \/ Stage("BLE_INIT") /\ main' = "devices" /\ bleOn' = TRUE
       \/ Stage("INIT_ERROR_BLE") /\ main' = "error" /\ UNCHANGED bleOn
    /\ UNCHANGED <<pref, mounted, connected, use, canSend, pending, moved>>

BootDevices ==
    /\ main = "devices"
    /\ \/ Stage("INIT_COMPLETE") /\ main' = "complete"
       \/ Stage("INIT_ERROR_PERIPHERAL") /\ main' = "error"
    /\ UNCHANGED conn

BootDone ==
    /\ main = "complete"
    /\ main' = "loop" /\ moved' = FALSE
    /\ UNCHANGED <<pref, mounted, connected, bleOn, use, canSend, pending>>
    /\ Stage(Resolve)

\* _pwmk_run_init_error never returns.
InitError ==
    /\ main = "error"
    /\ led' = Steady(steady)
    /\ UNCHANGED <<build, main, phase, halted, states, notice, conn, sleep>>

-----------------------------------------------------------------------------
(* The tick: _pwmk_process_tick.                                           *)

\* Its main loop calls it, or it interrupts the main loop.
MayTick == phase = "idle" /\ Running /\ (build.ble \/ (main = "loop" /\ ~sleepAsked))

\* The scan may process one key: of a report, of the bootloader, of the
\* transport or of a slot.  Then the radio and the transport are decided on.
TickScan(key) ==
    /\ MayTick
    /\ phase' = "tasks"
    /\ pending' = (pending \/ key = "report")
    /\ requested' = IF key = "boot" THEN "BOOTLOADER" ELSE requested
    /\ pref' = IF key # "toggle" THEN pref ELSE IF pref = "usb" THEN "ble" ELSE "usb"
    /\ IF key = "toggle" \/ (key = "slot" /\ bleOn)
       THEN SetNotice("link") ELSE UNCHANGED notice
    /\ bleOn' = IF build.usb /\ build.ble /\ pref' = "usb" THEN ~mounted
                ELSE bleOn \/ (build.ble /\ pref' = "ble")
    /\ connected' = (connected /\ bleOn')
    /\ canSend' = (canSend /\ bleOn')
    /\ use' = IF pref' = "ble"
              THEN IF connected THEN "ble" ELSE IF mounted THEN "usb" ELSE "none"
              ELSE IF mounted THEN "usb" ELSE IF connected THEN "ble" ELSE "none"
    /\ moved' = (moved \/ pref' # pref \/ connected' # connected)
    /\ active' = FALSE
    /\ UNCHANGED <<build, main, halted, steady, led, mounted, idle, sleepAsked>>

\* What a Vial request may do here, once it is served.
Vial(request) ==
    /\ request # "none" => build.usb /\ mounted
    /\ \/ request \in {"settings", "vial"} /\ SetNotice(request)
       \/ request = "lock" /\ temp' = "none" /\ shown' = 0 /\ UNCHANGED <<rendered, age, fresh>>
       \/ request \notin {"settings", "vial", "lock"} /\ UNCHANGED notice
    /\ requested' = IF request = "reset" THEN "BOOTLOADER" ELSE requested

\* usb_hid_task, and the trackpad when it has data: the host comes or goes,
\* takes reports or sends a Vial request.
TickTasks(plug, request, touch) ==
    /\ phase = "tasks"
    /\ phase' = "end"
    /\ Vial(request)
    /\ mounted' = IF plug THEN ~mounted ELSE mounted
    /\ plug => build.usb
    /\ pending' \in (IF touch THEN {pending, TRUE} ELSE {pending})
                     \cup (IF mounted THEN {FALSE} ELSE {})
    /\ active' = (touch \/ request # "none")
    /\ moved' = (moved \/ plug)
    /\ UNCHANGED <<build, main, halted, steady, led, pref, connected, bleOn, use, canSend,
                   idle, sleepAsked>>

\* Mutated form of Activity: a host that is there keeps the device awake.
ActivityWhileMounted == active \/ pending \/ mounted

Activity == active \/ pending

\* Reports are asked for, the state is resolved, the LED and the timer of
\* the sleep are seen to.  Neither deep sleep nor the bootloader returns.
TickEnd ==
    /\ phase = "end"
    /\ phase' = "idle"
    /\ canSend' = (canSend \/ (use = "ble" /\ pending /\ connected))
    /\ pending' \in IF use = "usb" /\ mounted THEN {pending, FALSE} ELSE {pending}
    /\ UNCHANGED <<build, main, pref, mounted, connected, bleOn, active>>
    /\ use' = "none"
    /\ StateStep
    /\ moved' = (moved /\ requested # "NONE")
    /\ \/ /\ steady' = "DEEP_SLEEP" /\ steady # "DEEP_SLEEP"
          /\ halted' = "dormant"
          /\ UNCHANGED <<notice, led, idle, sleepAsked>>
       \/ /\ steady' = "BOOTLOADER"
          /\ halted' = "bootloader" /\ led' = Steady("BOOTLOADER")
          /\ UNCHANGED <<notice, idle, sleepAsked>>
       \/ /\ steady' # "BOOTLOADER" /\ (steady' = "DEEP_SLEEP" => steady = "DEEP_SLEEP")
          /\ Render
          /\ idle' = IF Activity THEN 0 ELSE IF idle > SleepAfter THEN idle ELSE idle + 1
          /\ sleepAsked' = (sleepAsked \/ idle' > SleepAfter)
          /\ UNCHANGED halted

-----------------------------------------------------------------------------
(* The main loop, on its way to deep sleep.                                *)

Step(from, to) ==
    /\ main = from /\ phase = "idle" /\ halted = "no"
    /\ main' = to
    /\ UNCHANGED <<build, phase, notice, conn, sleep>>

MainCheck == sleepAsked /\ Step("loop", "prepare") /\ UNCHANGED <<halted, states, led>>

\* Mutated form of MainDark: the LED is left as it is.
MainDarkForgotten == Step("prepare", "request") /\ UNCHANGED <<halted, states, led>>

\* peripheral_prepare_deep_sleep, which then sleeps for a millisecond.
MainDark == Step("prepare", "request") /\ led' = <<"off">> /\ UNCHANGED <<halted, states>>

MainRequest ==
    /\ Step("request", "process")
    /\ requested' = "DEEP_SLEEP" /\ UNCHANGED <<halted, steady, led>>

\* state_process_periodic, on the request just made (SleepRequestSurvives).
MainProcess ==
    /\ requested # "NONE"
    /\ Step("process", "enter")
    /\ steady' = requested /\ UNCHANGED <<halted, requested, led>>

\* sleep_enter_deep: from here on nothing interrupts.
MainEnter ==
    /\ Step("enter", "enter")
    /\ halted' = "dormant" /\ UNCHANGED <<states, led>>

-----------------------------------------------------------------------------
(* Events of the Bluetooth stack, between ticks or in ble_poll.            *)

BleChange ==
    /\ phase # "end" /\ halted = "no" /\ bleOn
    /\ connected' = ~connected /\ moved' = TRUE
    /\ canSend' = (canSend /\ connected')
    /\ UNCHANGED <<build, main, phase, halted, states, notice, led, pref, mounted, bleOn,
                   use, pending, sleep>>

BleSent ==
    /\ phase # "end" /\ halted = "no" /\ canSend
    /\ canSend' = FALSE /\ pending' = FALSE
    /\ UNCHANGED <<build, main, phase, halted, states, notice, led, pref, mounted, connected,
                   bleOn, use, moved, sleep>>

\* A key or the trackpad wakes the device, which reboots; so does whoever
\* leaves the bootloader or takes the power.
Restart ==
    /\ halted # "no" \/ main = "error"
    /\ main' = "start" /\ phase' = "idle" /\ halted' = "no"
    /\ steady' = "BOOTING" /\ requested' = "NONE"
    /\ temp' = "none" /\ rendered' = "none" /\ age' = 0 /\ fresh' = FALSE /\ shown' = 0
    /\ led' = <<"off">>
    /\ pref' = "usb" /\ mounted' = FALSE /\ connected' = FALSE /\ bleOn' = FALSE
    /\ use' = "none" /\ canSend' = FALSE /\ pending' = FALSE /\ moved' = FALSE
    /\ active' = FALSE /\ idle' = 0 /\ sleepAsked' = FALSE
    /\ UNCHANGED build

KeyKinds == {"none", "report", "boot", "toggle", "slot"}
Requests == {"none", "settings", "vial", "lock", "reset", "other"}

Next ==
    \/ BootSystem \/ BootBle \/ BootDevices \/ BootDone \/ InitError
    \/ \E key \in KeyKinds : TickScan(key)
    \/ \E plug, touch \in BOOLEAN, request \in Requests : TickTasks(plug, request, touch)
    \/ TickEnd
    \/ MainCheck \/ MainDark \/ MainRequest \/ MainProcess \/ MainEnter
    \/ BleChange \/ BleSent
    \/ Restart

Spec == Init /\ [][Next]_vars

\* The worker reschedules itself every millisecond; the main loop goes on
\* whenever no tick is running, however often one interrupts.
MainStep == MainCheck \/ MainDark \/ MainRequest \/ MainProcess \/ MainEnter

FairSpec ==
    /\ Spec
    /\ WF_vars(\E key \in KeyKinds : TickScan(key))
    /\ WF_vars(\E plug, touch \in BOOLEAN, request \in Requests : TickTasks(plug, request, touch))
    /\ WF_vars(TickEnd)
    /\ WF_vars(BootSystem \/ BootBle \/ BootDevices \/ BootDone)
    /\ SF_vars(MainStep)

-----------------------------------------------------------------------------
(* Properties.                                                             *)

\* Types, and that a build shows no state of a transport it lacks.
TypeOK ==
    /\ build \in Builds
    /\ main \in {"start", "ble", "devices", "complete", "error", "loop", "prepare", "request",
                 "process", "enter"}
    /\ phase \in {"idle", "tasks", "end"} /\ halted \in {"no", "dormant", "bootloader"}
    /\ steady \in Starting \cup Runtime \cup InitErrors \cup {"BOOTLOADER", "DEEP_SLEEP"}
    /\ requested \in {"NONE", "BOOTLOADER", "DEEP_SLEEP"}
    /\ temp \in Notices \cup {"none"} /\ rendered \in Notices \cup {"none"}
    /\ idle \in 0 .. SleepAfter + 1
    /\ shown \in Nat /\ age \in Nat /\ (rendered # "none" => age <= Duration[rendered])
    /\ led \in {Steady(s) : s \in Starting \cup Runtime \cup InitErrors
                                  \cup {"BOOTLOADER", "DEEP_SLEEP"}}
               \cup {<<"temp", n>> : n \in Notices} \cup {<<"off">>}
    /\ pref \in {"usb", "ble"} /\ use \in {"usb", "ble", "none"}
    /\ {mounted, connected, bleOn, canSend, pending, active, sleepAsked, moved, fresh}
          \subseteq BOOLEAN
    /\ steady \in {"BLE_INIT", "BLE_WAITING", "BLE_CONNECTED"} => build.ble
    /\ steady \in {"USB_WAITING", "USB_CONNECTED"} => build.usb

\* Between ticks the state tells the truth about the connection, unless the
\* stack changed that since the last tick; with both links up it names the
\* one preferred.
StateFollowsConnection ==
    phase = "idle" /\ steady \in Runtime /\ ~moved =>
        /\ steady = "USB_CONNECTED" => mounted
        /\ steady = "BLE_CONNECTED" => connected
        /\ steady \in {"USB_WAITING", "BLE_WAITING"} => ~mounted /\ ~connected
        /\ mounted /\ connected => steady = IF pref = "usb" THEN "USB_CONNECTED" ELSE "BLE_CONNECTED"

\* The main loop finds its request for deep sleep as it left it, whatever
\* ticks came between: a tick that applies it does not return.
SleepRequestSurvives == main = "process" /\ phase = "idle" /\ halted = "no" => requested = "DEEP_SLEEP"

\* A build without Bluetooth, whose tick interrupts nobody, sleeps with its
\* LED dark.
DarkWithoutBle == ~build.ble /\ halted = "dormant" => led \in Dark

\* 内部処理_状態管理.md: in deep sleep the LED is off.
DarkInSleep == halted = "dormant" => led \in Dark

\* A notice that was not already on the LED is shown for its whole time,
\* unless another replaces it or Vial takes it back.
NoticeShownInFull ==
    [][phase = "end" /\ temp # "none" /\ temp' = "none" /\ fresh => shown >= Duration[temp]]_vars

\* Once the bootloader is asked for, by key or by Vial, it is entered, even
\* on the way to deep sleep.
BootloaderIsReached == requested = "BOOTLOADER" ~> halted = "bootloader"

\* A device that nobody makes a report on does not stay awake for ever,
\* whichever hosts are there and whatever keys without a report are pressed.
IdleSleeps == <>[](~active /\ ~pending) => []<>(halted # "no" \/ main = "error")

\* プロファイル設定.md: deep_sleep_timeout_ms is the time without operation
\* until deep sleep.  Here: with no operation of keys, trackpad or Vial, and
\* no host, the device sleeps.  The event of the last key waits for a host
\* and counts as activity in every tick.
UnusedSleeps ==
    /\ <>[](~active /\ ~mounted /\ ~connected)
    /\ <>[][pending' => pending]_vars
    => []<>(halted # "no" \/ main = "error")

-----------------------------------------------------------------------------
(* What this is all for.                                                   *)

\* The thread that makes a step, the tick's place and the connection are
\* forgotten; a device that has not halted is on.
Diagram == INSTANCE StateDiagram
    WITH state <- steady, request <- requested,
         power <- IF halted = "no" THEN "on" ELSE halted

\* Two threads that apply requests and a connection that changes at any time
\* go through the states as the diagram has them.
ImplementsStateDiagram == Diagram!Spec
=============================================================================
