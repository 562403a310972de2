--------------------------- MODULE SystemStateProofs ---------------------------
(* Proofs about SystemState, for any set of builds and any times.          *)
EXTENDS SystemState, TLAPS

-----------------------------------------------------------------------------
(* Types, in parts.                                                        *)

SteadyStates == Starting \cup Runtime \cup InitErrors \cup {"BOOTLOADER", "DEEP_SLEEP"}
Mains == {"start", "ble", "devices", "complete", "error", "loop", "prepare", "request",
          "process", "enter"}

\* A transport is up only in a build that has it, and connected only while
\* it is up.
ConnTypes ==
    /\ pref \in {"usb", "ble"} /\ use \in {"usb", "ble", "none"}
    /\ mounted \in BOOLEAN /\ connected \in BOOLEAN /\ bleOn \in BOOLEAN
    /\ canSend \in BOOLEAN /\ pending \in BOOLEAN /\ moved \in BOOLEAN
    /\ build \in Builds
    /\ connected => bleOn
    /\ bleOn => build.ble
    /\ mounted => build.usb
    /\ main = "ble" => build.ble

FlowTypes ==
    /\ main \in Mains
    /\ phase \in {"idle", "tasks", "end"} /\ halted \in {"no", "dormant", "bootloader"}
    /\ steady \in SteadyStates
    /\ requested \in {"NONE", "BOOTLOADER", "DEEP_SLEEP"}
    /\ steady \in {"BLE_INIT", "BLE_WAITING", "BLE_CONNECTED"} => build.ble
    /\ steady \in {"USB_WAITING", "USB_CONNECTED"} => build.usb

NoticeTypes ==
    /\ temp \in Notices \cup {"none"} /\ rendered \in Notices \cup {"none"}
    /\ shown \in Nat /\ age \in Nat /\ (rendered # "none" => age <= Duration[rendered])
    /\ fresh \in BOOLEAN

SleepTypes ==
    /\ active \in BOOLEAN /\ sleepAsked \in BOOLEAN
    /\ idle \in 0 .. SleepAfter + 1

LedTypes ==
    led \in {Steady(s) : s \in SteadyStates} \cup {<<"temp", n>> : n \in Notices} \cup {<<"off">>}

TypeInv == ConnTypes /\ FlowTypes /\ NoticeTypes /\ SleepTypes /\ LedTypes

LEMMA TypeParts == TypeInv => TypeOK
  <1> SUFFICES ASSUME TypeInv PROVE TypeOK
    OBVIOUS
  <1>1. {mounted, connected, bleOn, canSend, pending, active, sleepAsked, moved, fresh}
           \subseteq BOOLEAN
    BY DEF TypeInv, ConnTypes, NoticeTypes, SleepTypes
  <1> QED BY <1>1 DEF TypeInv, ConnTypes, FlowTypes, NoticeTypes, SleepTypes, LedTypes,
                      TypeOK, SteadyStates, Mains

LEMMA ConnStep ==
    ASSUME ConnTypes, [Next]_vars PROVE ConnTypes'
  <1> USE DEF ConnTypes, conn
  <1>1. ASSUME NEW key \in KeyKinds, TickScan(key) PROVE ConnTypes'
    BY <1>1 DEF TickScan, MayTick, Running, SetNotice
  <1>2. ASSUME NEW plug \in BOOLEAN, NEW touch \in BOOLEAN, NEW request \in Requests,
              TickTasks(plug, request, touch)
       PROVE  ConnTypes'
    BY <1>2 DEF TickTasks, Vial, SetNotice
  <1>3. CASE TickEnd
    BY <1>3 DEF TickEnd, StateStep, Resolve
  <1>4. CASE BootSystem
    BY <1>4 DEF BootSystem, Stage
  <1>5. CASE BootBle
    BY <1>5 DEF BootBle, Stage
  <1>6. CASE BootDone
    BY <1>6 DEF BootDone, Stage, Resolve
  <1>7. CASE MainStep
    BY <1>7 DEF MainStep, MainCheck, MainDark, MainRequest, MainProcess, MainEnter, Step
  <1>8. CASE BleChange
    BY <1>8 DEF BleChange
  <1>9. CASE BleSent
    BY <1>9 DEF BleSent
  <1>10. CASE Restart
    BY <1>10 DEF Restart
  <1>11. CASE BootDevices \/ InitError \/ UNCHANGED vars
    BY <1>11 DEF BootDevices, Stage, InitError, vars
  <1> QED BY <1>1, <1>2, <1>3, <1>4, <1>5, <1>6, <1>7, <1>8, <1>9, <1>10, <1>11 DEF Next, MainStep

LEMMA FlowStep ==
    ASSUME ConnTypes, ConnTypes', FlowTypes, [Next]_vars PROVE FlowTypes'
  <1> USE DEF FlowTypes, ConnTypes, SteadyStates, Mains, Starting, Runtime, InitErrors, states
  <1>1. CASE BootDone
    BY <1>1 DEF BootDone, Stage, Resolve
  <1>2. ASSUME NEW key \in KeyKinds, TickScan(key) PROVE FlowTypes'
    BY <1>2 DEF TickScan, MayTick, Running, SetNotice
  <1>3. ASSUME NEW plug \in BOOLEAN, NEW touch \in BOOLEAN, NEW request \in Requests,
              TickTasks(plug, request, touch)
       PROVE  FlowTypes'
    BY <1>3 DEF TickTasks, Vial, SetNotice
  <1>4. CASE TickEnd
    BY <1>4 DEF TickEnd, StateStep, Resolve
  <1>5. CASE MainStep
    BY <1>5 DEF MainStep, MainCheck, MainDark, MainRequest, MainProcess, MainEnter, Step
  <1>6. CASE Restart
    BY <1>6 DEF Restart
  <1>7. CASE BootSystem \/ BootBle \/ BootDevices \/ InitError \/ BleChange \/ BleSent
           \/ UNCHANGED vars
    BY <1>7 DEF BootSystem, Stage, BootBle, BootDevices, InitError, BleChange, BleSent,
       vars
  <1> QED BY <1>1, <1>2, <1>3, <1>4, <1>5, <1>6, <1>7 DEF Next, MainStep

LEMMA NoticeStep ==
    ASSUME NoticeTypes, [Next]_vars PROVE NoticeTypes'
  <1> USE DEF NoticeTypes, notice, Notices
  <1>1. ASSUME NEW key \in KeyKinds, TickScan(key) PROVE NoticeTypes'
    <2>1. \/ UNCHANGED notice
          \/ /\ temp' \in Notices \cup {"none"} /\ shown' = 0 /\ UNCHANGED <<rendered, age>>
             /\ fresh' \in BOOLEAN
      BY <1>1 DEF TickScan, SetNotice
    <2> QED BY <2>1
  <1>2. ASSUME NEW plug \in BOOLEAN, NEW touch \in BOOLEAN, NEW request \in Requests,
              TickTasks(plug, request, touch)
       PROVE  NoticeTypes'
    <2>1. \/ UNCHANGED notice
          \/ /\ temp' \in Notices \cup {"none"} /\ shown' = 0 /\ UNCHANGED <<rendered, age>>
             /\ fresh' \in BOOLEAN
      BY <1>2 DEF TickTasks, Vial, SetNotice
    <2> QED BY <2>1
  <1>3. CASE TickEnd
    <2>1. CASE UNCHANGED notice
      BY <2>1
    <2>2. CASE Render
      <3> DEFINE now == IF temp # rendered THEN 0 ELSE age
      <3>1. now \in Nat /\ (temp # "none" => now <= Duration[temp] /\ Duration[temp] \in Nat)
          BY SystemAssumption
      <3>2. rendered' = temp /\ temp' \in {temp, "none"} /\ fresh' = fresh
        BY <2>2 DEF Render
      <3>3. shown' \in {0, shown, shown + 1}
        BY <2>2 DEF Render
      <3>4. \/ temp = "none" /\ age' = 0
            \/ temp # "none" /\ now >= Duration[temp] /\ age' = now
            \/ temp # "none" /\ ~(now >= Duration[temp]) /\ age' = now + 1
        BY <2>2 DEF Render
      <3> HIDE DEF now
      <3>5. age' \in Nat /\ (temp # "none" => age' <= Duration[temp])
        BY <3>1, <3>4
      <3> QED BY <3>2, <3>3, <3>5
    <2> QED BY <1>3, <2>1, <2>2 DEF TickEnd
  <1>4. CASE Restart
    BY <1>4 DEF Restart
  <1>5. CASE BootSystem \/ BootBle \/ BootDevices \/ BootDone \/ InitError \/ MainStep
           \/ BleChange \/ BleSent \/ UNCHANGED vars
    BY <1>5 DEF BootSystem, Stage, BootBle, BootDevices, BootDone, Resolve, InitError,
       MainStep, MainCheck, MainDark, MainRequest, MainProcess, MainEnter, Step,
       BleChange, BleSent, vars
  <1> QED BY <1>1, <1>2, <1>3, <1>4, <1>5 DEF Next, MainStep

LEMMA SleepStep ==
    ASSUME SleepTypes, [Next]_vars PROVE SleepTypes'
  <1> USE DEF SleepTypes, sleep
  <1>1. ASSUME NEW key \in KeyKinds, TickScan(key) PROVE SleepTypes'
    BY <1>1 DEF TickScan, MayTick, Running, SetNotice
  <1>2. ASSUME NEW plug \in BOOLEAN, NEW touch \in BOOLEAN, NEW request \in Requests,
              TickTasks(plug, request, touch)
       PROVE  SleepTypes'
    BY <1>2 DEF TickTasks, Vial, SetNotice
  <1>3. CASE TickEnd
    <2>1. SleepAfter \in Nat
      BY SystemAssumption
    <2>2. active' \in BOOLEAN
      BY <1>3 DEF TickEnd
    <2>3. idle' \in {0, idle, idle + 1} /\ (idle' = idle + 1 => ~(idle > SleepAfter) \/ idle' = idle)
      BY <1>3 DEF TickEnd
    <2>4. sleepAsked' \in BOOLEAN
      BY <1>3, <2>1 DEF TickEnd
    <2> QED BY <2>1, <2>2, <2>3, <2>4
  <1>4. CASE Restart
    <2>1. 0 \in 0 .. SleepAfter + 1
      BY SystemAssumption
    <2> QED BY <1>4, <2>1 DEF Restart
  <1>5. CASE BootSystem \/ BootBle \/ BootDevices \/ BootDone \/ InitError \/ MainStep
           \/ BleChange \/ BleSent \/ UNCHANGED vars
    BY <1>5 DEF BootSystem, Stage, BootBle, BootDevices, BootDone, Resolve, InitError,
       MainStep, MainCheck, MainDark, MainRequest, MainProcess, MainEnter, Step,
       BleChange, BleSent, vars
  <1> QED BY <1>1, <1>2, <1>3, <1>4, <1>5 DEF Next, MainStep

LEMMA LedStep ==
    ASSUME FlowTypes, FlowTypes', NoticeTypes, LedTypes, [Next]_vars PROVE LedTypes'
  <1> USE DEF LedTypes, FlowTypes
  <1>1. CASE TickEnd
    <2>1. \/ led' = led
          \/ led' = Steady(steady')
          \/ led' = Steady("BOOTLOADER")
          \/ temp # "none" /\ led' = <<"temp", temp>>
      BY <1>1 DEF TickEnd, Render
    <2> QED BY <2>1 DEF NoticeTypes, SteadyStates
  <1>2. ASSUME NEW key \in KeyKinds, TickScan(key) PROVE LedTypes'
    BY <1>2 DEF TickScan, MayTick, Running, SetNotice
  <1>3. ASSUME NEW plug \in BOOLEAN, NEW touch \in BOOLEAN, NEW request \in Requests,
              TickTasks(plug, request, touch)
       PROVE  LedTypes'
    BY <1>3 DEF TickTasks, Vial, SetNotice
  <1>4. CASE MainStep
    BY <1>4 DEF MainStep, MainCheck, MainDark, MainRequest, MainProcess, MainEnter, Step
  <1>5. CASE BootSystem \/ BootBle \/ BootDevices \/ BootDone \/ InitError \/ BleChange
           \/ BleSent \/ Restart \/ UNCHANGED vars
    BY <1>5 DEF BootSystem, Stage, BootBle, BootDevices, BootDone, Resolve, InitError,
       BleChange, BleSent, Restart, vars
  <1> QED BY <1>1, <1>2, <1>3, <1>4, <1>5 DEF Next, MainStep

LEMMA TypeInvariant == Spec => []TypeInv
  <1>1. Init => TypeInv
    <2> SUFFICES ASSUME Init PROVE TypeInv
      OBVIOUS
    <2>1. 0 \in 0 .. SleepAfter + 1
      BY SystemAssumption
    <2>2. ConnTypes
      BY DEF Init, ConnTypes
    <2>3. FlowTypes /\ NoticeTypes /\ LedTypes
      BY DEF Init, FlowTypes, NoticeTypes, LedTypes, SteadyStates, Mains, Starting
    <2>4. SleepTypes
      BY <2>1 DEF Init, SleepTypes
    <2> QED BY <2>2, <2>3, <2>4 DEF TypeInv
  <1>2. TypeInv /\ [Next]_vars => TypeInv'
    BY ConnStep, FlowStep, NoticeStep, SleepStep, LedStep DEF TypeInv
  <1> QED BY <1>1, <1>2, PTL DEF Spec

\* Every variable keeps its type, and a build shows no state of a transport
\* it lacks: _state_resolve_runtime with the PWMK_ENABLE_ switches.
THEOREM StateTypeCorrect == Spec => []TypeOK
  BY TypeInvariant, TypeParts, PTL

-----------------------------------------------------------------------------
(* Who may be where.                                                       *)

Loop == {"loop", "prepare", "request", "process", "enter"}

\* A tick is under way only in the loop and not once the device has halted.
\* Deep sleep is requested by the main loop alone, and a tick that comes in
\* between either leaves the request alone, or never returns.
ControlInv ==
    /\ phase # "idle" => main \in Loop /\ halted = "no"
    /\ halted # "no" => main \in Loop
    /\ requested = "DEEP_SLEEP" => main \in {"process", "enter"}
    /\ main = "process" /\ halted = "no" =>
          requested = "DEEP_SLEEP" \/ (phase # "idle" /\ requested = "BOOTLOADER")
    /\ steady = "DEEP_SLEEP" /\ halted = "no" => main = "enter"

\* What the states are after a tick.
LEMMA TickEndStates ==
    ASSUME FlowTypes, TickEnd
    PROVE  /\ requested' = "NONE" /\ main' = main /\ phase = "end" /\ phase' = "idle"
           /\ requested # "NONE" => steady' = requested
           /\ requested = "NONE" => steady' = steady \/ steady' \in Runtime \cup {"INIT_COMPLETE"}
           /\ \/ halted' = "dormant" /\ steady' = "DEEP_SLEEP" /\ steady # "DEEP_SLEEP"
              \/ halted' = "bootloader" /\ steady' = "BOOTLOADER"
              \/ /\ halted' = halted /\ steady' # "BOOTLOADER"
                 /\ steady' = "DEEP_SLEEP" => steady = "DEEP_SLEEP"
  BY DEF TickEnd, StateStep, Resolve, Runtime

LEMMA ControlStep ==
    ASSUME FlowTypes, ControlInv, [Next]_vars PROVE ControlInv'
  <1> USE DEF ControlInv, Loop, states
  <1>1. ASSUME NEW key \in KeyKinds, TickScan(key) PROVE ControlInv'
    BY <1>1 DEF TickScan, MayTick, Running, SetNotice
  <1>2. ASSUME NEW plug \in BOOLEAN, NEW touch \in BOOLEAN, NEW request \in Requests,
              TickTasks(plug, request, touch)
       PROVE  ControlInv'
    BY <1>2 DEF TickTasks, Vial, SetNotice
  <1>3. CASE TickEnd
    <2>1. CASE requested # "NONE"
      BY <1>3, <2>1, TickEndStates DEF FlowTypes
    <2>2. CASE requested = "NONE"
      BY <1>3, <2>2, TickEndStates DEF FlowTypes, Runtime
    <2> QED BY <2>1, <2>2
  <1>4. CASE BootDone
    BY <1>4 DEF BootDone, Stage, Resolve
  <1>5. CASE MainStep
    BY <1>5 DEF MainStep, MainCheck, MainDark, MainRequest, MainProcess, MainEnter, Step
  <1>6. CASE Restart
    BY <1>6 DEF Restart
  <1>7. CASE BootSystem \/ BootBle \/ BootDevices \/ InitError \/ BleChange \/ BleSent
           \/ UNCHANGED vars
    BY <1>7 DEF BootSystem, Stage, BootBle, BootDevices, InitError, BleChange, BleSent,
       vars
  <1> QED BY <1>1, <1>2, <1>3, <1>4, <1>5, <1>6, <1>7 DEF Next, MainStep

LEMMA ControlInvariant == Spec => [](TypeInv /\ ControlInv)
  <1>1. Init => ControlInv
    BY DEF Init, ControlInv
  <1>2. TypeInv /\ ControlInv /\ [Next]_vars => ControlInv'
    BY ControlStep DEF TypeInv
  <1> QED BY <1>1, <1>2, TypeInvariant, PTL DEF Spec

\* The main loop finds its request for deep sleep as it left it, whatever
\* ticks interrupt it: state_process_periodic from main and from the tick.
THEOREM RequestIsNotLost == Spec => []SleepRequestSurvives
  <1>1. ControlInv => SleepRequestSurvives
    BY DEF ControlInv, SleepRequestSurvives
  <1> QED BY <1>1, ControlInvariant, PTL

-----------------------------------------------------------------------------
(* The LED of a build without Bluetooth.                                   *)

DarkInv ==
    ~build.ble =>
        /\ phase # "idle" => main = "loop"
        /\ main \in {"request", "process", "enter"} => led = <<"off">>
        /\ halted = "dormant" => led = <<"off">>

LEMMA DarkStep ==
    ASSUME FlowTypes, ControlInv, DarkInv, [Next]_vars PROVE DarkInv'
  <1> USE DEF DarkInv
  <1>1. ASSUME NEW key \in KeyKinds, TickScan(key) PROVE DarkInv'
    BY <1>1 DEF TickScan, MayTick, Running, SetNotice
  <1>2. ASSUME NEW plug \in BOOLEAN, NEW touch \in BOOLEAN, NEW request \in Requests,
              TickTasks(plug, request, touch)
       PROVE  DarkInv'
    BY <1>2 DEF TickTasks, Vial, SetNotice
  <1>3. CASE TickEnd
    <2>1. build' = build
      BY <1>3 DEF TickEnd
    <2>2. CASE build.ble
      BY <2>1, <2>2
    <2>3. CASE ~build.ble
      <3>1. main = "loop" /\ requested # "DEEP_SLEEP" /\ halted = "no"
        BY <1>3, <2>3, TickEndStates DEF ControlInv
      <3> QED BY <1>3, <2>1, <3>1, TickEndStates DEF Runtime
    <2> QED BY <2>2, <2>3
  <1>4. CASE InitError
    BY <1>4 DEF InitError, ControlInv, Loop
  <1>5. CASE MainStep
    BY <1>5 DEF MainStep, MainCheck, MainDark, MainRequest, MainProcess, MainEnter, Step, conn, states
  <1>6. CASE Restart
    BY <1>6 DEF Restart
  <1>7. CASE BootSystem \/ BootBle \/ BootDevices \/ BootDone \/ BleChange \/ BleSent \/
           UNCHANGED vars
    BY <1>7 DEF BootSystem, Stage, BootBle, BootDevices, BootDone, Resolve, BleChange,
       BleSent, vars
  <1> QED BY <1>1, <1>2, <1>3, <1>4, <1>5, <1>6, <1>7 DEF Next, MainStep

\* A build without Bluetooth sleeps with its LED dark:
\* peripheral_prepare_deep_sleep, and no tick after it.
THEOREM SleepsDarkWithoutBle == Spec => []DarkWithoutBle
  <1>1. Init => DarkInv
    BY DEF Init, DarkInv
  <1>2. TypeInv /\ ControlInv /\ DarkInv /\ [Next]_vars => DarkInv'
    BY DarkStep DEF TypeInv
  <1>3. DarkInv => DarkWithoutBle
    BY DEF DarkInv, DarkWithoutBle, Dark
  <1> QED BY <1>1, <1>2, <1>3, ControlInvariant, PTL DEF Spec

-----------------------------------------------------------------------------
(* The state and the connection.                                           *)

LEMMA ConnectionStep ==
    ASSUME FlowTypes, StateFollowsConnection, [Next]_vars
    PROVE  StateFollowsConnection'
  <1> USE DEF StateFollowsConnection, Runtime, FlowTypes, states, conn
  <1>1. ASSUME NEW key \in KeyKinds, TickScan(key) PROVE StateFollowsConnection'
    BY <1>1 DEF TickScan, MayTick, Running, SetNotice
  <1>2. ASSUME NEW plug \in BOOLEAN, NEW touch \in BOOLEAN, NEW request \in Requests,
              TickTasks(plug, request, touch)
       PROVE  StateFollowsConnection'
    BY <1>2 DEF TickTasks, Vial, SetNotice
  <1>3. CASE TickEnd
    BY <1>3 DEF TickEnd, StateStep, Resolve
  <1>4. CASE BootDone
    BY <1>4 DEF BootDone, Stage, Resolve
  <1>5. CASE BleChange
    BY <1>5 DEF BleChange
  <1>6. CASE BleSent
    BY <1>6 DEF BleSent
  <1>7. CASE MainStep
    BY <1>7 DEF MainStep, MainCheck, MainDark, MainRequest, MainProcess, MainEnter, Step
  <1>8. CASE Restart
    BY <1>8 DEF Restart
  <1>9. CASE BootSystem \/ BootBle \/ BootDevices \/ InitError \/ UNCHANGED vars
    BY <1>9 DEF BootSystem, Stage, BootBle, BootDevices, InitError, vars
  <1> QED BY <1>1, <1>2, <1>3, <1>4, <1>5, <1>6, <1>7, <1>8, <1>9 DEF Next, MainStep

\* Between ticks the state tells the truth about the connection, and names
\* the transport preferred: _state_resolve_runtime at the end of each tick.
THEOREM StateTellsTheConnection == Spec => []StateFollowsConnection
  <1>1. Init => StateFollowsConnection
    BY DEF Init, StateFollowsConnection, Runtime
  <1>2. TypeInv /\ StateFollowsConnection /\ [Next]_vars => StateFollowsConnection'
    BY ConnectionStep DEF TypeInv
  <1> QED BY <1>1, <1>2, TypeInvariant, PTL DEF Spec

-----------------------------------------------------------------------------
(* Notices.                                                                *)

\* A notice that was not on the LED when it was set has been shown for as
\* long as its time runs.
ShownInv == temp # "none" /\ fresh /\ rendered = temp => shown >= age

LEMMA RenderShows ==
    ASSUME NoticeTypes, ShownInv, Render, temp # "none"
    PROVE  /\ ShownInv'
           /\ fresh /\ temp' = "none" => shown >= Duration[temp]
  <1> DEFINE now == IF temp # rendered THEN 0 ELSE age
  <1>1. now \in Nat /\ shown \in Nat /\ Duration[temp] \in Nat \ {0} /\ temp \in Notices
    BY SystemAssumption DEF NoticeTypes
  <1>2. rendered' = temp /\ fresh' = fresh
    BY DEF Render
  <1>3. \/ now >= Duration[temp] /\ temp' = "none"
        \/ /\ ~(now >= Duration[temp]) /\ temp' = temp /\ age' = now + 1
           /\ shown' = IF shown < Duration[temp] THEN shown + 1 ELSE shown
    BY DEF Render
  <1>4. temp = rendered /\ fresh => shown >= now
    BY DEF ShownInv
  <1>5. temp # rendered => now = 0
    OBVIOUS
  <1> HIDE DEF now
  <1>6. CASE now >= Duration[temp] /\ temp' = "none"
    <2>1. temp = rendered
      BY <1>1, <1>5, <1>6
    <2> QED BY <1>1, <1>4, <1>6, <2>1 DEF ShownInv
  <1>7. CASE /\ ~(now >= Duration[temp]) /\ temp' = temp /\ age' = now + 1
             /\ shown' = IF shown < Duration[temp] THEN shown + 1 ELSE shown
    <2>1. fresh => shown' >= age'
      BY <1>1, <1>4, <1>5, <1>7
    <2> QED BY <1>2, <1>7, <2>1, <1>1 DEF ShownInv, Notices
  <1> QED BY <1>3, <1>6, <1>7

LEMMA NoneShown ==
    ASSUME Render, temp = "none" PROVE temp' = "none"
  BY DEF Render

LEMMA ShownStep ==
    ASSUME NoticeTypes, ShownInv, [Next]_vars PROVE ShownInv'
  <1> USE DEF ShownInv, notice
  <1>1. ASSUME NEW key \in KeyKinds, TickScan(key) PROVE ShownInv'
    BY <1>1 DEF TickScan, MayTick, Running, SetNotice
  <1>2. ASSUME NEW plug \in BOOLEAN, NEW touch \in BOOLEAN, NEW request \in Requests,
              TickTasks(plug, request, touch)
       PROVE  ShownInv'
    BY <1>2 DEF TickTasks, Vial, SetNotice
  <1>3. CASE TickEnd
    <2>1. CASE UNCHANGED notice
      BY <2>1
    <2>2. CASE Render
      BY <2>2, RenderShows, NoneShown
    <2> QED BY <1>3, <2>1, <2>2 DEF TickEnd
  <1>4. CASE Restart
    BY <1>4 DEF Restart
  <1>5. CASE BootSystem \/ BootBle \/ BootDevices \/ BootDone \/ InitError \/ MainStep
           \/ BleChange \/ BleSent \/ UNCHANGED vars
    BY <1>5 DEF BootSystem, Stage, BootBle, BootDevices, BootDone, Resolve, InitError,
       MainStep, MainCheck, MainDark, MainRequest, MainProcess, MainEnter, Step,
       BleChange, BleSent, vars
  <1> QED BY <1>1, <1>2, <1>3, <1>4, <1>5 DEF Next, MainStep

LEMMA ShownLongEnough ==
    ASSUME NoticeTypes, ControlInv, ShownInv, [Next]_vars,
           phase = "end", temp # "none", temp' = "none", fresh
    PROVE  shown >= Duration[temp]
  <1>1. TickEnd
    <2>1. main \in Loop /\ halted = "no"
      BY DEF ControlInv
    <2>2. temp' # temp
      OBVIOUS
    <2> QED BY <2>1, <2>2 DEF Next, vars, Loop, notice, BootSystem, BootBle, BootDevices, BootDone,
               Stage, InitError, TickScan, MayTick, TickTasks, MainCheck, MainDark, MainRequest,
               MainProcess, MainEnter, Step, BleChange, BleSent, Restart
  <1>2. Render
    BY <1>1 DEF TickEnd, notice
  <1> QED BY <1>2, RenderShows

\* A notice that was not already on the LED is shown for its whole time,
\* unless another replaces it or Vial takes it back:
\* peripheral_process_periodic with the timer of the temporary state.
THEOREM NoticeIsShownInFull == Spec => NoticeShownInFull
  <1>1. Init => ShownInv
    BY DEF Init, ShownInv
  <1>2. TypeInv /\ ShownInv /\ [Next]_vars => ShownInv'
    BY ShownStep DEF TypeInv
  <1>3. TypeInv /\ ControlInv /\ ShownInv /\ [Next]_vars =>
           [phase = "end" /\ temp # "none" /\ temp' = "none" /\ fresh
               => shown >= Duration[temp]]_vars
    BY ShownLongEnough DEF TypeInv
  <1> QED BY <1>1, <1>2, <1>3, ControlInvariant, PTL DEF Spec, NoticeShownInFull

-----------------------------------------------------------------------------
(* The diagram of the states.                                              *)

\* Where the start is tells the state and the loop has passed it; the main
\* loop is past taking deep sleep exactly while that is the state; the tick
\* that finds the bootloader asked for never returns.
StageInv ==
    /\ main = "start" => steady = "BOOTING"
    /\ main = "ble" => steady = "SYS_INIT"
    /\ main = "devices" => steady = IF build.ble THEN "BLE_INIT" ELSE "SYS_INIT"
    /\ main = "complete" => steady = "INIT_COMPLETE"
    /\ main = "error" => steady \in InitErrors
    /\ main \in Loop /\ halted = "no" => steady \in Diagram!Connection \cup {"DEEP_SLEEP"}
    /\ main = "enter" /\ halted = "no" => steady = "DEEP_SLEEP"
    /\ main \notin Loop => requested = "NONE"
    /\ requested = "BOOTLOADER" => phase # "idle"

\* A connection is only ever one that the build can have.
LEMMA ResolvedState ==
    ASSUME ConnTypes', build' = build
    PROVE  Resolve \in Diagram!Connection
  BY DEF ConnTypes, Resolve, Diagram!Connection

LEMMA StageStep ==
    ASSUME ConnTypes, ConnTypes', FlowTypes, ControlInv, StageInv, [Next]_vars
    PROVE  StageInv'
  <1> USE DEF StageInv, Loop, states
  <1>1. ASSUME NEW key \in KeyKinds, TickScan(key) PROVE StageInv'
    BY <1>1 DEF TickScan, MayTick, Running, SetNotice, Diagram!Connection
  <1>2. ASSUME NEW plug \in BOOLEAN, NEW touch \in BOOLEAN, NEW request \in Requests,
              TickTasks(plug, request, touch)
       PROVE  StageInv'
    BY <1>2 DEF TickTasks, Vial, SetNotice, ControlInv, Diagram!Connection
  <1>3. CASE TickEnd
    <2>1. build' = build /\ main \in Loop /\ halted = "no" /\ main' = main
      BY <1>3 DEF TickEnd, ControlInv
    <2>2. Diagram!Connection' = Diagram!Connection
      BY <2>1 DEF Diagram!Connection
    <2>3. requested = "NONE" => steady' = steady \/ steady' = Resolve
      BY <1>3 DEF TickEnd, StateStep
    <2>4. Resolve \in Diagram!Connection
      BY <2>1, ResolvedState
    <2>5. requested = "NONE" => steady' \in Diagram!Connection \cup {"DEEP_SLEEP"}
      BY <2>1, <2>3, <2>4
    <2>6. requested = "BOOTLOADER" => halted' = "bootloader"
      BY <1>3, TickEndStates
    <2>7. requested # "NONE" => steady' = requested
      BY <1>3, TickEndStates
    <2>8. main = "enter" /\ requested = "NONE" => steady' = "DEEP_SLEEP"
      BY <1>3, <2>1 DEF TickEnd, StateStep, Runtime
    <2> QED BY <1>3, <2>1, <2>2, <2>5, <2>6, <2>7, <2>8, TickEndStates DEF FlowTypes
  <1>4. CASE BootDone
    <2>1. steady' = Resolve /\ build' = build /\ main' = "loop" /\ main = "complete"
      BY <1>4 DEF BootDone, Stage
    <2>2. Diagram!Connection' = Diagram!Connection
      BY <2>1 DEF Diagram!Connection
    <2> QED BY <1>4, <2>1, <2>2, ResolvedState DEF BootDone, Stage
  <1>5. CASE MainStep
    BY <1>5 DEF MainStep, MainCheck, MainDark, MainRequest, MainProcess, MainEnter, Step,
       ControlInv, Diagram!Connection
  <1>6. CASE Restart
    BY <1>6 DEF Restart
  <1>7. CASE BootSystem \/ BootBle \/ BootDevices
    BY <1>7 DEF BootSystem, Stage, BootBle, BootDevices, InitErrors, ConnTypes
  <1>8. CASE InitError \/ BleChange \/ BleSent \/ UNCHANGED vars
    BY <1>8 DEF InitError, BleChange, BleSent, vars, Diagram!Connection
  <1> QED BY <1>1, <1>2, <1>3, <1>4, <1>5, <1>6, <1>7, <1>8 DEF Next, MainStep

StepInv == TypeInv /\ ControlInv /\ StageInv

LEMMA StageInvariant == Spec => []StepInv
  <1>1. Init => StageInv
    BY DEF Init, StageInv, Loop
  <1>2. TypeInv /\ TypeInv' /\ ControlInv /\ StageInv /\ [Next]_vars => StageInv'
    BY StageStep DEF TypeInv
  <1> QED BY <1>1, <1>2, ControlInvariant, PTL DEF Spec, StepInv

LEMMA StartIsDiagrams ==
    ASSUME StepInv, BootSystem \/ BootBle \/ BootDevices
    PROVE  Diagram!Start
  <1>1. halted = "no" /\ halted' = "no" /\ build' = build /\ requested' = requested
    BY DEF BootSystem, BootBle, BootDevices, Stage, StepInv, ControlInv, Loop
  <1>2. CASE BootSystem
    BY <1>2 DEF BootSystem, Stage, StepInv, StageInv, Diagram!After, Diagram!Start
  <1>3. CASE BootBle
    BY <1>3 DEF BootBle, Stage, StepInv, StageInv, TypeInv, ConnTypes, Diagram!After, Diagram!Start
  <1>4. CASE BootDevices
    BY <1>4 DEF BootDevices, Stage, StepInv, StageInv, Diagram!After, Diagram!Start
  <1> QED BY <1>2, <1>3, <1>4

LEMMA TickEndIsDiagrams ==
    ASSUME StepInv, ConnTypes', TickEnd
    PROVE  [Diagram!Next]_Diagram!stateVars
  <1>1. halted = "no" /\ build' = build /\ requested' = "NONE" /\ main \in Loop
    BY DEF TickEnd, StateStep, StepInv, ControlInv
  <1>2. CASE requested = "NONE"
    <2>1. CASE steady \in Runtime \cup {"INIT_COMPLETE"}
      <3>1. steady' = Resolve /\ steady \in Diagram!Connection
        BY <1>1, <1>2, <2>1 DEF TickEnd, StateStep, StepInv, StageInv, Runtime
      <3>2. steady' \in Diagram!Connection
        BY <1>1, <3>1, ResolvedState
      <3>3. steady' \notin {"DEEP_SLEEP", "BOOTLOADER"}
        BY <3>2 DEF Diagram!Connection
      <3>4. halted' = "no"
        BY <1>1, <3>3 DEF TickEnd
      <3>5. Diagram!Connect
        BY <1>1, <1>2, <3>1, <3>2, <3>4 DEF Diagram!Connect
      <3> QED BY <3>5 DEF Diagram!Next
    <2>2. CASE steady \notin Runtime \cup {"INIT_COMPLETE"}
      <3>1. steady = "DEEP_SLEEP"
        BY <1>1, <2>2 DEF StepInv, StageInv, Diagram!Connection, Runtime
      <3>2. steady' = steady /\ halted' = halted
        BY <1>1, <1>2, <2>2, <3>1 DEF TickEnd, StateStep
      <3> QED BY <1>1, <1>2, <3>2 DEF Diagram!stateVars
    <2> QED BY <2>1, <2>2
  <1>3. CASE requested = "DEEP_SLEEP"
    <2>1. steady' = "DEEP_SLEEP"
      BY <1>3 DEF TickEnd, StateStep
    <2>2. halted' \in {"no", "dormant"}
      BY <1>1, <2>1 DEF TickEnd
    <2>3. Diagram!Sleep
      BY <1>1, <1>3, <2>1, <2>2 DEF Diagram!Sleep
    <2> QED BY <2>3 DEF Diagram!Next
  <1>4. CASE requested = "BOOTLOADER"
    <2>1. steady' = "BOOTLOADER" /\ halted' = "bootloader"
      BY <1>1, <1>4 DEF TickEnd, StateStep
    <2>2. Diagram!Bootload
      BY <1>1, <1>4, <2>1 DEF Diagram!Bootload
    <2> QED BY <2>2 DEF Diagram!Next
  <1> QED BY <1>2, <1>3, <1>4 DEF StepInv, TypeInv, FlowTypes

LEMMA RequestIsDiagrams ==
    ASSUME StepInv, main \in Loop, halted = "no", UNCHANGED <<build, halted, steady>>,
           \/ requested' \in {requested, "BOOTLOADER"}
           \/ main = "request" /\ phase = "idle" /\ requested' = "DEEP_SLEEP"
    PROVE  [Diagram!Next]_Diagram!stateVars
  <1>1. steady \in Diagram!Connection \cup {"DEEP_SLEEP"}
    BY DEF StepInv, StageInv
  <1>2. CASE requested' = requested
    BY <1>2 DEF Diagram!stateVars
  <1>3. CASE requested' = "BOOTLOADER"
    BY <1>1, <1>3 DEF Diagram!Ask, Diagram!Next
  <1>4. CASE main = "request" /\ phase = "idle" /\ requested' = "DEEP_SLEEP"
    <2>1. requested = "NONE" /\ steady # "DEEP_SLEEP"
      BY <1>4 DEF StepInv, StageInv, ControlInv, TypeInv, FlowTypes
    <2> QED BY <1>1, <1>4, <2>1 DEF Diagram!Ask, Diagram!Next
  <1> QED BY <1>2, <1>3, <1>4

LEMMA MainIsDiagrams ==
    ASSUME StepInv, MainProcess \/ MainEnter
    PROVE  Diagram!Sleep
  <1>1. phase = "idle" /\ halted = "no" /\ build' = build /\ requested' = requested
        /\ requested # "BOOTLOADER"
    BY DEF MainProcess, MainEnter, Step, states, StepInv, StageInv
  <1>2. CASE MainProcess
    <2>1. requested = "DEEP_SLEEP" /\ steady' = requested /\ halted' = halted
      BY <1>1, <1>2 DEF MainProcess, Step, StepInv, ControlInv
    <2> QED BY <1>1, <2>1 DEF Diagram!Sleep
  <1>3. CASE MainEnter
    <2>1. steady = "DEEP_SLEEP" /\ steady' = steady /\ halted' = "dormant"
      BY <1>1, <1>3 DEF MainEnter, Step, states, StepInv, StageInv
    <2> QED BY <1>1, <2>1 DEF Diagram!Sleep
  <1> QED BY <1>2, <1>3

LEMMA StepIsDiagrams ==
    ASSUME StepInv, ConnTypes', [Next]_vars
    PROVE  [Diagram!Next]_Diagram!stateVars
  <1>1. CASE BootSystem \/ BootBle \/ BootDevices
    BY <1>1, StartIsDiagrams DEF Diagram!Next
  <1>2. CASE BootDone
    <2>1. /\ halted = "no" /\ halted' = "no" /\ build' = build
          /\ requested = "NONE" /\ requested' = "NONE"
          /\ steady = "INIT_COMPLETE" /\ steady' = Resolve
      BY <1>2 DEF BootDone, Stage, StepInv, StageInv, Loop
    <2>2. Diagram!Connect
      BY <2>1, ResolvedState DEF Diagram!Connect
    <2> QED BY <2>2 DEF Diagram!Next
  <1>3. ASSUME NEW key \in KeyKinds, TickScan(key) PROVE [Diagram!Next]_Diagram!stateVars
    <2>1. /\ main \in Loop /\ halted = "no" /\ UNCHANGED <<build, halted, steady>>
          /\ requested' \in {requested, "BOOTLOADER"}
      BY <1>3 DEF TickScan, MayTick, Running, Loop
    <2> QED BY <2>1, RequestIsDiagrams
  <1>4. ASSUME NEW plug \in BOOLEAN, NEW touch \in BOOLEAN, NEW request \in Requests,
              TickTasks(plug, request, touch)
       PROVE  [Diagram!Next]_Diagram!stateVars
    <2>1. /\ main \in Loop /\ halted = "no" /\ UNCHANGED <<build, halted, steady>>
          /\ requested' \in {requested, "BOOTLOADER"}
      BY <1>4 DEF TickTasks, Vial, StepInv, ControlInv
    <2> QED BY <2>1, RequestIsDiagrams
  <1>5. CASE TickEnd
    BY <1>5, TickEndIsDiagrams
  <1>6. CASE MainRequest
    <2>1. /\ main = "request" /\ phase = "idle" /\ main \in Loop /\ halted = "no"
          /\ UNCHANGED <<build, halted, steady>> /\ requested' = "DEEP_SLEEP"
      BY <1>6 DEF MainRequest, Step, Loop
    <2> QED BY <2>1, RequestIsDiagrams
  <1>7. CASE MainProcess \/ MainEnter
    BY <1>7, MainIsDiagrams DEF Diagram!Next
  <1>8. CASE Restart
    <2>1. Diagram!Restart
      BY <1>8 DEF Restart, Diagram!Restart, StepInv, StageInv, ControlInv, TypeInv, FlowTypes,
                  InitErrors, Diagram!InitErrors
    <2> QED BY <2>1 DEF Diagram!Next
  <1>9. CASE InitError \/ MainCheck \/ MainDark \/ BleChange \/ BleSent \/ UNCHANGED vars
    BY <1>9 DEF InitError, MainCheck, MainDark, Step, BleChange, BleSent, vars, states,
                Diagram!stateVars
  <1> QED BY <1>1, <1>2, <1>3, <1>4, <1>5, <1>6, <1>7, <1>8, <1>9 DEF Next

\* The states are taken as the diagram has them, for any builds and times:
\* state_request_steady_state and state_process_periodic called from the main
\* loop, from ticks that interrupt it, and by a start that waits for neither.
THEOREM StatesAreAsDrawn == Spec => ImplementsStateDiagram
  <1>1. Init => Diagram!Init
    BY DEF Init, Diagram!Init
  <1>2. StepInv /\ StepInv' /\ [Next]_vars => [Diagram!Next]_Diagram!stateVars
    BY StepIsDiagrams DEF StepInv, TypeInv
  <1> QED BY <1>1, <1>2, StageInvariant, PTL DEF Spec, ImplementsStateDiagram, Diagram!Spec

\* A request for the bootloader, by key or by Vial, is taken back by nothing,
\* not by the main loop's request for deep sleep nor by a change of the
\* connection: it stands until the bootloader is entered.  The safety half of
\* BootloaderIsReached.
THEOREM BootloaderIsNotLost == Spec => Diagram!BootloaderWins
  <1>1. StepInv /\ StepInv' /\ [Next]_vars =>
           [requested = "BOOTLOADER" =>
               requested' = "BOOTLOADER"
               \/ (IF halted = "no" THEN "on" ELSE halted)' = "bootloader"]_Diagram!stateVars
    <2> SUFFICES ASSUME StepInv, StepInv', [Next]_vars, requested = "BOOTLOADER"
                 PROVE  \/ requested' = "BOOTLOADER"
                        \/ (IF halted = "no" THEN "on" ELSE halted)' = "bootloader"
                        \/ UNCHANGED Diagram!stateVars
      OBVIOUS
    <2>1. halted = "no" /\ steady \notin InitErrors
      BY DEF StepInv, StageInv, ControlInv, Loop, InitErrors, Diagram!Connection
    <2>2. [Diagram!Next]_Diagram!stateVars
      BY StepIsDiagrams DEF StepInv, TypeInv
    <2> QED BY <2>1, <2>2 DEF Diagram!Next, Diagram!Start, Diagram!Connect, Diagram!Ask,
               Diagram!Sleep, Diagram!Bootload, Diagram!Restart, InitErrors, Diagram!InitErrors
  <1> QED BY <1>1, StageInvariant, PTL DEF Spec, Diagram!BootloaderWins

\* The connection decides the state only once the start is complete, and not
\* any more when the device is falling asleep (state_process_periodic).
THEOREM ConnectionHasToWait == Spec => Diagram!ConnectionWaits
  <1>1. StepInv /\ StepInv' /\ [Next]_vars =>
           [steady' \in Diagram!Runtime =>
               steady \in Diagram!Runtime \cup {"INIT_COMPLETE"}]_Diagram!stateVars
    <2> SUFFICES ASSUME StepInv, StepInv', [Next]_vars, steady' \in Diagram!Runtime
                 PROVE  \/ steady \in Diagram!Runtime \cup {"INIT_COMPLETE"}
                        \/ UNCHANGED Diagram!stateVars
      OBVIOUS
    <2>1. [Diagram!Next]_Diagram!stateVars
      BY StepIsDiagrams DEF StepInv, TypeInv
    <2>2. steady' \notin Diagram!After(steady)
      BY DEF Diagram!After, Diagram!Runtime
    <2>3. Diagram!Ask \/ Diagram!Connect =>
             steady \in Diagram!Runtime \cup {"INIT_COMPLETE"}
      BY DEF Diagram!Connect, Diagram!Connection, Diagram!Ask, Diagram!Runtime
    <2>4. ~Diagram!Sleep /\ ~Diagram!Bootload /\ ~Diagram!Restart
      BY DEF Diagram!Sleep, Diagram!Bootload, Diagram!Restart, Diagram!Runtime
    <2> QED BY <2>1, <2>2, <2>3, <2>4 DEF Diagram!Next, Diagram!Start
  <1> QED BY <1>1, StageInvariant, PTL DEF Spec, Diagram!ConnectionWaits

-----------------------------------------------------------------------------
(* Deep sleep comes nearer.                                                *)

\* The main loop on its way to deep sleep.
Falling == {"prepare", "request", "process", "enter"}

\* Once the time is over, or the main loop has begun, sleep was asked for.
SleepIsAsked == idle > SleepAfter \/ main \in Falling => sleepAsked

\* Steps the main loop has left, from its waiting on.
StepsToSleep ==
    CASE main = "loop" -> 5 [] main = "prepare" -> 4 [] main = "request" -> 3
      [] main = "process" -> 2 [] main = "enter" -> 1 [] OTHER -> 0

\* Only activity takes time back from the count; a tick without it counts or
\* has counted enough; what was asked for stands; and the main loop goes its
\* way, which no tick lengthens.
SleepAdvances ==
    [][Restart \/
       /\ idle' < idle => Activity
       /\ TickEnd /\ ~Activity /\ halted' = "no" => idle' = idle + 1 \/ sleepAsked'
       /\ sleepAsked => sleepAsked'
       /\ MainStep => StepsToSleep' < StepsToSleep \/ halted' = "dormant"
       /\ main \in Falling \cup {"loop"} => StepsToSleep' <= StepsToSleep]_vars

LEMMA AskedStep ==
    ASSUME SleepTypes, SleepIsAsked, [Next]_vars PROVE SleepIsAsked'
  <1> USE DEF SleepIsAsked, SleepTypes, Falling, sleep
  <1>1. CASE TickEnd
    <2>1. /\ main' = main
          /\ \/ UNCHANGED <<idle, sleepAsked>>
             \/ sleepAsked' = (sleepAsked \/ idle' > SleepAfter)
      BY <1>1, Zenon DEF TickEnd
    <2> QED BY <2>1
  <1>2. CASE MainStep
    BY <1>2 DEF MainStep, MainCheck, MainDark, MainRequest, MainProcess, MainEnter, Step
  <1>3. CASE Restart
    BY <1>3, SystemAssumption DEF Restart
  <1>4. CASE BootSystem \/ BootBle \/ BootDevices \/ BootDone
    BY <1>4 DEF BootSystem, BootBle, BootDevices, BootDone, Stage
  <1>5. CASE UNCHANGED <<main, idle, sleepAsked>>
    BY <1>5
  <1>6. ASSUME NEW key \in KeyKinds, TickScan(key) PROVE UNCHANGED <<main, idle, sleepAsked>>
    BY <1>6, Zenon DEF TickScan
  <1>7. ASSUME NEW plug \in BOOLEAN, NEW touch \in BOOLEAN, NEW request \in Requests,
               TickTasks(plug, request, touch)
        PROVE  UNCHANGED <<main, idle, sleepAsked>>
    BY <1>7, Zenon DEF TickTasks
  <1>8. InitError \/ BleChange \/ BleSent \/ UNCHANGED vars => UNCHANGED <<main, idle, sleepAsked>>
    BY DEF InitError, BleChange, BleSent, vars
  <1> QED BY <1>1, <1>2, <1>3, <1>4, <1>5, <1>6, <1>7, <1>8 DEF Next, MainStep

\* No interleaving of ticks and main loop undoes the way to deep sleep: the
\* timeout of _pwmk_process_tick, the wait in main() and
\* _pwmk_enter_deep_sleep.  The safety half of IdleSleeps.
THEOREM SleepComesNearer == Spec => []SleepIsAsked /\ SleepAdvances
  <1>1. Init => SleepIsAsked
    BY SystemAssumption DEF Init, SleepIsAsked, Falling
  <1> DEFINE Nearer ==
        \/ Restart
        \/ /\ idle' < idle => Activity
           /\ TickEnd /\ ~Activity /\ halted' = "no" => idle' = idle + 1 \/ sleepAsked'
           /\ sleepAsked => sleepAsked'
           /\ MainStep => StepsToSleep' < StepsToSleep \/ halted' = "dormant"
           /\ main \in Falling \cup {"loop"} => StepsToSleep' <= StepsToSleep
  <1>2. ASSUME TypeInv, SleepIsAsked, [Next]_vars PROVE [Nearer]_vars
    <2>1. /\ idle \in Nat /\ SleepAfter \in Nat /\ idle <= SleepAfter + 1
          /\ active \in BOOLEAN /\ pending \in BOOLEAN /\ sleepAsked \in BOOLEAN
      BY <1>2, SystemAssumption DEF TypeInv, SleepTypes, ConnTypes
    <2>2. ASSUME UNCHANGED <<main, idle, sleepAsked>>, ~MainStep, ~TickEnd PROVE Nearer
      BY <2>1, <2>2 DEF StepsToSleep, Falling
    <2>3. CASE TickEnd
      <3>1. /\ main' = main
            /\ \/ UNCHANGED <<idle, sleepAsked>> /\ halted' # "no"
               \/ /\ idle' = IF Activity THEN 0 ELSE IF idle > SleepAfter THEN idle ELSE idle + 1
                  /\ sleepAsked' = (sleepAsked \/ idle' > SleepAfter)
        BY <2>3 DEF TickEnd
      <3>2. ~MainStep
        BY <2>3 DEF TickEnd, MainStep, MainCheck, MainDark, MainRequest, MainProcess, MainEnter, Step
      <3> HIDE DEF Activity
      <3> QED BY <1>2, <2>1, <3>1, <3>2 DEF StepsToSleep, Falling, SleepIsAsked
    <2>4. CASE MainStep
      <3>1. /\ UNCHANGED <<idle, sleepAsked>>
            /\ <<main, main'>> \in {<<"loop", "prepare">>, <<"prepare", "request">>,
                                    <<"request", "process">>, <<"process", "enter">>}
               \/ (main = "enter" /\ main' = "enter" /\ halted' = "dormant")
        BY <2>4 DEF MainStep, MainCheck, MainDark, MainRequest, MainProcess, MainEnter, Step, sleep
      <3>2. ~TickEnd
        BY <2>4 DEF TickEnd, MainStep, MainCheck, MainDark, MainRequest, MainProcess, MainEnter, Step
      <3>3. \/ StepsToSleep' < StepsToSleep
            \/ StepsToSleep' = StepsToSleep /\ StepsToSleep \in Nat /\ halted' = "dormant"
        BY <3>1 DEF StepsToSleep
      <3>4. StepsToSleep' \in Nat /\ StepsToSleep \in Nat
        BY <3>1 DEF StepsToSleep
      <3> QED BY <2>1, <3>1, <3>2, <3>3, <3>4
    <2>5. CASE BootSystem \/ BootBle \/ BootDevices \/ BootDone
      <3>1. /\ UNCHANGED <<idle, sleepAsked>> /\ main \in {"start", "ble", "devices", "complete"}
            /\ main' # main
        BY <2>5 DEF BootSystem, BootBle, BootDevices, BootDone, Stage, sleep
      <3>2. ~TickEnd /\ ~MainStep
        BY <3>1 DEF TickEnd, MainStep, MainCheck, MainDark, MainRequest, MainProcess, MainEnter, Step
      <3> QED BY <2>1, <3>1, <3>2 DEF Falling
    <2>6. ASSUME NEW key \in KeyKinds, TickScan(key) PROVE UNCHANGED <<main, idle, sleepAsked>>
      BY <2>6, Zenon DEF TickScan
    <2>7. ASSUME NEW plug \in BOOLEAN, NEW touch \in BOOLEAN, NEW request \in Requests,
                 TickTasks(plug, request, touch)
          PROVE  UNCHANGED <<main, idle, sleepAsked>>
      BY <2>7, Zenon DEF TickTasks
    <2>8. InitError \/ BleChange \/ BleSent => UNCHANGED <<main, idle, sleepAsked>>
      BY DEF InitError, BleChange, BleSent, sleep
    <2>9. Restart => Nearer
      OBVIOUS
    <2> HIDE DEF Nearer
    <2> QED BY <1>2, <2>2, <2>3, <2>4, <2>5, <2>6, <2>7, <2>8, <2>9 DEF Next, MainStep
  <1>3. TypeInv /\ SleepIsAsked /\ [Next]_vars => [Nearer]_vars
    BY <1>2
  <1>4. TypeInv /\ SleepIsAsked /\ [Next]_vars => SleepIsAsked'
    BY AskedStep DEF TypeInv
  <1> QED BY <1>1, <1>3, <1>4, TypeInvariant, PTL DEF Spec, SleepAdvances
=============================================================================
