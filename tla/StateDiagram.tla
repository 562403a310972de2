----------------------------- MODULE StateDiagram -----------------------------
(***************************************************************************)
(* The diagram of the steady states, with ticks, threads, connections and  *)
(* the LED left out: the abstract specification that module SystemState is *)
(* shown to implement.                                                     *)
(*                                                                         *)
(* The start goes through its stages in order and only then does the       *)
(* connection decide the state.  A request is applied before anything else *)
(* is, one for the bootloader before any other, and neither deep sleep nor *)
(* the bootloader is left but by starting again.                           *)
(***************************************************************************)
CONSTANT Builds     \* firmware builds, with the transports they have

VARIABLES build,    \* the build that runs
          state,    \* the steady state
          request,  \* the state asked for, or "NONE"
          power     \* "on", or what the device was left to

stateVars == <<build, state, request, power>>

Runtime == {"USB_WAITING", "USB_CONNECTED", "BLE_WAITING", "BLE_CONNECTED"}
InitErrors == {"INIT_ERROR_BLE", "INIT_ERROR_PERIPHERAL"}

\* The stages that may follow one of the start.
After(s) ==
    CASE s = "BOOTING" -> {"SYS_INIT"}
      [] s = "SYS_INIT" /\ build.ble -> {"BLE_INIT", "INIT_ERROR_BLE"}
      [] s = "BLE_INIT" \/ (s = "SYS_INIT" /\ ~build.ble)
            -> {"INIT_COMPLETE", "INIT_ERROR_PERIPHERAL"}
      [] OTHER -> {}

\* The states a connection may call for in a build.
Connection ==
    IF build.usb \/ build.ble
    THEN (IF build.usb THEN {"USB_WAITING", "USB_CONNECTED"} ELSE {})
            \cup (IF build.ble THEN {"BLE_WAITING", "BLE_CONNECTED"} ELSE {})
    ELSE {"INIT_COMPLETE"}

Init ==
    /\ build \in Builds
    /\ state = "BOOTING" /\ request = "NONE" /\ power = "on"

Start ==
    /\ state' \in After(state)
    /\ UNCHANGED <<build, request, power>>

Connect ==
    /\ power = "on" /\ request = "NONE"
    /\ state \in Connection \cup {"INIT_COMPLETE"}
    /\ state' \in Connection
    /\ UNCHANGED <<build, request, power>>

\* The bootloader may be asked for while the device is falling asleep.
Ask ==
    /\ power = "on" /\ state \in Connection \cup {"DEEP_SLEEP"}
    /\ \/ request' = "BOOTLOADER"
       \/ request = "NONE" /\ state # "DEEP_SLEEP" /\ request' = "DEEP_SLEEP"
    /\ UNCHANGED <<build, state, power>>

\* Falling asleep: the state is taken, and then or at once the power goes.
Sleep ==
    /\ power = "on" /\ request # "BOOTLOADER"
    /\ "DEEP_SLEEP" \in {state, request}
    /\ state' = "DEEP_SLEEP"
    /\ request' \in {request, "NONE"} /\ power' \in {"on", "dormant"}
    /\ UNCHANGED build

Bootload ==
    /\ power = "on" /\ request = "BOOTLOADER"
    /\ state' = "BOOTLOADER" /\ request' = "NONE" /\ power' = "bootloader"
    /\ UNCHANGED build

Restart ==
    /\ power # "on" \/ state \in InitErrors
    /\ state' = "BOOTING" /\ request' = "NONE" /\ power' = "on"
    /\ UNCHANGED build

Next == Start \/ Connect \/ Ask \/ Sleep \/ Bootload \/ Restart

Spec == Init /\ [][Next]_stateVars

\* What was asked for last, if it was the bootloader, is entered: nothing
\* takes the request back, on the way to deep sleep neither.
BootloaderWins ==
    [][request = "BOOTLOADER" => request' = "BOOTLOADER" \/ power' = "bootloader"]_stateVars

\* 内部処理_状態管理.md: no connection overwrites a state of the start.  Nor
\* does it keep a device awake that is falling asleep.
ConnectionWaits ==
    [][state' \in Runtime => state \in Runtime \cup {"INIT_COMPLETE"}]_stateVars
=============================================================================
