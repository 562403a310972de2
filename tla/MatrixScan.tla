------------------------------ MODULE MatrixScan ------------------------------
(***************************************************************************)
(* The debounced scan of the key matrix, src/keyboard/matrix_scan.c.       *)
(*                                                                         *)
(* There is one timer for the whole matrix: every scan that differs from   *)
(* the one before starts it anew, and when it has run for the debounce     *)
(* time the matrix last read becomes the state keys are said to have.      *)
(***************************************************************************)
EXTENDS Integers, FiniteSetsExt

CONSTANTS
    Switch,     \* matrix positions <<row, col>> with a switch
    Debounce    \* DEBOUNCE_TIME_MS

ASSUME ScanAssumption == Debounce \in Nat

VARIABLES
    last,       \* last_gpio_state: switches closed when last read
    prev,       \* prev_gpio_state: keys that count as pressed
    quiet       \* time since last_change_time, up to Debounce

scanVars == <<last, prev, quiet>>

ScanTypeOK ==
    /\ last \subseteq Switch
    /\ prev \subseteq Switch
    /\ quiet \in 0 .. Debounce

\* last_change_time is 0, the time of power on.
ScanInit ==
    /\ last = {}
    /\ prev = {}
    /\ quiet \in 0 .. Debounce

\* matrix_scan_is_pressed
IsPressed(key) == key \in prev

Confirm(raw) ==
    /\ quiet' = Debounce
    /\ prev' = raw

Wait(time) ==
    /\ quiet' = time
    /\ UNCHANGED prev

\* Mutated form of Scan: what is read is compared with what was reported.
ScanAgainstPrev(raw, elapsed) ==
    /\ last' = raw
    /\ LET time == IF raw # prev THEN 0 ELSE Min({Debounce, quiet + elapsed})
       IN  IF time < Debounce THEN Wait(time) ELSE Confirm(raw)

\* matrix_scan_process, the given time after the scan before.
Scan(raw, elapsed) ==
    /\ last' = raw
    /\ LET time == IF raw # last THEN 0 ELSE Min({Debounce, quiet + elapsed})
       IN  IF time < Debounce THEN Wait(time) ELSE Confirm(raw)
=============================================================================
