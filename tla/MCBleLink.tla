------------------------------ MODULE MCBleLink ------------------------------
(* Two of the four slots and three presses of slot, unpairing and transport *)
(* keys: enough for a request to overtake another and for one to meet the   *)
(* radio being switched off.  Generations do not wrap within the presses.   *)
EXTENDS BleLink
=============================================================================
