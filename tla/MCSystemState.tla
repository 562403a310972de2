---------------------------- MODULE MCSystemState ----------------------------
(* The three builds with a transport.  A notice of settings is longer than *)
(* the others, and as long as it takes to fall asleep: two idle ticks.      *)
EXTENDS SystemState

MCBuilds == [usb : BOOLEAN, ble : BOOLEAN] \ {[usb |-> FALSE, ble |-> FALSE]}
MCDuration == [n \in Notices |-> IF n = "settings" THEN 2 ELSE 1]
=============================================================================
