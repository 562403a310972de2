----------------------------- MODULE MCHidReports -----------------------------
(* Keys with and without modifiers that share them, a modifier key, a      *)
(* consumer key, a mouse button, two mouse movements and the transport     *)
(* toggle; three of the six entries of a report, so that a fourth key       *)
(* overflows them.  Counters of 3 and 2 bits, so that a few ticks without a *)
(* host wrap them, packets at both ends of their range, a speed that is    *)
(* more than a packet can carry, movement that needs two steps.             *)
EXTENDS HidReports

MCCode(op, usage, bits) == [op |-> op, usage |-> usage, bits |-> bits]

A == MCCode("keyboard", 1, {})
ShiftB == MCCode("keyboard", 2, {1})
ShiftCtrlC == MCCode("keyboard", 3, {1, 2})
D == MCCode("keyboard", 5, {})
E == MCCode("keyboard", 6, {})
Shift == MCCode("modifier", 0, {1})
Volume == MCCode("consumer", 4, {})
Button == MCCode("button", 0, {1})
Left == MCCode("move", 2, {})
WheelUp == MCCode("move", 4, {})
Toggle == MCCode("system", 0, {})

MCCodes == {A, ShiftB, ShiftCtrlC, D, E, Shift, Volume, Button, Left, WheelUp, Toggle}

MCUsb(map, trackpad) == [keymap |-> map, usb |-> TRUE, ble |-> FALSE,
                            pinnacle |-> trackpad, newCodes |-> {}]
MCBoth(map, codes) == [keymap |-> map, usb |-> TRUE, ble |-> TRUE,
                             pinnacle |-> FALSE, newCodes |-> codes]

\* Four keys of the keyboard, three that share, or one key of each kind.
MCTyping == {<<A, ShiftB, D, E>>, <<A, A, ShiftB>>, <<ShiftB, ShiftCtrlC, Shift>>,
             <<A, Volume, Button>>, <<Volume, Volume, Toggle>>}
MCSetups == {MCUsb(m, FALSE) : m \in MCTyping}
            \cup {MCUsb(<<Left, WheelUp>>, FALSE), MCUsb(<<Left>>, TRUE)}
            \cup {MCBoth(<<A, Toggle>>, {Volume})}
MCChainSetups == {MCBoth(<<A, Toggle>>, {})}

MCPacket(x, y, w, bits) == [x |-> x, y |-> y, w |-> w, buttons |-> bits]
MCPackets == {MCPacket(0, -2, 0, {2}), MCPacket(0, 0, 0, {})}
MCCurve == [i \in 0 .. 2 |-> 2 * i]
=============================================================================
