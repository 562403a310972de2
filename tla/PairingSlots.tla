----------------------------- MODULE PairingSlots -----------------------------
(***************************************************************************)
(* What the slot and pairing keys promise whoever presses them, with the   *)
(* radio, its restarts, addresses and the store left out: the abstract     *)
(* specification that module BleLink is shown to implement.                *)
(*                                                                         *)
(* A request is granted as a whole, once, and only the last one made; an   *)
(* unpairing empties the slot that was current when it was asked for and   *)
(* no other; a host enters the current slot alone.  Losing power loses the *)
(* request, or grants it, but half of nothing.                             *)
(***************************************************************************)
CONSTANTS Slots, Hosts

VARIABLES current,      \* the slot whose host the keyboard is for
          remembered,   \* the slot it will be for after power was lost
          paired,       \* the hosts each slot knows
          request,      \* the last request that was not granted yet
          gone          \* hosts that were unpaired

slotVars == <<current, remembered, paired, request, gone>>

NoRequest == <<"none", 0>>

Init ==
    /\ current \in Slots /\ remembered = current
    /\ paired = [s \in Slots |-> {}]
    /\ request = NoRequest /\ gone = {}

Ask ==
    /\ \E s \in Slots : request' \in {<<"select", s>>, <<"clear", current>>}
    /\ UNCHANGED <<current, remembered, paired, gone>>

\* The slot changes even where that cannot be remembered.
GrantSelect ==
    \E s \in Slots :
        /\ request = <<"select", s>>
        /\ current' = s /\ remembered' \in {remembered, s}
        /\ request' = NoRequest
        /\ UNCHANGED <<paired, gone>>

Emptied ==
    /\ request = <<"clear", current>>
    /\ paired' = [paired EXCEPT ![current] = {}]
    /\ gone' = gone \cup paired[current]

GrantUnpair ==
    /\ Emptied
    /\ request' = NoRequest
    /\ UNCHANGED <<current, remembered>>

\* A host nobody knows, or knew, takes the slot; of those it had some may stay.
Joined ==
    /\ \E h \in Hosts, kept \in SUBSET paired[current] :
          /\ h \notin gone /\ \A s \in Slots : h \notin paired[s]
          /\ paired' = [paired EXCEPT ![current] = kept \cup {h}]
    /\ UNCHANGED gone

Pair == Joined /\ UNCHANGED <<current, remembered, request>>

PowerLoss ==
    /\ current' = remembered /\ request' = NoRequest
    /\ UNCHANGED remembered
    /\ Emptied \/ Joined \/ UNCHANGED <<paired, gone>>

Next == Ask \/ GrantSelect \/ GrantUnpair \/ Pair \/ PowerLoss

Spec == Init /\ [][Next]_slotVars

\* No host is in two slots, and one that was unpaired is in none: with the
\* key of a slot the keyboard reaches the host of that slot and nobody else.
OneSlotPerHost ==
    \A s \in Slots :
        /\ paired[s] \cap gone = {}
        /\ \A t \in Slots : s # t => paired[s] \cap paired[t] = {}
=============================================================================
