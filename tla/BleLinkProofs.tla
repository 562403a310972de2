----------------------------- MODULE BleLinkProofs -----------------------------
(* Proofs about BleLink, for any number of slots, generations, hosts, key  *)
(* presses and power losses, with stores that answer as they like.         *)
EXTENDS BleLink, TLAPS

\* The steps that leave the slots, the bonds and the store alone.
Aside ==
    \/ \E slot \in Slots : Select(slot)
    \/ Unpair \/ SwitchPreference \/ TickPower \/ UsbMount
    \/ RadioDown \/ Connected \/ ReportEnabled
    \/ (RadioUp /\ ~restart) \/ (Disconnected /\ restart)

\* Those that apply what is pending, and those that start the keyboard.
Applying == (RadioUp /\ restart) \/ (Disconnected /\ ~restart)
Losing == PowerLoss \/ LossWhileBonding \/ LossWhileClearing

LEMMA NextCases == Next <=> Aside \/ Applying \/ Bonded \/ Losing
  BY DEF Next, Aside, Applying, Losing

LEMMA AsideFacts ==
    ASSUME Aside
    PROVE  UNCHANGED <<addr, selected, gen, bonds, tlv, forgotten>>
  BY DEF Aside, Select, Unpair, SwitchPreference, TickPower, UsbMount, RadioDown,
         Connected, ReportEnabled, RadioUp, Disconnected, usb, stack, slotVars, history

-----------------------------------------------------------------------------
(* Types.                                                                  *)

\* TypeOK in three parts: the keyboard and its radio, the slots, the bounds.
StackTypes ==
    /\ mounted \in BOOLEAN /\ enabled \in BOOLEAN /\ restart \in BOOLEAN
    /\ handle \in BOOLEAN /\ dropping \in BOOLEAN /\ disturbed \in BOOLEAN
    /\ pref \in {"usb", "ble"}
    /\ radio \in {"off", "starting", "working", "halting"}
    /\ link \in Addresses \cup {NoLink} /\ target \in Slots
    /\ action \in {"none", "select", "clear"}

SlotTypes ==
    /\ addr \in Addresses /\ selected \in Slots
    /\ gen \in [Slots -> 0 .. Generations - 1]
    /\ bonds \in [Slots -> Bonds \cup {NoBond}]
    /\ tlv \in [selected : Slots, gen : [Slots -> 0 .. Generations - 1], bonds : {bonds}]
    /\ forgotten \subseteq Bonds

Counts == [presses : Nat, bonds : 0 .. MaxBonds, losses : Nat]

LEMMA TypeParts == TypeOK <=> StackTypes /\ SlotTypes /\ count \in Counts
  <1>1. {mounted, enabled, restart, handle, dropping, disturbed} \subseteq BOOLEAN
        <=> /\ mounted \in BOOLEAN /\ enabled \in BOOLEAN /\ restart \in BOOLEAN
            /\ handle \in BOOLEAN /\ dropping \in BOOLEAN /\ disturbed \in BOOLEAN
    OBVIOUS
  <1> QED BY <1>1 DEF TypeOK, StackTypes, SlotTypes, Counts

LEMMA TypePartsNext == TypeOK' <=> (StackTypes /\ SlotTypes /\ count \in Counts)'
  BY TypeParts, PTL

LEMMA Entries ==
    ASSUME TypeOK
    PROVE  /\ selected \in Slots
           /\ Deleted \in [Slots -> Bonds \cup {NoBond}]
           /\ \A host \in Hosts : link # NoLink =>
                 /\ Added(host, link) \in Bonds
                 /\ Encrypted(Added(host, link), host) \in Bonds
           /\ \A entry \in Bonds : \A saved \in BOOLEAN :
                 Written(entry, saved) \in [Slots -> Bonds \cup {NoBond}]
  <1>1. selected \in Slots /\ bonds[selected] \in Bonds \cup {NoBond}
    BY DEF TypeOK
  <1>2. bonds[selected] \in [at : Addresses \cup {<<>>}, host : Hosts \cup {0}, keys : Hosts \cup {0}]
    BY <1>1 DEF Bonds, NoBond
  <1>3. \A host \in Hosts : link # NoLink =>
           /\ Added(host, link) \in Bonds
           /\ Encrypted(Added(host, link), host) \in Bonds
    BY <1>2 DEF TypeOK, Added, Encrypted, Bonds
  <1> QED BY <1>1, <1>3 DEF TypeOK, Deleted, Written

LEMMA BondStored ==
    ASSUME TypeOK, Pairs(link), NEW host \in Hosts, StoreBond(host)
    PROVE  /\ bonds' \in [Slots -> Bonds \cup {NoBond}]
           /\ tlv' = [tlv EXCEPT !.bonds = bonds']
  <1>1. PICK added \in StoreOutcomes, set \in StoreOutcomes :
           bonds' = IF added /\ set
                    THEN Written(Encrypted(Added(host, link), host), TRUE)
                    ELSE Written(Added(host, link), added)
    BY DEF StoreBond
  <1>2. added \in BOOLEAN
    BY BleAssumption
  <1>3. /\ Added(host, link) \in Bonds
        /\ Encrypted(Added(host, link), host) \in Bonds
    BY Entries DEF Pairs
  <1>4. /\ Written(Added(host, link), added) \in [Slots -> Bonds \cup {NoBond}]
        /\ Written(Encrypted(Added(host, link), host), TRUE) \in [Slots -> Bonds \cup {NoBond}]
    BY <1>2, <1>3, Entries
  <1> QED BY <1>1, <1>4 DEF StoreBond

LEMMA NextHostIsHost ==
    ASSUME TypeOK, NextHost <= MaxBonds
    PROVE  NextHost \in Hosts /\ NextHost \in 0 .. MaxBonds
  BY BleAssumption DEF TypeOK, NextHost, Hosts

\* What the store holds is what a start may find.
Stores == [selected : Slots, gen : [Slots -> 0 .. Generations - 1],
           bonds : [Slots -> Bonds \cup {NoBond}]]

LEMMA BootTypes ==
    ASSUME TypeOK, NEW kept \in Stores, Boot(kept),
           count' \in Counts, forgotten' \subseteq Bonds, disturbed' \in BOOLEAN
    PROVE  TypeOK'
  <1>1. StackTypes'
    BY DEF StackTypes, Boot, Stores
  <1>2. SlotTypes'
    BY DEF SlotTypes, Boot, Stores, Addresses
  <1> QED BY <1>1, <1>2, TypePartsNext

LEMMA ApplyTypes ==
    ASSUME TypeOK, ApplyPending, ResumeAdvertising
    PROVE  /\ selected' \in Slots /\ target' \in Slots /\ addr' \in Addresses
           /\ action' = "none"
           /\ gen' \in [Slots -> 0 .. Generations - 1]
           /\ bonds' \in [Slots -> Bonds \cup {NoBond}]
           /\ tlv' \in [selected : Slots, gen : [Slots -> 0 .. Generations - 1], bonds : {bonds'}]
           /\ forgotten' \subseteq Bonds /\ disturbed' \in BOOLEAN
  <1> DEFINE Goal ==
         /\ selected' \in Slots
         /\ gen' \in [Slots -> 0 .. Generations - 1]
         /\ bonds' \in [Slots -> Bonds \cup {NoBond}]
         /\ tlv' \in [selected : Slots, gen : [Slots -> 0 .. Generations - 1], bonds : {bonds'}]
         /\ forgotten' \subseteq Bonds /\ disturbed' \in BOOLEAN
  <1> USE TypeParts
  <1>1. ASSUME SelectTarget PROVE Goal
    BY <1>1 DEF SelectTarget, StackTypes, SlotTypes
  <1>2. ASSUME ClearSelected PROVE Goal
    <2>1. gen' \in [Slots -> 0 .. Generations - 1]
      BY <1>2, BleAssumption DEF ClearSelected, TypeOK
    <2>2. bonds' \in [Slots -> Bonds \cup {NoBond}] /\ bonds' = Deleted
      BY <1>2, Entries DEF ClearSelected
    <2>3. selected' \in Slots /\ forgotten' \subseteq Bonds
      BY <1>2 DEF ClearSelected, TypeOK
    <2>4. /\ tlv' \in [selected : Slots, gen : [Slots -> 0 .. Generations - 1], bonds : {bonds'}]
          /\ disturbed' \in BOOLEAN
      BY <1>2, <2>1, <2>2, BleAssumption DEF ClearSelected, TypeOK
    <2> QED BY <2>1, <2>2, <2>3, <2>4
  <1>3. ASSUME UNCHANGED <<selected, gen, bonds, tlv, forgotten, disturbed>> PROVE Goal
    BY <1>3 DEF StackTypes, SlotTypes
  <1>4. Goal
    BY <1>1, <1>2, <1>3 DEF ApplyPending
  <1>5. target' \in Slots /\ action' = "none"
    BY <1>4 DEF ApplyPending, TypeOK
  <1>6. addr' \in Addresses
    BY <1>4 DEF ResumeAdvertising, TypeOK, Addresses
  <1> QED BY <1>4, <1>5, <1>6

LEMMA TypesAside ==
    ASSUME TypeOK, Aside PROVE TypeOK'
  <1>1. SlotTypes'
    BY AsideFacts, TypeParts DEF SlotTypes
  <1>2. count' \in Counts
    <2>1. count' \in {count, [count EXCEPT !.presses = @ + 1]}
      BY DEF Aside, Select, Unpair, SwitchPreference, TickPower, UsbMount, RadioDown,
             Connected, ReportEnabled, RadioUp, Disconnected, Press
    <2> QED BY <2>1, TypeParts DEF Counts
  <1>3. StackTypes'
    <2> USE TypeParts DEF StackTypes, SlotTypes, usb, stack, slotVars, history
    <2>1. ASSUME NEW slot \in Slots, Select(slot) PROVE StackTypes'
      BY <2>1 DEF Select, Schedule, Reconnect, PowerOff
    <2>2. CASE Unpair
      BY <2>2 DEF Unpair, Schedule, Reconnect, PowerOff
    <2>3. CASE SwitchPreference
      BY <2>3 DEF SwitchPreference, PowerSet, PowerOn
    <2>4. CASE TickPower
      BY <2>4 DEF TickPower, PowerSet, PowerOn, PowerOff
    <2>5. CASE UsbMount
      BY <2>5 DEF UsbMount
    <2>6. CASE RadioDown
      BY <2>6 DEF RadioDown
    <2>7. CASE Connected
      BY <2>7 DEF Connected
    <2>8. CASE ReportEnabled
      BY <2>8 DEF ReportEnabled
    <2>9. CASE RadioUp /\ ~restart
      BY <2>9 DEF RadioUp
    <2>10. CASE Disconnected /\ restart
      BY <2>10 DEF Disconnected, PowerOff
    <2> QED BY <2>1, <2>2, <2>3, <2>4, <2>5, <2>6, <2>7, <2>8, <2>9, <2>10 DEF Aside
  <1> QED BY <1>1, <1>2, <1>3, TypePartsNext

LEMMA TypesStep ==
    ASSUME TypeOK, [Next]_vars PROVE TypeOK'
  <1>1. CASE Aside
    BY <1>1, TypesAside
  <1>2. CASE Applying
    <2>1. ApplyPending /\ ResumeAdvertising
      BY <1>2 DEF Applying, RadioUp, Disconnected
    <2>2. UNCHANGED <<usb, enabled, count>>
      BY <1>2 DEF Applying, RadioUp, Disconnected
    <2>3. /\ radio' \in {radio, "working"} /\ restart' \in {restart, FALSE}
          /\ handle' \in {handle, FALSE} /\ link' \in {link, NoLink}
          /\ dropping' \in {dropping, FALSE}
      BY <1>2 DEF Applying, RadioUp, Disconnected
    <2>4. StackTypes'
      <3>1. StackTypes
        BY TypeParts
      <3>2. /\ radio' \in {"off", "starting", "working", "halting"}
            /\ restart' \in BOOLEAN /\ handle' \in BOOLEAN /\ dropping' \in BOOLEAN
            /\ link' \in Addresses \cup {NoLink}
        BY <3>1, <2>3 DEF StackTypes
      <3>3. /\ mounted' \in BOOLEAN /\ pref' \in {"usb", "ble"} /\ enabled' \in BOOLEAN
        BY <3>1, <2>2 DEF StackTypes, usb
      <3>4. disturbed' \in BOOLEAN /\ target' \in Slots /\ action' = "none"
        BY <2>1, ApplyTypes
      <3> QED BY <3>2, <3>3, <3>4 DEF StackTypes
    <2>5. SlotTypes'
      BY <2>1, ApplyTypes DEF SlotTypes
    <2> QED BY <2>2, <2>4, <2>5, TypeParts, TypePartsNext
  <1>3. CASE Bonded
    <2>1. Pairs(link) /\ NextHost \in Hosts /\ NextHost \in 0 .. MaxBonds /\ StoreBond(NextHost)
      BY <1>3, NextHostIsHost DEF Bonded, Pairs
    <2>2. count' \in Counts
      BY <1>3, <2>1, TypeParts DEF Bonded, Counts
    <2>3. /\ bonds' \in [Slots -> Bonds \cup {NoBond}]
          /\ tlv' \in [selected : Slots, gen : [Slots -> 0 .. Generations - 1], bonds : {bonds'}]
      BY <2>1, BondStored DEF TypeOK
    <2>4. StackTypes'
      BY <1>3, TypeParts DEF StackTypes, Bonded, usb, stack, history
    <2>5. SlotTypes'
      BY <1>3, <2>3, TypeParts DEF SlotTypes, Bonded, history
    <2> QED BY <2>2, <2>4, <2>5, TypePartsNext
  <1>4. CASE PowerLoss
    <2>1. tlv \in Stores
      BY DEF TypeOK, Stores
    <2>2. count' \in Counts
      BY <1>4, TypeParts DEF PowerLoss, Counts
    <2>3. Boot(tlv) /\ forgotten' \subseteq Bonds /\ disturbed' \in BOOLEAN
      BY <1>4 DEF PowerLoss, TypeOK
    <2> QED BY <2>1, <2>2, <2>3, BootTypes
  <1>5. CASE LossWhileBonding
    <2> DEFINE kept == [tlv EXCEPT !.bonds = Written(Added(NextHost, link), TRUE)]
    <2>1. NextHost \in Hosts /\ NextHost \in 0 .. MaxBonds /\ link # NoLink
      BY <1>5, NextHostIsHost DEF LossWhileBonding, Pairs
    <2>2. Written(Added(NextHost, link), TRUE) \in [Slots -> Bonds \cup {NoBond}]
      BY <2>1, Entries
    <2>3. kept \in Stores
      BY <2>2 DEF TypeOK, Stores
    <2>4. count' \in Counts
      <3>1. count' = [count EXCEPT !.losses = @ + 1, !.bonds = NextHost]
        BY <1>5 DEF LossWhileBonding
      <3>2. count \in Counts
        BY TypeParts
      <3>3. [count EXCEPT !.losses = @ + 1] \in Counts
        BY <3>2 DEF Counts
      <3>4. [[count EXCEPT !.losses = @ + 1] EXCEPT !.bonds = NextHost] \in Counts
        BY <2>1, <3>3 DEF Counts
      <3> QED BY <3>1, <3>4
    <2>5. Boot(kept) /\ forgotten' \subseteq Bonds /\ disturbed' \in BOOLEAN
      BY <1>5 DEF LossWhileBonding, TypeOK
    <2> QED BY <2>3, <2>4, <2>5, BootTypes
  <1>6. CASE LossWhileClearing
    <2> DEFINE kept == [tlv EXCEPT !.bonds = Deleted]
    <2>1. kept \in Stores
      BY Entries DEF TypeOK, Stores
    <2>2. count' \in Counts
      BY <1>6, TypeParts DEF LossWhileClearing, Counts
    <2>3. Boot(kept) /\ forgotten' \subseteq Bonds /\ disturbed' \in BOOLEAN
      BY <1>6 DEF LossWhileClearing, TypeOK
    <2> QED BY <2>1, <2>2, <2>3, BootTypes
  <1>7. CASE UNCHANGED vars
    BY <1>7 DEF TypeOK, vars, usb, stack, slotVars, history
  <1> QED BY <1>1, <1>2, <1>3, <1>4, <1>5, <1>6, <1>7, NextCases DEF Losing

LEMMA TypesInit ==
    ASSUME Init PROVE TypeOK
  <1>1. 0 \in Slots /\ 0 \in 0 .. Generations - 1 /\ 0 \in 0 .. MaxBonds
    BY BleAssumption DEF Slots
  <1>2. StackTypes
    BY <1>1 DEF Init, StackTypes
  <1>3. SlotTypes
    BY <1>1 DEF Init, SlotTypes, Addresses
  <1>4. count \in Counts
    BY <1>1 DEF Init, Counts
  <1> QED BY <1>2, <1>3, <1>4, TypeParts

\* Every variable keeps its type, and memory and store keep the same bonds:
\* le_device_db_tlv_custom.c changes its copy only once the store has taken
\* the change.
THEOREM BleTypeCorrect == Spec => []TypeOK
  <1>1. Init => TypeOK
    BY TypesInit
  <1>2. TypeOK /\ [Next]_vars => TypeOK'
    BY TypesStep
  <1> QED BY <1>1, <1>2, PTL DEF Spec

-----------------------------------------------------------------------------
(* What is pending.                                                        *)

LEMMA PendingStep ==
    ASSUME ClearHitsTheSlotAsked, [Next]_vars
    PROVE  ClearHitsTheSlotAsked'
  <1> USE DEF ClearHitsTheSlotAsked
  <1>1. CASE Aside
    <2>1. selected' = selected
      BY <1>1, AsideFacts
    <2>2. \/ action' = "select" /\ asked' = <<action', target'>> /\ restart'
          \/ action' = "clear" /\ target' = selected
             /\ asked' = <<action', target'>> /\ restart'
          \/ UNCHANGED <<action, target, asked, restart>>
          \/ UNCHANGED <<action, target, asked>> /\ ~restart
      BY <1>1 DEF Aside, Select, Unpair, Schedule, Reconnect, SwitchPreference, TickPower,
                  PowerSet, UsbMount, RadioDown, Connected, ReportEnabled, RadioUp,
                  Disconnected, usb, stack, slotVars, history
    <2> QED BY <2>1, <2>2
  <1>2. CASE Applying
    BY <1>2 DEF Applying, RadioUp, Disconnected, ApplyPending
  <1>3. CASE Bonded
    BY <1>3 DEF Bonded, stack, history
  <1>4. CASE Losing
    BY <1>4 DEF Losing, PowerLoss, LossWhileBonding, LossWhileClearing, Boot
  <1>5. CASE UNCHANGED vars
    BY <1>5 DEF vars, stack, slotVars, history
  <1> QED BY <1>1, <1>2, <1>3, <1>4, <1>5, NextCases

\* What is pending is the last request accepted, its restart is still to
\* come, and an unpairing concerns the slot selected when the key was
\* pressed: pending_action and pending_slot of le_device_db_tlv_custom.c.
THEOREM ClearMeansTheSlotAsked == Spec => []ClearHitsTheSlotAsked
  <1>1. Init => ClearHitsTheSlotAsked
    BY DEF Init, ClearHitsTheSlotAsked
  <1>2. ClearHitsTheSlotAsked /\ [Next]_vars => ClearHitsTheSlotAsked'
    BY PendingStep
  <1> QED BY <1>1, <1>2, PTL DEF Spec

-----------------------------------------------------------------------------
(* Addresses: unless a restart lost its power or a generation was not      *)
(* saved, the address set is that of the slot selected, and a link, a bond *)
(* and the store agree with it.                                            *)

AddressInv ==
    /\ restart /\ ~enabled => disturbed
    /\ ~disturbed =>
          /\ tlv.gen = gen
          /\ addr = Address(selected)
          /\ link # NoLink => link = Address(selected)
    /\ BondBelongsToAddress

LEMMA AddressAside ==
    ASSUME AddressInv, Aside PROVE AddressInv'
  <1>1. UNCHANGED <<addr, selected, gen, bonds, tlv>>
    BY AsideFacts
  <1>2. ~disturbed' => ~disturbed
    BY DEF Aside, Select, Unpair, SwitchPreference, TickPower, PowerSet, UsbMount,
           RadioDown, Connected, ReportEnabled, RadioUp, Disconnected, history
  <1>3. link' \in {link, addr, NoLink}
    BY DEF Aside, Select, Unpair, Reconnect, SwitchPreference, TickPower, PowerSet, UsbMount,
           RadioDown, Connected, ReportEnabled, RadioUp, Disconnected, stack
  <1>4. restart' /\ ~enabled' => disturbed'
    BY DEF AddressInv, Aside, Select, Unpair, Reconnect, SwitchPreference, TickPower,
           PowerSet, UsbMount, RadioDown, Connected, ReportEnabled, RadioUp, Disconnected,
           stack, history
  <1> QED BY <1>1, <1>2, <1>3, <1>4 DEF AddressInv, BondBelongsToAddress, Address

LEMMA AddressApplying ==
    ASSUME TypeOK, ClearHitsTheSlotAsked, AddressInv, Applying
    PROVE  AddressInv'
  <1>1. ApplyPending /\ ResumeAdvertising
    BY DEF Applying, RadioUp, Disconnected
  <1>2. ~restart' /\ link' = NoLink /\ enabled' = enabled
    BY DEF Applying, RadioUp, Disconnected
  <1>3. ~disturbed' => /\ ~disturbed
                       /\ tlv'.gen = gen'
                       /\ \A s \in Slots : bonds'[s] # NoBond =>
                             bonds'[s] = bonds[s] /\ gen'[s] = gen[s]
    <2> SUFFICES ASSUME ~disturbed'
                 PROVE  /\ ~disturbed
                        /\ tlv'.gen = gen'
                        /\ \A s \in Slots : bonds'[s] # NoBond =>
                              bonds'[s] = bonds[s] /\ gen'[s] = gen[s]
      OBVIOUS
    <2>1. ASSUME SelectTarget PROVE UNCHANGED <<gen, bonds, disturbed>> /\ tlv'.gen = tlv.gen
      BY <2>1, TypeParts DEF SelectTarget, SlotTypes
    <2>2. ASSUME ClearSelected
          PROVE  /\ ~disturbed /\ tlv'.gen = gen' /\ bonds' = Deleted
                 /\ gen' = [gen EXCEPT ![selected] = (@ + 1) % Generations]
      <3>1. PICK saved \in StoreOutcomes :
               /\ tlv' = [tlv EXCEPT !.bonds = Deleted, !.gen = IF saved THEN gen' ELSE @]
               /\ disturbed' = (disturbed \/ ~saved)
        BY <2>2 DEF ClearSelected
      <3>2. ~disturbed /\ saved
        BY <3>1
      <3> QED BY <2>2, <3>1, <3>2, TypeParts DEF ClearSelected, SlotTypes
    <2>3. ASSUME ClearSelected
          PROVE  \A s \in Slots : bonds'[s] # NoBond =>
                    bonds'[s] = bonds[s] /\ gen'[s] = gen[s]
      BY <2>2, <2>3, TypeParts DEF Deleted, SlotTypes
    <2> QED BY <1>1, <2>1, <2>2, <2>3 DEF ApplyPending, AddressInv
  <1>4. ~disturbed' => addr' = Address(selected)'
    <2>1. CASE enabled
      BY <1>1, <2>1 DEF ResumeAdvertising, Address
    <2>2. CASE ~enabled /\ restart
      BY <1>3, <2>2 DEF AddressInv
    <2>3. CASE ~enabled /\ ~restart
      <3>1. action = "none"
        BY <2>3 DEF ClearHitsTheSlotAsked
      <3> QED BY <1>1, <2>3, <3>1 DEF ApplyPending, ResumeAdvertising, AddressInv, Address
    <2> QED BY <2>1, <2>2, <2>3
  <1>5. BondBelongsToAddress'
    BY <1>3 DEF AddressInv, BondBelongsToAddress, Address
  <1> QED BY <1>2, <1>3, <1>4, <1>5 DEF AddressInv

\* A pairing writes the link's address into the slot selected, and no other.
LEMMA BondOfLink ==
    ASSUME TypeOK, Pairs(link), NEW host \in Hosts, StoreBond(host)
    PROVE  \A s \in Slots : bonds'[s] = bonds[s] \/ (s = selected /\ bonds'[s].at = link)
  <1>1. PICK added \in StoreOutcomes, set \in StoreOutcomes :
           bonds' = IF added /\ set
                    THEN Written(Encrypted(Added(host, link), host), TRUE)
                    ELSE Written(Added(host, link), added)
    BY DEF StoreBond
  <1>2. /\ Added(host, link) \in Bonds /\ Added(host, link).at = link
        /\ Encrypted(Added(host, link), host) \in Bonds
        /\ Encrypted(Added(host, link), host).at = link
    <2>1. selected \in Slots /\ bonds[selected] \in Bonds \cup {NoBond}
      BY TypeParts DEF SlotTypes
    <2>2. bonds[selected] \in [at : Addresses \cup {<<>>}, host : Hosts \cup {0},
                               keys : Hosts \cup {0}]
      BY <2>1 DEF Bonds, NoBond
    <2> QED BY <2>2, Entries DEF Added, Encrypted, Pairs
  <1>3. ASSUME NEW entry \in Bonds, entry.at = link, NEW saved
        PROVE  \A s \in Slots : \/ Written(entry, saved)[s] = bonds[s]
                                \/ s = selected /\ Written(entry, saved)[s].at = link
    BY <1>3, TypeParts DEF Written, SlotTypes
  <1> QED BY <1>1, <1>2, <1>3

LEMMA AddressLosing ==
    ASSUME TypeOK, AddressInv, Losing PROVE AddressInv'
  <1>1. ASSUME NEW kept, Boot(kept), kept.gen = tlv.gen, disturbed' = disturbed,
               \A s \in Slots : \/ kept.bonds[s] \in {bonds[s], NoBond}
                                \/ s = selected /\ kept.bonds[s].at = link /\ link # NoLink
        PROVE  AddressInv'
    <2>1. ~restart' /\ link' = NoLink /\ tlv' = kept /\ gen' = kept.gen /\ bonds' = kept.bonds
      BY <1>1 DEF Boot
    <2>2. addr' = Address(selected)'
      BY <1>1 DEF Boot, Address
    <2>3. BondBelongsToAddress'
      BY <1>1, <2>1 DEF AddressInv, BondBelongsToAddress, Address
    <2> QED BY <2>1, <2>2, <2>3 DEF AddressInv
  <1>2. /\ tlv.bonds = bonds /\ bonds \in [Slots -> Bonds \cup {NoBond}] /\ selected \in Slots
        /\ tlv \in Stores
    BY TypeParts DEF SlotTypes, Stores
  <1>3. CASE PowerLoss
    BY <1>1, <1>2, <1>3 DEF PowerLoss
  <1>4. CASE LossWhileBonding
    <2> DEFINE kept == [tlv EXCEPT !.bonds = Written(Added(NextHost, link), TRUE)]
    <2>1. Boot(kept) /\ disturbed' = disturbed /\ link # NoLink
      BY <1>4 DEF LossWhileBonding, Pairs
    <2>2. kept.gen = tlv.gen /\ kept.bonds = Written(Added(NextHost, link), TRUE)
      BY <1>2 DEF Stores
    <2>3. Added(NextHost, link).at = link
      <3>1. bonds[selected] \in [at : Addresses \cup {<<>>}, host : Hosts \cup {0},
                                 keys : Hosts \cup {0}]
        BY <1>2 DEF Bonds, NoBond
      <3> QED BY <3>1 DEF Added
    <2>4. \A s \in Slots : \/ kept.bonds[s] = bonds[s]
                           \/ s = selected /\ kept.bonds[s].at = link
      BY <1>2, <2>2, <2>3 DEF Written
    <2> HIDE DEF kept
    <2> QED BY <1>1, <2>1, <2>2, <2>4
  <1>5. CASE LossWhileClearing
    <2> DEFINE kept == [tlv EXCEPT !.bonds = Deleted]
    <2>1. Boot(kept) /\ disturbed' = disturbed
      BY <1>5 DEF LossWhileClearing
    <2>2. kept.gen = tlv.gen /\ kept.bonds = Deleted
      BY <1>2 DEF Stores
    <2>3. \A s \in Slots : kept.bonds[s] \in {bonds[s], NoBond}
      BY <1>2, <2>2 DEF Deleted
    <2> HIDE DEF kept
    <2> QED BY <1>1, <2>1, <2>2, <2>3
  <1> QED BY <1>3, <1>4, <1>5 DEF Losing

LEMMA AddressStep ==
    ASSUME TypeOK, ClearHitsTheSlotAsked, AddressInv, [Next]_vars
    PROVE  AddressInv'
  <1>1. CASE Bonded
    <2>1. Pairs(link) /\ NextHost \in Hosts /\ StoreBond(NextHost)
      BY <1>1, NextHostIsHost DEF Bonded, Pairs
    <2>2. /\ UNCHANGED <<restart, enabled, disturbed, gen, addr, selected, link>>
          /\ tlv' = [tlv EXCEPT !.bonds = bonds']
      BY <1>1, <2>1, BondStored DEF Bonded, stack, history
    <2>3. tlv'.gen = tlv.gen
      BY <2>2, TypeParts DEF SlotTypes
    <2>4. \A s \in Slots : bonds'[s] = bonds[s] \/ (s = selected /\ bonds'[s].at = link)
      BY <2>1, BondOfLink
    <2>5. BondBelongsToAddress'
      BY <2>1, <2>2, <2>4 DEF AddressInv, BondBelongsToAddress, Address, Pairs
    <2> QED BY <2>2, <2>3, <2>5 DEF AddressInv, Address
  <1>2. CASE UNCHANGED vars
    BY <1>2 DEF vars, stack, slotVars, history, AddressInv, BondBelongsToAddress, Address
  <1> QED BY <1>1, <1>2, NextCases, AddressAside, AddressApplying, AddressLosing

LEMMA AddressInit ==
    ASSUME Init PROVE AddressInv
  <1>1. 0 \in Slots
    BY BleAssumption DEF Slots
  <1> QED BY <1>1 DEF Init, AddressInv, BondBelongsToAddress, Address

LEMMA AddressInvariant == Spec => []AddressInv
  <1>1. Init => AddressInv
    BY AddressInit
  <1>2. TypeOK /\ ClearHitsTheSlotAsked /\ AddressInv /\ [Next]_vars => AddressInv'
    BY AddressStep
  <1> QED BY <1>1, <1>2, BleTypeCorrect, ClearMeansTheSlotAsked, PTL DEF Spec

\* Whoever looks for the keyboard finds it under the address of the slot
\* selected: _ble_resume_advertising against restarts, requests and USB.
THEOREM AddressFollowsSlot == Spec => []AdvertisesSelectedSlot
  <1>1. AddressInv => AdvertisesSelectedSlot
    BY DEF AddressInv, AdvertisesSelectedSlot
  <1> QED BY <1>1, AddressInvariant, PTL

\* A bond is in the slot whose address its host knows: a request made while
\* the host is pairing waits until the link is gone.
THEOREM BondIsWhereItsHostLooks == Spec => []BondBelongsToAddress
  <1>1. AddressInv => BondBelongsToAddress
    BY DEF AddressInv
  <1> QED BY <1>1, AddressInvariant, PTL

-----------------------------------------------------------------------------
(* Hosts.                                                                  *)

\* Slots share no host, neither by bond nor by keys, and whoever is in a
\* slot or was unpaired has paired already.
Known == 1 .. count.bonds

HostsApart ==
    /\ \A s \in Slots : HostsOf(bonds[s]) \subseteq Known
    /\ \A b \in forgotten : HostsOf(b) \subseteq Known
    /\ \A s, t \in Slots : s # t => HostsOf(bonds[s]) \cap HostsOf(bonds[t]) = {}
    /\ \A s \in Slots, b \in forgotten : HostsOf(b) \cap HostsOf(bonds[s]) = {}

\* The bonds lose nothing but whole entries, and what they lose is forgotten.
LEMMA HostsAfterClearing ==
    ASSUME TypeOK, HostsApart, count'.bonds = count.bonds,
           bonds' = Deleted, forgotten' = forgotten \cup ({bonds[selected]} \ {NoBond})
    PROVE  HostsApart'
  <1>1. /\ \A s \in Slots \ {selected} : bonds'[s] = bonds[s]
        /\ bonds'[selected] = NoBond /\ selected \in Slots
    BY TypeParts DEF SlotTypes, Deleted
  <1>2. HostsOf(NoBond) = {}
    BY DEF HostsOf, NoBond
  <1>3. \A b \in forgotten' : b \in forgotten \/ b = bonds[selected]
    OBVIOUS
  <1>4. \A s \in Slots : HostsOf(bonds'[s]) = {} \/ (s # selected /\ bonds'[s] = bonds[s])
    BY <1>1, <1>2
  <1> HIDE DEF HostsOf
  <1>5. Known' = Known
    BY DEF Known
  <1>6. /\ \A s \in Slots : HostsOf(bonds'[s]) \subseteq Known
        /\ \A b \in forgotten' : HostsOf(b) \subseteq Known
    BY <1>1, <1>3, <1>4 DEF HostsApart
  <1>7. \A s, t \in Slots : s # t => HostsOf(bonds'[s]) \cap HostsOf(bonds'[t]) = {}
    BY <1>4 DEF HostsApart
  <1>8. \A s \in Slots, b \in forgotten' : HostsOf(b) \cap HostsOf(bonds'[s]) = {}
    BY <1>1, <1>3, <1>4 DEF HostsApart
  <1> QED BY <1>5, <1>6, <1>7, <1>8 DEF HostsApart

\* Only the next host, and nobody else, enters the slot selected.
LEMMA HostsAfterPairing ==
    ASSUME TypeOK, HostsApart, forgotten' = forgotten,
           count'.bonds = NextHost,
           \A s \in Slots : \/ bonds'[s] = bonds[s]
                            \/ /\ s = selected
                               /\ HostsOf(bonds'[s]) \subseteq HostsOf(bonds[s]) \cup {NextHost}
    PROVE  HostsApart'
  <1>1. count.bonds \in Nat
    BY TypeParts DEF Counts
  <1>2. Known \subseteq Known' /\ NextHost \in Known' /\ NextHost \notin Known
    BY <1>1 DEF Known, NextHost
  <1>3. \A s \in Slots : HostsOf(bonds'[s]) \subseteq HostsOf(bonds[s]) \cup {NextHost}
    OBVIOUS
  <1>4. \A s \in Slots : HostsOf(bonds'[s]) \subseteq Known'
    BY <1>2, <1>3 DEF HostsApart
  <1>5. \A b \in forgotten' : HostsOf(b) \subseteq Known'
    BY <1>2 DEF HostsApart
  <1>6. \A s, t \in Slots : s # t => HostsOf(bonds'[s]) \cap HostsOf(bonds'[t]) = {}
    <2> SUFFICES ASSUME NEW s \in Slots, NEW t \in Slots, s # t, t # selected
                 PROVE  HostsOf(bonds'[s]) \cap HostsOf(bonds'[t]) = {}
      OBVIOUS
    <2>1. bonds'[t] = bonds[t] /\ NextHost \notin HostsOf(bonds[t])
      BY <1>2 DEF HostsApart
    <2> QED BY <2>1, <1>3 DEF HostsApart
  <1>7. \A s \in Slots, b \in forgotten' : HostsOf(b) \cap HostsOf(bonds'[s]) = {}
    <2>1. \A b \in forgotten : NextHost \notin HostsOf(b)
      BY <1>2 DEF HostsApart
    <2> QED BY <2>1, <1>3 DEF HostsApart
  <1> QED BY <1>4, <1>5, <1>6, <1>7 DEF HostsApart

LEMMA HostsKept ==
    ASSUME HostsApart, UNCHANGED <<bonds, forgotten>>, count'.bonds = count.bonds
    PROVE  HostsApart'
  BY DEF HostsApart, Known

LEMMA HostsOfEntries ==
    ASSUME TypeOK, link # NoLink, NEW host \in Hosts, NEW entry,
           entry \in {Added(host, link), Encrypted(Added(host, link), host)}
    PROVE  HostsOf(entry) \subseteq HostsOf(bonds[selected]) \cup {host}
  <1>1. bonds[selected] \in [at : Addresses \cup {<<>>}, host : Hosts \cup {0},
                             keys : Hosts \cup {0}]
    BY TypeParts DEF SlotTypes, Bonds, NoBond
  <1>2. entry.host = host /\ entry.keys \in {bonds[selected].keys, host}
    BY <1>1 DEF Added, Encrypted
  <1> QED BY <1>2 DEF HostsOf

LEMMA HostsStep ==
    ASSUME TypeOK, HostsApart, [Next]_vars PROVE HostsApart'
  <1>0. /\ bonds \in [Slots -> Bonds \cup {NoBond}] /\ selected \in Slots
        /\ tlv \in Stores /\ tlv.bonds = bonds /\ count \in Counts
    BY TypeParts DEF SlotTypes, Stores
  <1>1. CASE Aside
    <2>1. count' \in {count, [count EXCEPT !.presses = @ + 1]}
      BY <1>1 DEF Aside, Select, Unpair, SwitchPreference, TickPower, UsbMount, RadioDown,
                  Connected, ReportEnabled, RadioUp, Disconnected, Press
    <2>2. count'.bonds = count.bonds
      BY <1>0, <2>1 DEF Counts
    <2> QED BY <1>1, <2>2, AsideFacts, HostsKept
  <1>2. CASE Applying
    <2>1. ApplyPending /\ count' = count
      BY <1>2 DEF Applying, RadioUp, Disconnected
    <2>2. \/ UNCHANGED <<bonds, forgotten>>
          \/ /\ bonds' = Deleted
             /\ forgotten' = forgotten \cup ({bonds[selected]} \ {NoBond})
      BY <2>1 DEF ApplyPending, SelectTarget, ClearSelected
    <2> QED BY <2>1, <2>2, HostsKept, HostsAfterClearing
  <1>3. CASE Bonded
    <2>1. Pairs(link) /\ NextHost \in Hosts /\ StoreBond(NextHost) /\ link # NoLink
      BY <1>3, NextHostIsHost DEF Bonded, Pairs
    <2>2. PICK added \in StoreOutcomes, set \in StoreOutcomes :
             bonds' = IF added /\ set
                      THEN Written(Encrypted(Added(NextHost, link), NextHost), TRUE)
                      ELSE Written(Added(NextHost, link), added)
      BY <2>1 DEF StoreBond
    <2>3. PICK entry \in {Added(NextHost, link), Encrypted(Added(NextHost, link), NextHost)} :
             \E saved \in BOOLEAN : bonds' = Written(entry, saved)
      <3>1. CASE added /\ set
        BY <2>2, <3>1
      <3>2. CASE ~(added /\ set)
        BY <2>2, <3>2, BleAssumption
      <3> QED BY <3>1, <3>2
    <2>4. \A s \in Slots :
             \/ bonds'[s] = bonds[s]
             \/ /\ s = selected
                /\ HostsOf(bonds'[s]) \subseteq HostsOf(bonds[s]) \cup {NextHost}
      <3>1. HostsOf(entry) \subseteq HostsOf(bonds[selected]) \cup {NextHost}
        BY <2>1, HostsOfEntries
      <3> QED BY <1>0, <2>3, <3>1 DEF Written
    <2>5. CASE bonds' = bonds
      BY <1>3, <2>5, HostsKept DEF Bonded, history
    <2>6. CASE bonds' # bonds
      <3>1. count'.bonds = NextHost /\ forgotten' = forgotten
        BY <1>0, <1>3, <2>6 DEF Bonded, history, Counts
      <3> QED BY <2>4, <3>1, HostsAfterPairing
    <2> QED BY <2>5, <2>6
  <1>4. CASE PowerLoss
    <2>1. bonds' = bonds /\ forgotten' = forgotten /\ count' = [count EXCEPT !.losses = @ + 1]
      BY <1>0, <1>4 DEF PowerLoss, Boot
    <2> QED BY <1>0, <2>1, HostsKept DEF Counts
  <1>5. CASE LossWhileBonding
    <2>1. /\ link # NoLink /\ NextHost \in Hosts /\ forgotten' = forgotten
          /\ count' = [count EXCEPT !.losses = @ + 1, !.bonds = NextHost]
      BY <1>5, NextHostIsHost DEF LossWhileBonding, Pairs
    <2>2. bonds' = Written(Added(NextHost, link), TRUE)
      BY <1>0, <1>5 DEF LossWhileBonding, Boot, Stores
    <2>3. count'.bonds = NextHost
      BY <1>0, <2>1 DEF Counts
    <2>4. HostsOf(Added(NextHost, link)) \subseteq HostsOf(bonds[selected]) \cup {NextHost}
      BY <2>1, HostsOfEntries
    <2>5. \A s \in Slots :
             \/ bonds'[s] = bonds[s]
             \/ /\ s = selected
                /\ HostsOf(bonds'[s]) \subseteq HostsOf(bonds[s]) \cup {NextHost}
      BY <1>0, <2>2, <2>4 DEF Written
    <2> QED BY <2>1, <2>3, <2>5, HostsAfterPairing
  <1>6. CASE LossWhileClearing
    <2>1. /\ bonds' = Deleted /\ count' = [count EXCEPT !.losses = @ + 1]
          /\ forgotten' = forgotten \cup ({bonds[selected]} \ {NoBond})
      BY <1>0, <1>6 DEF LossWhileClearing, Boot, Stores
    <2>2. count'.bonds = count.bonds
      BY <1>0, <2>1 DEF Counts
    <2> QED BY <2>1, <2>2, HostsAfterClearing
  <1>7. CASE UNCHANGED vars
    BY <1>7, HostsKept DEF vars, slotVars, history
  <1> QED BY <1>1, <1>2, <1>3, <1>4, <1>5, <1>6, <1>7, NextCases DEF Losing

LEMMA HostsInit ==
    ASSUME Init PROVE HostsApart
  BY DEF Init, HostsApart, HostsOf, NoBond

\* Nothing of a host that was unpaired is in a slot again, whatever could not
\* be stored and wherever power is lost.
THEOREM UnpairedHostIsGone == Spec => []ForgottenStaysForgotten
  <1>1. Init => HostsApart
    BY HostsInit
  <1>2. TypeOK /\ HostsApart /\ [Next]_vars => HostsApart'
    BY HostsStep
  <1>3. TypeOK /\ HostsApart => ForgottenStaysForgotten
    <2> SUFFICES ASSUME TypeOK, HostsApart PROVE ForgottenStaysForgotten
      OBVIOUS
    <2>1. tlv.bonds = bonds
      BY TypeParts DEF SlotTypes
    <2> QED BY <2>1 DEF HostsApart, ForgottenStaysForgotten
  <1> QED BY <1>1, <1>2, <1>3, BleTypeCorrect, PTL DEF Spec

-----------------------------------------------------------------------------
(* Restarts.                                                               *)

\* While a restart is pending the stack owes a step: there is a link it was
\* told to drop, or a radio on its way down or up.
RestartUnderWay ==
    restart => IF link # NoLink THEN dropping \/ radio # "working"
                                ELSE radio \in {"starting", "halting"}

\* What the stack still has to do for a restart: drop, halt, start.
StepsLeft ==
    IF link # NoLink THEN 3 ELSE IF radio = "halting" THEN 2 ELSE IF radio = "starting" THEN 1 ELSE 0

\* Whatever becomes of radio and link during a restart brings its end nearer,
\* unless a key is pressed or the keyboard takes or gives the power.
RestartAdvances ==
    [][restart /\ restart' =>
          \/ UNCHANGED <<radio, link>> \/ StepsLeft' < StepsLeft
          \/ enabled' # enabled \/ count'.presses # count.presses]_vars

\* A handle is that of a link, a working radio has no link without one, and
\* a radio that is off or going off is wanted so or is to come on again.
RadioInv ==
    /\ handle => link # NoLink
    /\ link # NoLink /\ radio = "working" => handle
    /\ radio = "off" => link = NoLink /\ ~restart /\ ~enabled
    /\ radio = "halting" /\ enabled => restart
    /\ RestartUnderWay

LEMMA AddressIsLink ==
    ASSUME NEW a \in Addresses PROVE a # NoLink
  <1>1. PICK s \in Slots, g \in 0 .. Generations - 1 : a = <<s, g>>
    BY DEF Addresses
  <1> QED BY <1>1 DEF NoLink

LEMMA RadioAside ==
    ASSUME TypeOK, RadioInv, Aside PROVE RadioInv'
  <1> USE DEF RadioInv, RestartUnderWay
  <1>0. /\ radio \in {"off", "starting", "working", "halting"}
        /\ enabled \in BOOLEAN /\ restart \in BOOLEAN
        /\ handle \in BOOLEAN /\ dropping \in BOOLEAN /\ mounted \in BOOLEAN
    BY TypeParts DEF StackTypes
  <1>1. ASSUME enabled, Reconnect PROVE RadioInv'
    BY <1>0, <1>1 DEF Reconnect, PowerOff
  <1>2. ASSUME PowerSet(TRUE) PROVE RadioInv'
    BY <1>0, <1>2 DEF PowerSet, PowerOn
  <1>3. ASSUME PowerSet(FALSE), enabled PROVE RadioInv'
    BY <1>0, <1>3 DEF PowerSet, PowerOff
  <1>4. ASSUME UNCHANGED stack PROVE RadioInv'
    BY <1>4 DEF stack
  <1>5. ASSUME NEW slot \in Slots, Select(slot) PROVE RadioInv'
    BY <1>1, <1>5 DEF Select
  <1>6. CASE Unpair
    BY <1>1, <1>6 DEF Unpair
  <1>7. CASE SwitchPreference
    BY <1>2, <1>4, <1>7 DEF SwitchPreference
  <1>8. CASE TickPower
    <2>1. enabled = mounted /\ PowerSet(~mounted)
      BY <1>8 DEF TickPower
    <2>2. CASE mounted
      <3>1. (~mounted) = FALSE
        BY <2>2
      <3> QED BY <1>3, <2>1, <2>2, <3>1
    <2>3. CASE ~mounted
      <3>1. (~mounted) = TRUE
        BY <2>3
      <3> QED BY <1>2, <2>1, <3>1
    <2> QED BY <2>2, <2>3
  <1>9. CASE UsbMount
    BY <1>4, <1>9 DEF UsbMount
  <1>10. CASE RadioDown
    BY <1>10 DEF RadioDown
  <1>11. CASE Connected
    <2>1. link' # NoLink /\ handle'
      BY <1>11, TypeParts, AddressIsLink DEF Connected, SlotTypes
    <2> QED BY <1>11, <2>1 DEF Connected
  <1>12. CASE ReportEnabled
    BY <1>12 DEF ReportEnabled
  <1>13. CASE RadioUp /\ ~restart
    BY <1>13 DEF RadioUp
  <1>14. CASE Disconnected /\ restart
    BY <1>0, <1>14 DEF Disconnected, PowerOff
  <1> QED BY <1>5, <1>6, <1>7, <1>8, <1>9, <1>10, <1>11, <1>12, <1>13, <1>14 DEF Aside

LEMMA RadioStep ==
    ASSUME TypeOK, RadioInv, [Next]_vars PROVE RadioInv'
  <1>1. CASE Applying
    BY <1>1 DEF Applying, RadioUp, Disconnected, RadioInv, RestartUnderWay
  <1>2. CASE Bonded
    BY <1>2 DEF Bonded, stack, RadioInv, RestartUnderWay
  <1>3. CASE Losing
    BY <1>3 DEF Losing, PowerLoss, LossWhileBonding, LossWhileClearing, Boot,
                RadioInv, RestartUnderWay
  <1>4. CASE UNCHANGED vars
    BY <1>4 DEF vars, stack, RadioInv, RestartUnderWay
  <1> QED BY <1>1, <1>2, <1>3, <1>4, RadioAside, NextCases

LEMMA RadioInvariant == Spec => []RadioInv
  <1>1. Init => RadioInv
    BY DEF Init, RadioInv, RestartUnderWay
  <1>2. TypeOK /\ RadioInv /\ [Next]_vars => RadioInv'
    BY RadioStep
  <1> QED BY <1>1, <1>2, BleTypeCorrect, PTL DEF Spec

\* A restart never waits for a step that nobody owes it: there is a link to
\* drop or a radio on its way (ble_reconnect, ble_power_set, _packet_handler).
THEOREM RestartIsUnderWay == Spec => []RestartUnderWay
  <1>1. RadioInv => RestartUnderWay
    BY DEF RadioInv
  <1> QED BY <1>1, RadioInvariant, PTL

LEMMA RestartStep ==
    ASSUME TypeOK, RadioInv, Next, restart, restart'
    PROVE  \/ UNCHANGED <<radio, link>> \/ StepsLeft' < StepsLeft
           \/ enabled' # enabled \/ count'.presses # count.presses
  <1>0. count \in Counts
    BY TypeParts
  <1>1. Press => count'.presses # count.presses
    BY <1>0 DEF Press, Counts
  <1>2. ASSUME NEW slot \in Slots, Select(slot) PROVE count'.presses # count.presses
    BY <1>1, <1>2 DEF Select
  <1>3. CASE Unpair
    BY <1>1, <1>3 DEF Unpair
  <1>4. CASE SwitchPreference
    BY <1>1, <1>4 DEF SwitchPreference
  <1>5. CASE TickPower
    <2>1. enabled' = ~mounted /\ enabled = mounted /\ mounted \in BOOLEAN
      BY <1>5, TypeParts DEF TickPower, PowerSet, StackTypes
    <2> QED BY <2>1
  <1>6. CASE UsbMount
    BY <1>6 DEF UsbMount, stack
  <1>7. CASE RadioDown
    BY <1>7 DEF RadioDown, StepsLeft
  <1>8. CASE Connected
    BY <1>8 DEF Connected, RadioInv, RestartUnderWay
  <1>9. CASE ReportEnabled
    BY <1>9 DEF ReportEnabled
  <1>10. CASE Disconnected
    BY <1>10 DEF Disconnected, PowerOff, StepsLeft
  <1>11. CASE Bonded
    BY <1>11 DEF Bonded, stack
  <1>12. CASE RadioUp \/ Losing
    BY <1>12 DEF RadioUp, Losing, PowerLoss, LossWhileBonding, LossWhileClearing, Boot
  <1> QED BY <1>2, <1>3, <1>4, <1>5, <1>6, <1>7, <1>8, <1>9, <1>10, <1>11, <1>12
          DEF Next, Losing

\* The stack brings a restart to its end in three steps at most, unless keys
\* or USB power come in between: what is safety in RestartSettles.
THEOREM RestartComesNearer == Spec => RestartAdvances
  <1>1. TypeOK /\ RadioInv /\ [Next]_vars =>
            [restart /\ restart' =>
                \/ UNCHANGED <<radio, link>> \/ StepsLeft' < StepsLeft
                \/ enabled' # enabled \/ count'.presses # count.presses]_vars
    BY RestartStep
  <1> QED BY <1>1, BleTypeCorrect, RadioInvariant, PTL DEF Spec, RestartAdvances

-----------------------------------------------------------------------------
(* The slots as they are promised.                                         *)

LEMMA SlotsKept ==
    ASSUME UNCHANGED <<selected, tlv, bonds, asked, forgotten>>
    PROVE  UNCHANGED Pairing!slotVars
  BY DEF Pairing!slotVars

\* Asking changes nothing but the request.
LEMMA AsideIsPromised ==
    ASSUME TypeOK, Aside PROVE [Pairing!Next]_Pairing!slotVars
  <1>1. UNCHANGED <<selected, bonds, tlv, forgotten>>
    BY AsideFacts
  <1>2. CASE asked' = asked
    BY <1>1, <1>2, SlotsKept
  <1>3. CASE asked' # asked
    <2>1. \E s \in Slots : asked' \in {<<"select", s>>, <<"clear", selected>>}
      <3>1. selected \in Slots
        BY TypeParts DEF SlotTypes
      <3> QED BY <1>3, <3>1 DEF Aside, Select, Unpair, Schedule, SwitchPreference, TickPower,
             UsbMount, RadioDown, Connected, ReportEnabled, RadioUp, Disconnected, history
    <2>2. Pairing!Ask
      BY <1>1, <2>1 DEF Pairing!Ask
    <2> QED BY <2>2 DEF Pairing!Next
  <1> QED BY <1>2, <1>3

\* Whoever is in an emptied slot is gone, with bond and keys.
LEMMA DeletedIsEmptied ==
    ASSUME TypeOK, asked = <<"clear", selected>>, bonds' = Deleted,
           forgotten' = forgotten \cup ({bonds[selected]} \ {NoBond})
    PROVE  Pairing!Emptied
  <1>1. bonds \in [Slots -> Bonds \cup {NoBond}] /\ selected \in Slots
    BY TypeParts DEF SlotTypes
  <1>2. HostsOf(NoBond) = {}
    BY DEF HostsOf, NoBond
  <1>3. [s \in Slots |-> HostsOf(bonds'[s])] =
            [[s \in Slots |-> HostsOf(bonds[s])] EXCEPT ![selected] = {}]
    BY <1>1, <1>2 DEF Deleted
  <1>4. UNION {HostsOf(b) : b \in forgotten'} =
            (UNION {HostsOf(b) : b \in forgotten})
                \cup [s \in Slots |-> HostsOf(bonds[s])][selected]
    <2> HIDE DEF HostsOf
    <2>1. [s \in Slots |-> HostsOf(bonds[s])][selected] = HostsOf(bonds[selected])
      BY <1>1
    <2>2. CASE bonds[selected] = NoBond
      BY <1>2, <2>1, <2>2
    <2>3. CASE bonds[selected] # NoBond
      <3>1. forgotten' = forgotten \cup {bonds[selected]}
        BY <2>3
      <3>2. {HostsOf(b) : b \in forgotten'} =
                {HostsOf(b) : b \in forgotten} \cup {HostsOf(bonds[selected])}
        BY <3>1
      <3> QED BY <2>1, <3>2
    <2> QED BY <2>2, <2>3
  <1> QED BY <1>3, <1>4 DEF Pairing!Emptied

\* What is pending is what was asked, and nothing else was.
AskedInv == action = "none" => asked = NoRequest

LEMMA AskedInvariant == Spec => []AskedInv
  <1>1. Init => AskedInv
    BY DEF Init, AskedInv
  <1>2. ASSUME AskedInv, [Next]_vars PROVE AskedInv'
    <2>1. CASE Aside
      <3>1. UNCHANGED <<action, asked>> \/ action' \in {"select", "clear"}
        BY <2>1 DEF Aside, Select, Unpair, Schedule, SwitchPreference, TickPower, UsbMount,
                    RadioDown, Connected, ReportEnabled, RadioUp, Disconnected, slotVars, history
      <3> QED BY <1>2, <3>1 DEF AskedInv
    <2>2. CASE Applying
      BY <2>2 DEF Applying, RadioUp, Disconnected, ApplyPending, AskedInv
    <2>3. CASE Bonded
      BY <1>2, <2>3 DEF Bonded, history, AskedInv
    <2>4. CASE Losing
      BY <2>4 DEF Losing, PowerLoss, LossWhileBonding, LossWhileClearing, Boot, AskedInv
    <2>5. CASE UNCHANGED vars
      BY <1>2, <2>5 DEF vars, slotVars, history, AskedInv
    <2> QED BY <1>2, <2>1, <2>2, <2>3, <2>4, <2>5, NextCases
  <1> QED BY <1>1, <1>2, PTL DEF Spec

\* What is applied is what was asked last.
LEMMA ApplyingIsPromised ==
    ASSUME TypeOK, ClearHitsTheSlotAsked, AskedInv, ApplyPending
    PROVE  [Pairing!Next]_Pairing!slotVars
  <1>1. tlv \in Stores /\ selected \in Slots /\ target \in Slots
    BY TypeParts DEF SlotTypes, StackTypes, Stores
  <1>2. asked' = NoRequest /\ NoRequest = Pairing!NoRequest
    BY DEF ApplyPending, NoRequest, Pairing!NoRequest
  <1>3. CASE action = "select"
    <2>1. SelectTarget /\ asked = <<"select", target>>
      BY <1>3 DEF ApplyPending, ClearHitsTheSlotAsked
    <2>2. tlv'.selected \in {tlv.selected, target}
      BY <1>1, <2>1 DEF SelectTarget, Stores
    <2>3. Pairing!GrantSelect
      BY <1>1, <1>2, <2>1, <2>2 DEF SelectTarget, Pairing!GrantSelect
    <2> QED BY <2>3 DEF Pairing!Next
  <1>4. CASE action = "clear"
    <2>1. ClearSelected /\ asked = <<"clear", selected>>
      BY <1>4 DEF ApplyPending, ClearHitsTheSlotAsked
    <2>2. Pairing!Emptied
      BY <2>1, DeletedIsEmptied DEF ClearSelected
    <2>3. tlv'.selected = tlv.selected /\ selected' = selected
      BY <1>1, <2>1 DEF ClearSelected, Stores
    <2>4. Pairing!GrantUnpair
      BY <1>2, <2>2, <2>3 DEF Pairing!GrantUnpair
    <2> QED BY <2>4 DEF Pairing!Next
  <1>5. CASE action = "none"
    <2>1. UNCHANGED <<selected, bonds, tlv, forgotten>>
      BY <1>5 DEF ApplyPending
    <2> QED BY <1>2, <1>5, <2>1, SlotsKept DEF AskedInv
  <1> QED BY <1>3, <1>4, <1>5, TypeParts DEF StackTypes

\* A host that pairs is new everywhere and enters the slot selected.
LEMMA NextHostJoins ==
    ASSUME TypeOK, HostsApart, link # NoLink, NextHost \in Hosts,
           NEW entry \in {Added(NextHost, link), Encrypted(Added(NextHost, link), NextHost)},
           bonds' = Written(entry, TRUE), forgotten' = forgotten
    PROVE  Pairing!Joined
  <1>1. bonds \in [Slots -> Bonds \cup {NoBond}] /\ selected \in Slots /\ count \in Counts
    BY TypeParts DEF SlotTypes
  <1>2. NextHost \notin Known
    BY <1>1 DEF Known, NextHost, Counts
  <1>3. entry.host = NextHost /\ NextHost # 0
    <2>1. bonds[selected] \in [at : Addresses \cup {<<>>}, host : Hosts \cup {0},
                               keys : Hosts \cup {0}]
      BY <1>1 DEF Bonds, NoBond
    <2>2. entry.host = NextHost
      BY <2>1 DEF Added, Encrypted
    <2>3. NextHost # 0
      BY DEF Hosts
    <2> QED BY <2>2, <2>3
  <1> DEFINE kept == HostsOf(entry) \ {NextHost}
  <1>4. kept \subseteq HostsOf(bonds[selected]) /\ HostsOf(entry) = kept \cup {NextHost}
    <2>1. HostsOf(entry) \subseteq HostsOf(bonds[selected]) \cup {NextHost}
      BY HostsOfEntries
    <2>2. NextHost \in HostsOf(entry)
      BY <1>3 DEF HostsOf
    <2> QED BY <2>1, <2>2
  <1> HIDE DEF HostsOf, kept
  <1>5. \A b \in forgotten : NextHost \notin HostsOf(b)
    BY <1>2 DEF HostsApart
  <1>6. \A s \in Slots : NextHost \notin HostsOf(bonds[s])
    BY <1>2 DEF HostsApart
  <1> DEFINE now == [s \in Slots |-> HostsOf(bonds[s])]
             lost == UNION {HostsOf(b) : b \in forgotten}
  <1>7. [s \in Slots |-> HostsOf(bonds'[s])] = [now EXCEPT ![selected] = kept \cup {NextHost}]
    <2>1. \A s \in Slots : HostsOf(bonds'[s]) = IF s = selected THEN kept \cup {NextHost}
                                                ELSE HostsOf(bonds[s])
      BY <1>1, <1>4 DEF Written
    <2> QED BY <2>1
  <1>8. NextHost \notin lost /\ (\A s \in Slots : NextHost \notin now[s]) /\ kept \in SUBSET now[selected]
    BY <1>1, <1>4, <1>5, <1>6
  <1>9. \E h \in Hosts, k \in SUBSET now[selected] :
            /\ h \notin lost /\ \A s \in Slots : h \notin now[s]
            /\ [s \in Slots |-> HostsOf(bonds'[s])] = [now EXCEPT ![selected] = k \cup {h}]
    <2> HIDE DEF now, lost
    <2> QED BY <1>7, <1>8
  <1>10. lost' = lost
    OBVIOUS
  <1> QED BY <1>9, <1>10 DEF Pairing!Joined

LEMMA BondedIsPromised ==
    ASSUME TypeOK, HostsApart, Bonded
    PROVE  [Pairing!Next]_Pairing!slotVars
  <1>1. /\ link # NoLink /\ NextHost \in Hosts /\ StoreBond(NextHost)
        /\ UNCHANGED <<selected, asked, forgotten>>
    BY NextHostIsHost DEF Bonded, Pairs, history
  <1>2. tlv'.selected = tlv.selected /\ tlv.bonds = bonds /\ tlv'.bonds = bonds'
    BY <1>1, TypeParts DEF SlotTypes, StoreBond
  <1>3. PICK added \in StoreOutcomes, set \in StoreOutcomes :
           bonds' = IF added /\ set
                    THEN Written(Encrypted(Added(NextHost, link), NextHost), TRUE)
                    ELSE Written(Added(NextHost, link), added)
    BY <1>1 DEF StoreBond
  <1>4. CASE added
    <2>1. PICK entry \in {Added(NextHost, link), Encrypted(Added(NextHost, link), NextHost)} :
             bonds' = Written(entry, TRUE)
      <3>1. added = TRUE
        BY <1>4, BleAssumption
      <3> QED BY <1>3, <3>1
    <2>2. Pairing!Joined
      BY <1>1, <2>1, NextHostJoins
    <2> QED BY <1>1, <1>2, <2>2 DEF Pairing!Next, Pairing!Pair
  <1>5. CASE ~added
    <2>1. bonds' = Written(Added(NextHost, link), added)
      BY <1>3, <1>5
    <2>2. bonds' = bonds
      BY <1>5, <2>1, TypeParts DEF Written, SlotTypes
    <2> QED BY <1>1, <1>2, <2>2 DEF Pairing!slotVars
  <1> QED BY <1>4, <1>5

LEMMA LosingIsPromised ==
    ASSUME TypeOK, HostsApart, ClearHitsTheSlotAsked, Losing
    PROVE  [Pairing!Next]_Pairing!slotVars
  <1>1. tlv \in Stores /\ tlv.bonds = bonds
    BY TypeParts DEF SlotTypes, Stores
  <1>2. ASSUME NEW kept, Boot(kept), kept.selected = tlv.selected,
               Pairing!Emptied \/ Pairing!Joined \/ UNCHANGED <<bonds, forgotten>>
        PROVE  Pairing!Next
    <2>1. /\ selected' = tlv.selected /\ tlv'.selected = tlv.selected
          /\ asked' = Pairing!NoRequest
      BY <1>2 DEF Boot, NoRequest, Pairing!NoRequest
    <2>2. Pairing!PowerLoss
      BY <1>2, <2>1 DEF Pairing!PowerLoss
    <2> QED BY <2>2 DEF Pairing!Next
  <1>3. CASE PowerLoss
    BY <1>1, <1>2, <1>3 DEF PowerLoss, Boot
  <1>4. CASE LossWhileBonding
    <2> DEFINE kept == [tlv EXCEPT !.bonds = Written(Added(NextHost, link), TRUE)]
    <2>1. Boot(kept) /\ link # NoLink /\ NextHost \in Hosts /\ forgotten' = forgotten
      BY <1>4, NextHostIsHost DEF LossWhileBonding, Pairs
    <2>2. kept.selected = tlv.selected /\ kept.bonds = Written(Added(NextHost, link), TRUE)
      BY <1>1 DEF Stores
    <2> HIDE DEF kept
    <2>3. bonds' = Written(Added(NextHost, link), TRUE)
      BY <2>1, <2>2 DEF Boot
    <2>4. Pairing!Joined
      BY <2>1, <2>3, NextHostJoins
    <2> QED BY <1>2, <2>1, <2>2, <2>4
  <1>5. CASE LossWhileClearing
    <2> DEFINE kept == [tlv EXCEPT !.bonds = Deleted]
    <2>1. /\ Boot(kept) /\ asked = <<"clear", selected>>
          /\ forgotten' = forgotten \cup ({bonds[selected]} \ {NoBond})
      BY <1>5 DEF LossWhileClearing, ClearHitsTheSlotAsked
    <2>2. kept.selected = tlv.selected /\ kept.bonds = Deleted
      BY <1>1 DEF Stores
    <2> HIDE DEF kept
    <2>3. bonds' = Deleted
      BY <2>1, <2>2 DEF Boot
    <2>4. Pairing!Emptied
      BY <2>1, <2>3, DeletedIsEmptied
    <2> QED BY <1>2, <2>1, <2>2, <2>4
  <1> QED BY <1>3, <1>4, <1>5 DEF Losing

LEMMA InitIsPromised ==
    ASSUME Init PROVE Pairing!Init
  <1>1. 0 \in Slots
    BY BleAssumption DEF Slots
  <1>2. HostsOf(NoBond) = {}
    BY DEF HostsOf, NoBond
  <1>3. [s \in Slots |-> HostsOf(bonds[s])] = [s \in Slots |-> {}]
    <2>1. \A s \in Slots : bonds[s] = NoBond
      BY DEF Init
    <2> QED BY <1>2, <2>1
  <1>4. tlv.selected = 0 /\ selected = 0 /\ asked = NoRequest /\ forgotten = {}
    BY DEF Init
  <1>5. UNION {HostsOf(b) : b \in forgotten} = {}
    BY <1>4
  <1> QED BY <1>1, <1>3, <1>4, <1>5 DEF Pairing!Init, NoRequest, Pairing!NoRequest

LEMMA StepIsPromised ==
    ASSUME TypeOK, HostsApart, ClearHitsTheSlotAsked, AskedInv, [Next]_vars
    PROVE  [Pairing!Next]_Pairing!slotVars
  <1>1. CASE Applying
    BY <1>1, ApplyingIsPromised DEF Applying, RadioUp, Disconnected
  <1>2. CASE UNCHANGED vars
    BY <1>2, SlotsKept DEF vars, slotVars, history
  <1> QED BY <1>1, <1>2, AsideIsPromised, BondedIsPromised, LosingIsPromised, NextCases

LEMMA HostsInvariant == Spec => []HostsApart
  <1>1. Init => HostsApart
    BY HostsInit
  <1>2. TypeOK /\ HostsApart /\ [Next]_vars => HostsApart'
    BY HostsStep
  <1> QED BY <1>1, <1>2, BleTypeCorrect, PTL DEF Spec

\* For any number of slots and hosts, stores that refuse as they like and
\* power lost anywhere: every step of radio, restarts, database and keys is a
\* step of PairingSlots or changes nothing there.
THEOREM SlotsAreAsPromised == Spec => ImplementsPairingSlots
  <1>1. Init => Pairing!Init
    BY InitIsPromised
  <1>2. TypeOK /\ HostsApart /\ ClearHitsTheSlotAsked /\ AskedInv /\ [Next]_vars
            => [Pairing!Next]_Pairing!slotVars
    BY StepIsPromised
  <1> QED BY <1>1, <1>2, BleTypeCorrect, HostsInvariant, ClearMeansTheSlotAsked,
             AskedInvariant, PTL DEF Spec, ImplementsPairingSlots, Pairing!Spec


\* With the key of a slot the keyboard reaches the host of that slot and
\* nobody else: no host is in two slots, by bond or by keys.
THEOREM HostsStayApart == Spec => []Pairing!OneSlotPerHost
  <1>1. ASSUME TypeOK, HostsApart PROVE Pairing!OneSlotPerHost
    <2> HIDE DEF HostsOf
    <2> DEFINE now == [s \in Slots |-> HostsOf(bonds[s])]
               lost == UNION {HostsOf(b) : b \in forgotten}
    <2>1. \A s \in Slots : now[s] = HostsOf(bonds[s])
      OBVIOUS
    <2>2. \A s \in Slots : now[s] \cap lost = {}
      BY <1>1, <2>1 DEF HostsApart
    <2>3. \A s \in Slots : \A t \in Slots : s # t => now[s] \cap now[t] = {}
      BY <1>1, <2>1 DEF HostsApart
    <2>4. \A s \in Slots : /\ now[s] \cap lost = {}
                           /\ \A t \in Slots : s # t => now[s] \cap now[t] = {}
      BY <2>2, <2>3
    <2> QED BY <2>4 DEF Pairing!OneSlotPerHost
  <1> QED BY <1>1, BleTypeCorrect, HostsInvariant, PTL
=============================================================================
