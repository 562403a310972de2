------------------------------ MODULE VialProofs ------------------------------
(* Proofs about Vial, for any matrix, layout, combo and times.             *)
EXTENDS Vial, NaturalSets

LEMMA Bounds ==
    /\ Hold \in Nat /\ MaxWrites \in Nat /\ Debounce \in Nat
    /\ TickTimes \subseteq Nat \ {0}
  BY VialAssumption, ScanAssumption

LEMMA LeastOfTwo ==
    ASSUME NEW a \in Int, NEW b \in Int
    PROVE  Min({a, b}) = IF a <= b THEN a ELSE b
  <1> DEFINE least == IF a <= b THEN a ELSE b
  <1>1. least \in {a, b} /\ \A y \in {a, b} : least <= y
    OBVIOUS
  <1>2. \A x \in {a, b} : (\A y \in {a, b} : x <= y) => x = least
    OBVIOUS
  <1>3. Min({a, b}) = CHOOSE x \in {a, b} : \A y \in {a, b} : x <= y
    BY DEF Min
  <1> QED BY <1>1, <1>2, <1>3

-----------------------------------------------------------------------------
(* Types, in parts.                                                        *)

LockTypes ==
    /\ unlocked \in BOOLEAN /\ unlocking \in BOOLEAN /\ comboHeld \in BOOLEAN
    /\ ~(unlocked /\ unlocking)
    /\ comboHeld => unlocking
    /\ heldFor \in 0 .. Hold

TimeTypes ==
    /\ ScanTypeOK
    /\ comboFor \in 0 .. Hold /\ pollGap \in 0 .. TooLong

\* A change that is pending has been counted already.
FlowTypes ==
    /\ phase \in {"scan", "usb"} /\ bootAsked \in BOOLEAN
    /\ pending \in Requests \cup {NoRequest}
    /\ writes \in 0 .. MaxWrites
    /\ pending # NoRequest /\ Changing(pending) => writes < MaxWrites

KeymapTypes ==
    /\ ramOnly \in BOOLEAN
    /\ DOMAIN keymap = Entry /\ \A n \in Entry : Valid(keymap[n])
    /\ acknowledged \in [Place -> {Unacknowledged} \cup VialCode]

TypeInv == LockTypes /\ TimeTypes /\ FlowTypes /\ KeymapTypes

LEMMA TypeParts == TypeInv => TypeOK
  <1> SUFFICES ASSUME TypeInv PROVE TypeOK
    OBVIOUS
  <1>1. {unlocked, unlocking, comboHeld, ramOnly, bootAsked} \subseteq BOOLEAN
    BY DEF TypeInv, LockTypes, FlowTypes, KeymapTypes
  <1> QED BY <1>1 DEF TypeInv, LockTypes, TimeTypes, FlowTypes, KeymapTypes, TypeOK

\* The parts of a request, whatever it is.
LEMMA ProcessCases ==
    ProcessVial => /\ phase = "usb" /\ phase' = "scan" /\ pending' = NoRequest
                   /\ UNCHANGED <<scanVars, comboFor>>
                   /\ \/ NoPending \/ ProcessStart \/ ProcessPoll \/ ProcessLock
                      \/ ProcessSet \/ ProcessReset \/ ProcessBoot
  BY DEF ProcessVial

LEMMA DefaultsValid ==
    /\ DOMAIN DefaultKeymap = Entry
    /\ \A n \in Entry : Valid(DefaultKeymap[n])
  BY VialAssumption DEF DefaultKeymap, Valid

LEMMA LockStep ==
    ASSUME LockTypes, TimeTypes, [Next]_vars PROVE LockTypes'
  <1> USE Bounds DEF LockTypes, lockVars
  <1>1. ASSUME NEW raw \in SUBSET Switch, NEW elapsed \in TickTimes, Tick(raw, elapsed)
        PROVE  LockTypes'
    BY <1>1, LeastOfTwo DEF Tick
  <1>2. ASSUME NEW request \in Requests, Receive(request) PROVE LockTypes'
    BY <1>2 DEF Receive
  <1>3. CASE Unmount
    BY <1>3 DEF Unmount
  <1>4. CASE ProcessVial
    <2>1. CASE NoPending
      BY <2>1 DEF NoPending
    <2>2. CASE ProcessStart
      BY <2>2 DEF ProcessStart, UnlockStart
    <2>3. CASE ProcessPoll
      <3>1. UnlockPoll
        BY <2>3 DEF ProcessPoll
      <3>2. CASE unlocked \/ ~unlocking \/ ~ComboPressed
        BY <3>1, <3>2 DEF UnlockPoll
      <3>3. CASE ~unlocked /\ unlocking /\ ComboPressed
        <4>1. CASE ~comboHeld
          BY <3>1, <3>3, <4>1 DEF UnlockPoll
        <4>2. CASE comboHeld /\ heldFor < Hold
          BY <3>1, <3>3, <4>2 DEF UnlockPoll
        <4>3. CASE comboHeld /\ ~(heldFor < Hold)
          BY <3>1, <3>3, <4>3 DEF UnlockPoll
        <4> QED BY <4>1, <4>2, <4>3
      <3> QED BY <3>2, <3>3
    <2>4. CASE ProcessLock
      BY <2>4 DEF ProcessLock, Lock
    <2>5. CASE ProcessSet \/ ProcessReset \/ ProcessBoot
      BY <2>5 DEF ProcessSet, ProcessReset, ProcessBoot
    <2> QED BY <1>4, <2>1, <2>2, <2>3, <2>4, <2>5, ProcessCases
  <1>5. CASE UNCHANGED vars
    BY <1>5 DEF vars
  <1> QED BY <1>1, <1>2, <1>3, <1>4, <1>5 DEF Next

\* A scan keeps the timer within the debounce time.
LEMMA ScanStep ==
    ASSUME ScanTypeOK, NEW raw \in SUBSET Switch, NEW elapsed \in Nat, Scan(raw, elapsed)
    PROVE  ScanTypeOK'
  BY ScanAssumption, LeastOfTwo DEF ScanTypeOK, Scan, Wait, Confirm

LEMMA TimeStep ==
    ASSUME LockTypes, TimeTypes, [Next]_vars PROVE TimeTypes'
  <1> USE Bounds DEF TimeTypes
  <1>s. UNCHANGED scanVars => (ScanTypeOK')
    BY DEF scanVars, ScanTypeOK
  <1>1. ASSUME NEW raw \in SUBSET Switch, NEW elapsed \in TickTimes, Tick(raw, elapsed)
        PROVE  TimeTypes'
    <2>1. ScanTypeOK'
      BY <1>1, ScanStep DEF Tick
    <2>2. comboFor' \in 0 .. Hold
      BY <1>1, LeastOfTwo DEF Tick
    <2>3. pollGap' \in 0 .. TooLong
      BY <1>1, LeastOfTwo DEF Tick, Pause, TooLong
    <2> QED BY <2>1, <2>2, <2>3
  <1>2. ASSUME NEW request \in Requests, Receive(request) PROVE TimeTypes'
    BY <1>2, <1>s DEF Receive
  <1>3. CASE Unmount
    BY <1>3, <1>s DEF Unmount
  <1>4. CASE ProcessVial
    <2>1. pollGap' \in {pollGap, 0, TooLong}
      BY <1>4, ProcessCases DEF NoPending, ProcessStart, ProcessPoll, ProcessLock,
         ProcessSet, ProcessReset, ProcessBoot, NotePoll
    <2> QED BY <1>4, <1>s, <2>1, ProcessCases DEF TooLong
  <1>5. CASE UNCHANGED vars
    BY <1>5, <1>s DEF vars
  <1> QED BY <1>1, <1>2, <1>3, <1>4, <1>5 DEF Next

-----------------------------------------------------------------------------
(* What a request changes in the keymap.                                   *)

LEMMA StoreTypes ==
    ASSUME KeymapTypes, NEW n, NEW internal, Valid(internal), NEW place,
           NEW v \in VialCode, Store(place, n, internal, v)
    PROVE  KeymapTypes' /\ (writes' = writes \/ writes' = writes + 1)
  <1>1. CASE keymap[n] = internal
    BY <1>1 DEF Store, KeymapTypes
  <1>2. CASE keymap[n] # internal
    <2>1. PICK persisted \in BOOLEAN :
              /\ Save(persisted)
              /\ keymap' = [keymap EXCEPT ![n] = internal]
              /\ acknowledged' =
                     [acknowledged EXCEPT ![place] = IF persisted THEN v ELSE Unacknowledged]
      BY <1>2 DEF Store
    <2>2. DOMAIN keymap' = Entry /\ \A m \in Entry : Valid(keymap'[m])
      BY <2>1 DEF KeymapTypes
    <2>3. acknowledged' \in [Place -> {Unacknowledged} \cup VialCode]
      BY <2>1 DEF KeymapTypes
    <2>4. ramOnly' \in BOOLEAN /\ writes' = writes + 1
      BY <2>1 DEF Save
    <2> QED BY <2>2, <2>3, <2>4 DEF KeymapTypes
  <1> QED BY <1>1, <1>2

LEMMA KeymapStep ==
    ASSUME FlowTypes, KeymapTypes, [Next]_vars PROVE KeymapTypes'
  <1>s. UNCHANGED settingsVars => (KeymapTypes')
    BY DEF settingsVars, KeymapTypes
  <1>1. ASSUME NEW raw \in SUBSET Switch, NEW elapsed \in TickTimes, Tick(raw, elapsed)
        PROVE  KeymapTypes'
    BY <1>1, <1>s DEF Tick
  <1>2. ASSUME NEW request \in Requests, Receive(request) PROVE KeymapTypes'
    BY <1>2, <1>s DEF Receive
  <1>3. CASE Unmount
    BY <1>3, <1>s DEF Unmount
  <1>4. CASE ProcessVial
    <2>1. CASE NoPending \/ ProcessStart \/ ProcessPoll \/ ProcessLock \/ ProcessBoot
      BY <2>1, <1>s DEF NoPending, ProcessStart, ProcessPoll, ProcessLock, ProcessBoot
    <2>2. CASE ProcessSet
      <3>1. pending[5] \in VialCode
        BY <2>2, VialAssumption DEF ProcessSet, FlowTypes
      <3>2. CASE Refused
        BY <3>2, <1>s DEF Refused
      <3>3. CASE ~Refused
        BY <2>2, <3>1, <3>3, StoreTypes DEF ProcessSet, SetKeycode
      <3> QED BY <3>2, <3>3
    <2>3. CASE ProcessReset
      <3>1. CASE Refused
        BY <3>1, <1>s DEF Refused
      <3>2. CASE ~Refused
        <4>1. PICK persisted \in BOOLEAN : Save(persisted)
          BY <2>3, <3>2 DEF ProcessReset, ResetKeymap
        <4>2. keymap' = DefaultKeymap /\ acknowledged' = [p \in Place |-> Unacknowledged]
          BY <2>3, <3>2 DEF ProcessReset, ResetKeymap
        <4> QED BY <4>1, <4>2, DefaultsValid DEF KeymapTypes, Save
      <3> QED BY <3>1, <3>2
    <2> QED BY <1>4, <2>1, <2>2, <2>3, ProcessCases
  <1>5. CASE UNCHANGED vars
    BY <1>5, <1>s DEF vars
  <1> QED BY <1>1, <1>2, <1>3, <1>4, <1>5 DEF Next

\* Only a request that changes the keymap counts, and at most once.
LEMMA WritesStep ==
    ASSUME FlowTypes, KeymapTypes, ProcessVial
    PROVE  \/ writes' = writes
           \/ pending # NoRequest /\ Changing(pending) /\ writes' = writes + 1
  <1>1. CASE NoPending \/ ProcessStart \/ ProcessPoll \/ ProcessLock \/ ProcessBoot
    BY <1>1 DEF NoPending, ProcessStart, ProcessPoll, ProcessLock, ProcessBoot, settingsVars
  <1>2. CASE ProcessSet
    <2>1. pending # NoRequest /\ Changing(pending)
      BY <1>2 DEF ProcessSet, Changing
    <2>2. pending[5] \in VialCode
      BY <1>2, VialAssumption DEF ProcessSet, FlowTypes
    <2> QED BY <1>2, <2>1, <2>2, StoreTypes DEF ProcessSet, SetKeycode, Refused, settingsVars
  <1>3. CASE ProcessReset
    <2>1. pending # NoRequest /\ Changing(pending)
      BY <1>3 DEF ProcessReset, Changing, NoRequest
    <2> QED BY <1>3, <2>1 DEF ProcessReset, ResetKeymap, Refused, Save, settingsVars
  <1> QED BY <1>1, <1>2, <1>3, ProcessCases

LEMMA FlowStep ==
    ASSUME FlowTypes, KeymapTypes, [Next]_vars PROVE FlowTypes'
  <1> USE VialAssumption DEF FlowTypes, settingsVars
  <1>1. ASSUME NEW raw \in SUBSET Switch, NEW elapsed \in TickTimes, Tick(raw, elapsed)
        PROVE  FlowTypes'
    BY <1>1 DEF Tick
  <1>2. ASSUME NEW request \in Requests, Receive(request) PROVE FlowTypes'
    BY <1>2 DEF Receive
  <1>3. CASE Unmount
    BY <1>3 DEF Unmount
  <1>4. CASE ProcessVial
    <2>1. writes' \in 0 .. MaxWrites
      BY <1>4, WritesStep
    <2>2. bootAsked' \in BOOLEAN
      BY <1>4, ProcessCases, Zenon DEF NoPending, ProcessStart, ProcessPoll, ProcessLock,
         ProcessSet, ProcessReset, ProcessBoot, BootloaderJump
    <2> QED BY <1>4, <2>1, <2>2, ProcessCases
  <1>5. CASE UNCHANGED vars
    BY <1>5 DEF vars
  <1> QED BY <1>1, <1>2, <1>3, <1>4, <1>5 DEF Next

LEMMA TypesInit == Init => TypeInv
  <1> SUFFICES ASSUME Init PROVE TypeInv
    OBVIOUS
  <1>1. LockTypes
    <2>1. heldFor \in 0 .. Hold
      BY Bounds DEF Init
    <2> QED BY <2>1, Zenon DEF Init, LockTypes
  <1>2. TimeTypes
    BY Bounds DEF Init, TimeTypes, ScanInit, ScanTypeOK, TooLong
  <1>3. FlowTypes
    <2>1. writes \in 0 .. MaxWrites
      BY Bounds DEF Init
    <2> QED BY <2>1, Zenon DEF Init, FlowTypes
  <1>4. KeymapTypes
    BY DefaultsValid DEF Init, KeymapTypes
  <1> QED BY <1>1, <1>2, <1>3, <1>4 DEF TypeInv

LEMMA TypesInvariant == Spec => []TypeInv
  <1>1. TypeInv /\ [Next]_vars => TypeInv'
    BY LockStep, TimeStep, FlowStep, KeymapStep DEF TypeInv
  <1> QED BY TypesInit, <1>1, PTL DEF Spec

\* Every code in the keymap is valid, whatever the host writes, and the lock
\* is in one of its four states (settings_set_keycode,
\* _vial_update_unlock_state).
THEOREM VialTypeCorrect == Spec => []TypeOK
  BY TypesInvariant, TypeParts, PTL

-----------------------------------------------------------------------------
(* The scan.                                                               *)

\* What keys are said to be is the matrix last read, once it has been quiet
\* for the debounce time.
QuietIsReported == quiet = Debounce => prev = last

\* A scan that reads what the one before did brings the report nearer, and
\* what is reported was read by this scan and, unless nothing is debounced,
\* by the one before.
ScanAdvances ==
    [][/\ quiet' < quiet => last' # last
       /\ (phase = "scan" /\ phase' = "usb" /\ last' = last) =>
              quiet' = Debounce \/ quiet' > quiet
       /\ prev' # prev => prev' = last' /\ (Debounce = 0 \/ last' = last)]_vars

\* What one scan does to the timer.
LEMMA TimerStep ==
    ASSUME ScanTypeOK, QuietIsReported, NEW raw \in SUBSET Switch,
           NEW elapsed \in TickTimes, Scan(raw, elapsed)
    PROVE  /\ QuietIsReported'
           /\ quiet' < quiet => last' # last
           /\ last' = last => quiet' = Debounce \/ quiet' > quiet
           /\ prev' # prev => prev' = last' /\ (Debounce = 0 \/ last' = last)
  <1> DEFINE time == IF raw # last THEN 0 ELSE Min({Debounce, quiet + elapsed})
  <1>1. /\ Debounce \in Nat /\ quiet \in 0 .. Debounce
        /\ elapsed \in Nat /\ elapsed > 0
    BY Bounds DEF ScanTypeOK
  <1>2. /\ time \in 0 .. Debounce
        /\ raw # last => time = 0
        /\ raw = last => time >= quiet /\ (time = Debounce \/ time > quiet)
    BY <1>1, LeastOfTwo
  <1>3. /\ last' = raw
        /\ \/ time < Debounce /\ quiet' = time /\ prev' = prev
           \/ ~(time < Debounce) /\ quiet' = Debounce /\ prev' = raw
    BY DEF Scan, Wait, Confirm
  <1> HIDE DEF time
  <1> QED BY <1>1, <1>2, <1>3 DEF QuietIsReported

\* A switch that chatters holds back the others, but every quiet scan counts,
\* nothing but a change starts the timer anew, and when it has run out the
\* matrix is reported as it is: matrix_scan_process.  The safety half of
\* SettledMatrixIsReported.
THEOREM QuietMatrixIsReported == Spec => []QuietIsReported /\ ScanAdvances
  <1>1. Init => QuietIsReported
    BY DEF Init, ScanInit, QuietIsReported
  <1> DEFINE Advance ==
        /\ quiet' < quiet => last' # last
        /\ (phase = "scan" /\ phase' = "usb" /\ last' = last) =>
               quiet' = Debounce \/ quiet' > quiet
        /\ prev' # prev => prev' = last' /\ (Debounce = 0 \/ last' = last)
  <1>2. ASSUME TypeInv, QuietIsReported, [Next]_vars
        PROVE  QuietIsReported' /\ [Advance]_vars
    <2>1. ASSUME NEW raw \in SUBSET Switch, NEW elapsed \in TickTimes, Tick(raw, elapsed)
          PROVE  QuietIsReported' /\ Advance
      BY <1>2, <2>1, TimerStep DEF TypeInv, TimeTypes, Tick
    <2>2. ASSUME UNCHANGED scanVars, phase' = phase \/ phase' = "scan"
          PROVE  QuietIsReported' /\ Advance
      <3>1. quiet \in Int /\ quiet' = quiet /\ last' = last /\ prev' = prev
        BY <1>2, <2>2, Bounds DEF TypeInv, TimeTypes, ScanTypeOK, scanVars
      <3> QED BY <1>2, <2>2, <3>1 DEF QuietIsReported
    <2>3. ASSUME NEW request \in Requests, Receive(request)
          PROVE  UNCHANGED scanVars /\ phase' = phase
      BY <2>3 DEF Receive
    <2>4. Unmount => UNCHANGED scanVars /\ phase' = phase
      BY DEF Unmount
    <2>5. ProcessVial => UNCHANGED scanVars /\ phase' = "scan"
      BY ProcessCases
    <2>6. UNCHANGED vars => UNCHANGED scanVars /\ phase' = phase
      BY DEF vars
    <2> HIDE DEF Advance
    <2> QED BY <1>2, <2>1, <2>2, <2>3, <2>4, <2>5, <2>6 DEF Next
  <1>3. QuietIsReported /\ TypeInv /\ [Next]_vars => [Advance]_vars
    BY <1>2
  <1>4. QuietIsReported /\ TypeInv /\ [Next]_vars => QuietIsReported'
    BY <1>2
  <1> QED BY <1>1, <1>3, <1>4, TypesInvariant, PTL DEF Spec, ScanAdvances

-----------------------------------------------------------------------------
(* The lock.                                                               *)

Seen == pollGap = TooLong
Pressed == ComboPressed /\ comboFor >= heldFor
Released ==
    /\ ~ComboPressed /\ pollGap >= 1
    /\ Combo \subseteq last => pollGap >= 2 + quiet

\* While the hold counts, either the polls are too far apart, or the combo has
\* been pressed as long as the hold, or a key has been up since the last poll
\* and too little time has passed for it to be reported down again.
HoldInv == comboHeld => Seen \/ Pressed \/ Released

LEMMA HoldTick ==
    ASSUME TypeInv, HoldInv, NEW raw \in SUBSET Switch, NEW elapsed \in TickTimes,
           Tick(raw, elapsed)
    PROVE  HoldInv'
  <1> SUFFICES ASSUME comboHeld PROVE (Seen \/ Pressed \/ Released)'
    BY DEF Tick, HoldInv
  <1> USE Bounds
  <1>t. /\ elapsed \in Nat \ {0} /\ quiet \in 0 .. Debounce /\ pollGap \in 0 .. TooLong
        /\ heldFor \in 0 .. Hold /\ comboFor \in 0 .. Hold
    BY DEF TypeInv, LockTypes, TimeTypes, ScanTypeOK
  <1>1. pollGap' = IF TooLong <= pollGap + elapsed THEN TooLong ELSE pollGap + elapsed
    BY <1>t, LeastOfTwo DEF Tick, Pause, TooLong
  <1>2. heldFor' = IF Hold <= heldFor + elapsed THEN Hold ELSE heldFor + elapsed
    BY <1>t, LeastOfTwo DEF Tick
  <1>3. ComboPressed /\ ComboPressed' =>
            comboFor' = IF Hold <= comboFor + elapsed THEN Hold ELSE comboFor + elapsed
    BY <1>t, LeastOfTwo DEF Tick
  <1>4. last' = raw /\ (prev' = raw \/ prev' = prev)
    BY DEF Tick, Scan, Wait, Confirm
  <1>5. /\ ComboPressed <=> Combo \subseteq prev
        /\ ComboPressed' <=> Combo \subseteq prev'
    BY DEF ComboPressed, IsPressed
  <1>6. CASE Seen
    BY <1>6, <1>t, <1>1 DEF Seen
  <1>7. CASE Pressed
    <2>1. CASE ComboPressed'
      BY <1>7, <2>1, <1>t, <1>2, <1>3 DEF Pressed
    <2>2. CASE ~ComboPressed'
      <3>1. pollGap' >= 1
        BY <1>t, <1>1 DEF TooLong
      <3>2. ~(Combo \subseteq last')
        BY <1>7, <2>2, <1>4, <1>5 DEF Pressed
      <3> QED BY <2>2, <3>1, <3>2 DEF Released
    <2> QED BY <2>1, <2>2
  <1>8. CASE Released /\ ~Seen
    <2>1. pollGap' >= 2 /\ pollGap' \in Nat
      BY <1>8, <1>t, <1>1 DEF Released, TooLong
    <2>2. CASE ~(Combo \subseteq raw)
      <3>1. ~ComboPressed' /\ ~(Combo \subseteq last')
        BY <2>2, <1>4, <1>5, <1>8 DEF Released
      <3>2. pollGap' >= 1
        BY <2>1
      <3> QED BY <3>1, <3>2 DEF Released
    <2>3. CASE Combo \subseteq raw /\ raw # last
      <3>1. CASE Debounce = 0
        BY <3>1, <2>1, <1>1, <1>t DEF Seen, TooLong
      <3>2. CASE Debounce > 0
        <4>1. quiet' = 0 /\ prev' = prev
          BY <2>3, <3>2 DEF Tick, Scan, Wait
        <4>2. ~ComboPressed'
          BY <4>1, <1>5, <1>8 DEF Released
        <4>3. pollGap' >= 1 /\ pollGap' >= 2 + quiet'
          BY <4>1, <2>1
        <4> QED BY <4>2, <4>3 DEF Released
      <3> QED BY <3>1, <3>2
    <2>4. CASE Combo \subseteq raw /\ raw = last
      <3> DEFINE time == IF Debounce <= quiet + elapsed THEN Debounce ELSE quiet + elapsed
      <3>1. pollGap >= 2 + quiet
        BY <2>4, <1>8 DEF Released
      <3>2. CASE quiet + elapsed >= Debounce
        BY <3>1, <3>2, <1>t, <1>1 DEF Seen, TooLong
      <3>3. CASE quiet + elapsed < Debounce
        <4>1. Min({Debounce, quiet + elapsed}) = quiet + elapsed
          BY <3>3, <1>t, LeastOfTwo
        <4>2. quiet' = quiet + elapsed /\ prev' = prev
          BY <2>4, <3>3, <4>1 DEF Tick, Scan, Wait
        <4> QED BY <4>2, <3>1, <3>3, <1>t, <1>1, <1>5, <1>8 DEF Released, TooLong
      <3> QED BY <3>2, <3>3, <1>t
    <2> QED BY <2>2, <2>3, <2>4
  <1> QED BY <1>6, <1>7, <1>8 DEF HoldInv

LEMMA HoldStep ==
    ASSUME TypeInv, HoldInv, [Next]_vars PROVE HoldInv'
  <1>s. UNCHANGED <<scanVars, comboFor, comboHeld, heldFor, pollGap>> => (HoldInv')
    BY DEF HoldInv, Seen, Pressed, Released, scanVars, ComboPressed, IsPressed
  <1>1. ASSUME NEW raw \in SUBSET Switch, NEW elapsed \in TickTimes, Tick(raw, elapsed)
        PROVE  HoldInv'
    BY <1>1, HoldTick
  <1>2. ASSUME NEW request \in Requests, Receive(request) PROVE HoldInv'
    BY <1>2, <1>s DEF Receive, lockVars
  <1>3. CASE Unmount
    BY <1>3, <1>s DEF Unmount, lockVars
  <1>4. CASE ProcessVial
    <2>s. UNCHANGED <<scanVars, comboFor>>
      BY <1>4, ProcessCases
    <2>1. CASE NoPending \/ ProcessSet \/ ProcessReset \/ ProcessBoot
      BY <2>1, <2>s, <1>s DEF NoPending, ProcessSet, ProcessReset, ProcessBoot, lockVars
    <2>2. CASE ProcessStart
      BY <2>2 DEF ProcessStart, UnlockStart, HoldInv, TypeInv, LockTypes
    <2>3. CASE ProcessPoll
      <3> SUFFICES ASSUME comboHeld' PROVE (Seen \/ Pressed)'
        BY DEF HoldInv
      <3>1. unlocking /\ ~unlocked /\ ComboPressed
        BY <2>3 DEF ProcessPoll, UnlockPoll, lockVars, TypeInv, LockTypes
      <3>2. ComboPressed'
        BY <3>1, <2>s DEF ComboPressed, IsPressed, scanVars
      <3>3. CASE ~comboHeld
        <4>1. heldFor' = 0 /\ comboFor' = comboFor
          BY <2>3, <2>s, <3>1, <3>3 DEF ProcessPoll, UnlockPoll
        <4> QED BY <4>1, <3>2 DEF Pressed, TypeInv, TimeTypes
      <3>4. CASE comboHeld
        <4>1. heldFor' = heldFor /\ comboFor' = comboFor
          BY <2>3, <2>s, <3>1, <3>4 DEF ProcessPoll, UnlockPoll, lockVars
        <4>2. pollGap = TooLong => pollGap' = TooLong
          BY <2>3, <3>4 DEF ProcessPoll, NotePoll
        <4> QED BY <4>1, <4>2, <3>1, <3>2, <3>4 DEF HoldInv, Seen, Pressed, Released, TooLong
      <3> QED BY <3>3, <3>4
    <2>4. CASE ProcessLock
      BY <2>4 DEF ProcessLock, Lock, HoldInv
    <2> QED BY <1>4, <2>1, <2>2, <2>3, <2>4, ProcessCases
  <1>5. CASE UNCHANGED vars
    BY <1>5, <1>s DEF vars, lockVars
  <1> QED BY <1>1, <1>2, <1>3, <1>4, <1>5 DEF Next

\* With polls close enough together, unlocking takes the whole combo pressed
\* for the hold time: for every combo, debounce and hold time
\* (_vial_update_unlock_state, matrix_scan_process).
THEOREM UnlockingIsHeld == Spec => UnlockTakesHolding
  <1>1. Init => HoldInv
    BY DEF Init, HoldInv
  <1>2. ASSUME TypeInv, HoldInv, [Next]_vars
        PROVE  (~unlocked /\ unlocked') => (pollGap = TooLong \/ comboFor >= Hold)
    <2> SUFFICES ASSUME ~unlocked, unlocked' PROVE pollGap = TooLong \/ comboFor >= Hold
      OBVIOUS
    <2>1. ProcessVial
      BY <1>2 DEF Next, Tick, Receive, Unmount, vars, lockVars
    <2>2. ProcessPoll
      BY <2>1, ProcessCases DEF NoPending, ProcessStart, UnlockStart, ProcessLock, Lock,
         ProcessSet, ProcessReset, ProcessBoot, lockVars
    <2>3. ComboPressed /\ comboHeld /\ ~(heldFor < Hold)
      BY <2>2 DEF ProcessPoll, UnlockPoll, lockVars
    <2>4. heldFor \in 0 .. Hold /\ comboFor \in 0 .. Hold /\ Hold \in Nat
      BY <1>2, Bounds DEF TypeInv, LockTypes, TimeTypes
    <2> QED BY <1>2, <2>3, <2>4 DEF HoldInv, Seen, Pressed, Released
  <1>3. TypeInv /\ HoldInv /\ [Next]_vars => HoldInv'
    BY HoldStep
  <1>4. TypeInv /\ HoldInv /\ [Next]_vars =>
            [(~unlocked /\ unlocked') => (pollGap = TooLong \/ comboFor >= Hold)]_vars
    BY <1>2
  <1> QED BY <1>1, <1>3, <1>4, TypesInvariant, PTL DEF Spec, UnlockTakesHolding

-----------------------------------------------------------------------------
(* The conversion of codes (code_convert.c).                               *)

\* The rows of the table that translate a code, column by column.
ConsumerRow(a, b, c, v) ==
    /\ a = \h12 /\ b = 0
    /\ \/ c = \hB2 /\ v = 0
       \/ c = \hB3 /\ v = \hBB
       \/ c = \hB4 /\ v = \hBC
       \/ c = \hB5 /\ v = \hAB
       \/ c = \hB6 /\ v = \hAC
       \/ c = \hB7 /\ v = \hAD
       \/ c = \hB8 /\ v = \hB0
       \/ c = \hB9 /\ v = 0
       \/ c = \hCC /\ v = 0
       \/ c = \hCD /\ v = \hAE
       \/ c = \hE2 /\ v = \hA8
       \/ c = \hE9 /\ v = \hA9
       \/ c = \hEA /\ v = \hAA
PointingRow(a, b, c, v) ==
    /\ a = \h13
    /\ \/ b = 1 /\ c = 1 /\ v = \hD1
       \/ b = 1 /\ c = 2 /\ v = \hD2
       \/ b = 1 /\ c = 4 /\ v = \hD3
       \/ b = 3 /\ c = \hFFFF /\ v = \hCD
       \/ b = 3 /\ c = 1 /\ v = \hCE
       \/ b = 2 /\ c = \hFFFF /\ v = \hCF
       \/ b = 2 /\ c = 1 /\ v = \hD0
       \/ b = 4 /\ c = 1 /\ v = \hD9
       \/ b = 4 /\ c = \hFFFF /\ v = \hDA
SystemRow(a, b, c, v) ==
    /\ a = \h14
    /\ \/ b = 1 /\ c = 0 /\ v = \h7C00
       \/ b = 2 /\ c = 1 /\ v = \h7781
       \/ b = 2 /\ c = 2 /\ v = \h7780
       \/ b = 2 /\ c = 3 /\ v = \h7786
       \/ b = 3 /\ c = 0 /\ v = \h7792
       \/ b = 3 /\ c = 1 /\ v = \h7793
       \/ b = 3 /\ c = 2 /\ v = \h7794
       \/ b = 3 /\ c = 3 /\ v = \h7795
       \/ b = 3 /\ c = 4 /\ v = \h7796
Row(a, b, c, v) == ConsumerRow(a, b, c, v) \/ PointingRow(a, b, c, v) \/ SystemRow(a, b, c, v)

\* The table and its rows are the same.
LEMMA ConsumerRows ==
    ASSUME NEW c, NEW v, <<c, v>> \in Consumer
    PROVE  ConsumerRow(\h12, 0, c, v)
  BY DEF Consumer, ConsumerRow

LEMMA PointingRows ==
    ASSUME NEW b, NEW c, NEW v, <<b, c, v>> \in Pointing
    PROVE  PointingRow(\h13, b, c, v)
  BY DEF Pointing, PointingRow

LEMMA SystemRows ==
    ASSUME NEW b, NEW c, NEW v, <<b, c, v>> \in System
    PROVE  SystemRow(\h14, b, c, v)
  BY DEF System, SystemRow, VialBoot

LEMMA RowsOfTable ==
    ASSUME NEW r \in Table, r[1] # NoOp
    PROVE  \E a, b, c, v \in Nat : r = <<(<<a, b, c>>), v>> /\ Row(a, b, c, v)
  <1>0. Consumer \subseteq Nat \X Nat
    BY DEF Consumer
  <1>1. Pointing \subseteq Nat \X Nat \X Nat /\ System \subseteq Nat \X Nat \X Nat
    BY DEF Pointing, System, VialBoot
  <1>2. CASE \E c \in Consumer : r = <<(<<\h12, 0, c[1]>>), c[2]>>
    <2>1. PICK c \in Consumer : r = <<(<<\h12, 0, c[1]>>), c[2]>>
      BY <1>2
    <2>2. c = <<c[1], c[2]>> /\ c[1] \in Nat /\ c[2] \in Nat
      BY <1>0
    <2>3. ConsumerRow(\h12, 0, c[1], c[2])
      BY <2>2, ConsumerRows
    <2> QED BY <2>1, <2>2, <2>3 DEF Row
  <1>3. CASE \E p \in Pointing : r = <<(<<\h13, p[1], p[2]>>), p[3]>>
    <2>1. PICK p \in Pointing : r = <<(<<\h13, p[1], p[2]>>), p[3]>>
      BY <1>3
    <2>2. p = <<p[1], p[2], p[3]>> /\ p[1] \in Nat /\ p[2] \in Nat /\ p[3] \in Nat
      BY <1>1
    <2>3. PointingRow(\h13, p[1], p[2], p[3])
      BY <2>2, PointingRows
    <2> QED BY <2>1, <2>2, <2>3 DEF Row
  <1>4. CASE \E s \in System : r = <<(<<\h14, s[1], s[2]>>), s[3]>>
    <2>1. PICK s \in System : r = <<(<<\h14, s[1], s[2]>>), s[3]>>
      BY <1>4
    <2>2. s = <<s[1], s[2], s[3]>> /\ s[1] \in Nat /\ s[2] \in Nat /\ s[3] \in Nat
      BY <1>1
    <2>3. SystemRow(\h14, s[1], s[2], s[3])
      BY <2>2, SystemRows
    <2> QED BY <2>1, <2>2, <2>3 DEF Row
  <1> QED BY <1>2, <1>3, <1>4 DEF Table

LEMMA TableOfRows ==
    ASSUME NEW a, NEW b, NEW c, NEW v, Row(a, b, c, v)
    PROVE  <<(<<a, b, c>>), v>> \in Table
  <1>1. CASE ConsumerRow(a, b, c, v)
    <2>1. a = \h12 /\ b = 0 /\ <<c, v>> \in Consumer
      BY <1>1 DEF ConsumerRow, Consumer
    <2> QED BY <2>1 DEF Table
  <1>2. CASE PointingRow(a, b, c, v)
    <2>1. a = \h13 /\ <<b, c, v>> \in Pointing
      BY <1>2 DEF PointingRow, Pointing
    <2> QED BY <2>1 DEF Table
  <1>3. CASE SystemRow(a, b, c, v)
    <2>1. a = \h14 /\ <<b, c, v>> \in System
      BY <1>3 DEF SystemRow, System, VialBoot
    <2> QED BY <2>1 DEF Table
  <1> QED BY <1>1, <1>2, <1>3 DEF Row

-----------------------------------------------------------------------------
(* What a row is.                                                          *)

\* A translation exists once in each direction, is of a valid code, and is
\* of no other kind.
MappedCode(v) == v \in \hA5 .. \hDF \/ v \in \h7700 .. \h77FF \/ v = VialBoot

LEMMA RowIsValid ==
    ASSUME NEW a \in Nat, NEW b \in Nat, NEW c \in Nat, NEW v \in Nat, Row(a, b, c, v)
    PROVE  a \in {\h12, \h13, \h14} /\ Valid(<<a, b, c>>) /\ (v = 0 \/ MappedCode(v))
  <1>1. CASE ConsumerRow(a, b, c, v)
    BY <1>1 DEF ConsumerRow, Valid, ConsumerUsage, MappedCode
  <1>2. CASE PointingRow(a, b, c, v)
    BY <1>2 DEF PointingRow, Valid, MappedCode
  <1>3. CASE SystemRow(a, b, c, v)
    BY <1>3 DEF SystemRow, Valid, MappedCode, VialBoot
  <1> QED BY <1>1, <1>2, <1>3 DEF Row

LEMMA RowOfCode ==
    ASSUME NEW a \in Nat, NEW b \in Nat, NEW c \in Nat, NEW v \in Nat, NEW w \in Nat,
           Row(a, b, c, v), Row(a, b, c, w)
    PROVE  v = w
  <1>1. CASE ConsumerRow(a, b, c, v)
    BY <1>1 DEF Row, ConsumerRow, PointingRow, SystemRow
  <1>2. CASE PointingRow(a, b, c, v)
    BY <1>2 DEF Row, ConsumerRow, PointingRow, SystemRow
  <1>3. CASE SystemRow(a, b, c, v)
    BY <1>3 DEF Row, ConsumerRow, PointingRow, SystemRow
  <1> QED BY <1>1, <1>2, <1>3 DEF Row

LEMMA CodeOfRow ==
    ASSUME NEW a \in Nat, NEW b \in Nat, NEW c \in Nat, NEW v \in Nat,
           NEW d \in Nat, NEW e \in Nat, NEW f \in Nat,
           v # 0, Row(a, b, c, v), Row(d, e, f, v)
    PROVE  a = d /\ b = e /\ c = f
  <1>1. CASE ConsumerRow(a, b, c, v)
    BY <1>1 DEF Row, ConsumerRow, PointingRow, SystemRow
  <1>2. CASE PointingRow(a, b, c, v)
    BY <1>2 DEF Row, ConsumerRow, PointingRow, SystemRow
  <1>3. CASE SystemRow(a, b, c, v)
    BY <1>3 DEF Row, ConsumerRow, PointingRow, SystemRow
  <1> QED BY <1>1, <1>2, <1>3 DEF Row

-----------------------------------------------------------------------------
(* The table, in both directions.                                          *)

LEMMA MappedToInternalRows ==
    ASSUME NEW v \in Nat, NEW i
    PROVE  i \in MappedToInternal(v) <=>
               v # 0 /\ \E a, b, c \in Nat : i = <<a, b, c>> /\ Row(a, b, c, v)
  <1>1. ASSUME i \in MappedToInternal(v)
        PROVE  v # 0 /\ \E a, b, c \in Nat : i = <<a, b, c>> /\ Row(a, b, c, v)
    <2>1. PICK r \in Table : i = r[1] /\ r[2] = v /\ v # 0 /\ r[1] # NoOp
      BY <1>1 DEF MappedToInternal
    <2>2. PICK a \in Nat, b \in Nat, c \in Nat, w \in Nat :
              r = <<(<<a, b, c>>), w>> /\ Row(a, b, c, w)
      BY <2>1, RowsOfTable
    <2>3. i = <<a, b, c>> /\ w = v
      BY <2>1, <2>2
    <2> QED BY <2>1, <2>2, <2>3
  <1>2. ASSUME v # 0, NEW a \in Nat, NEW b \in Nat, NEW c \in Nat,
               i = <<a, b, c>>, Row(a, b, c, v)
        PROVE  i \in MappedToInternal(v)
    <2>1. <<(<<a, b, c>>), v>> \in Table
      BY <1>2, TableOfRows
    <2>2. <<a, b, c>> # NoOp
      BY <1>2, RowIsValid DEF NoOp
    <2> QED BY <1>2, <2>1, <2>2 DEF MappedToInternal
  <1> QED BY <1>1, <1>2

LEMMA MappedToVialRows ==
    ASSUME NEW a \in Nat, NEW b \in Nat, NEW c \in Nat, NEW v
    PROVE  v \in MappedToVial(<<a, b, c>>) <=> v \in Nat /\ Row(a, b, c, v)
  <1> DEFINE i == <<a, b, c>>
  <1>1. ASSUME v \in MappedToVial(i) PROVE v \in Nat /\ Row(a, b, c, v)
    <2>1. PICK r \in Table : r[1] = i /\ i # NoOp /\ v = r[2]
      BY <1>1 DEF MappedToVial
    <2>2. PICK d \in Nat, e \in Nat, f \in Nat, w \in Nat :
              r = <<(<<d, e, f>>), w>> /\ Row(d, e, f, w)
      BY <2>1, RowsOfTable
    <2>3. a = d /\ b = e /\ c = f /\ v = w
      BY <2>1, <2>2
    <2> QED BY <2>2, <2>3
  <1>2. ASSUME v \in Nat, Row(a, b, c, v) PROVE v \in MappedToVial(i)
    <2>1. <<i, v>> \in Table
      BY <1>2, TableOfRows
    <2>2. a \in {\h12, \h13, \h14}
      <3>1. v \in Nat /\ Row(a, b, c, v)
        BY <1>2
      <3> HIDE DEF i
      <3> QED BY <3>1, RowIsValid
    <2>3. i # NoOp
      BY <2>2 DEF NoOp
    <2> QED BY <2>1, <2>3 DEF MappedToVial
  <1> QED BY <1>1, <1>2

-----------------------------------------------------------------------------
(* Modifier keys.                                                          *)

LEMMA Bits ==
    /\ 2 ^ 0 = 1 /\ 2 ^ 1 = 2 /\ 2 ^ 2 = 4 /\ 2 ^ 3 = 8
    /\ 2 ^ 4 = 16 /\ 2 ^ 5 = 32 /\ 2 ^ 6 = 64 /\ 2 ^ 7 = 128
  OBVIOUS

LEMMA BitOfModifier ==
    ASSUME NEW n \in 0 .. 7
    PROVE  /\ 2 ^ n \in ModifierBit
           /\ \A m \in 0 .. 7 : 2 ^ m = 2 ^ n => m = n
  <1> DEFINE bit(m) == 2 ^ m
  <1>1. /\ bit(0) = 1 /\ bit(1) = 2 /\ bit(2) = 4 /\ bit(3) = 8
        /\ bit(4) = 16 /\ bit(5) = 32 /\ bit(6) = 64 /\ bit(7) = 128
    BY Bits
  <1>2. bit(n) \in ModifierBit /\ \A m \in 0 .. 7 : bit(m) = bit(n) => m = n
    <2> HIDE DEF bit
    <2>1. n = 0 \/ n = 1 \/ n = 2 \/ n = 3 \/ n = 4 \/ n = 5 \/ n = 6 \/ n = 7
      OBVIOUS
    <2>2. \A m \in 0 .. 7 : m = 0 \/ m = 1 \/ m = 2 \/ m = 3 \/ m = 4 \/ m = 5 \/ m = 6 \/ m = 7
      OBVIOUS
    <2> QED BY <1>1, <2>1, <2>2 DEF ModifierBit
  <1> QED BY <1>2

LEMMA ModifierHasBit ==
    ASSUME NEW b \in ModifierBit
    PROVE  \E n \in 0 .. 7 : b = 2 ^ n
  <1>1. b \in {1, 2, 4, 8, 16, 32, 64, 128}
    BY DEF ModifierBit
  <1> QED BY <1>1, Bits

-----------------------------------------------------------------------------
(* What the parts do to a code of one kind.                                *)

LEMMA InVialCode ==
    ASSUME NEW v \in Int, 0 < v, v <= \hFFFF
    PROVE  v \in VialCode /\ v # 0
  <1>1. LastVialCode = \hFFFF
    BY DEF LastVialCode
  <1>2. v <= LastVialCode /\ LastVialCode \in Int
    BY <1>1
  <1> QED BY <1>2 DEF VialCode

LEMMA HighAndLow ==
    ASSUME NEW v \in VialCode
    PROVE  /\ (v \div 256) \in 0 .. 255 /\ (v % 256) \in 0 .. 255
           /\ v = (v \div 256) * 256 + (v % 256)
  <1>1. (v % 256) \in 0 .. 255 /\ v = (v \div 256) * 256 + (v % 256) /\ (v \div 256) \in Int
    BY DEF VialCode
  <1>2. 0 <= v /\ v <= 65535
    BY DEF VialCode, LastVialCode
  <1>3. 0 <= (v \div 256) /\ (v \div 256) <= 255
    BY <1>1, <1>2
  <1> QED BY <1>1, <1>3

\* The value 256 * m + b has m above and b below.
LEMMA Composed ==
    ASSUME NEW m \in 0 .. 255, NEW b \in 0 .. 255
    PROVE  ((m * 256 + b) \div 256) = m /\ ((m * 256 + b) % 256) = b
  OBVIOUS

\* The codes of the three kinds are apart.
LEMMA MappedApart ==
    ASSUME NEW v \in VialCode, MappedCode(v)
    PROVE  UserToInternal(v) = {} /\ StandardToInternal(v) = {}
  <1>1. UserToInternal(v) = {}
    BY DEF MappedCode, UserToInternal, VialUser, VialBoot, UserCount, VialCode
  <1>2. StandardToInternal(v) = {}
    <2>1. CASE v \in \hA5 .. \hDF
      <3>1. (v \div 256) = 0 /\ (v % 256) = v
        BY <2>1
      <3> QED BY <2>1, <3>1 DEF StandardToInternal
    <2>2. CASE v \in \h7700 .. \h77FF \/ v = VialBoot
      <3>1. (v \div 256) > 31
        <4>1. v >= \h7700 /\ v \in Int
          BY <2>2 DEF VialBoot
        <4> QED BY <4>1
      <3> QED BY <3>1 DEF StandardToInternal
    <2> QED BY <2>1, <2>2 DEF MappedCode
  <1> QED BY <1>1, <1>2

LEMMA UserApart ==
    ASSUME NEW v \in VialCode, UserToInternal(v) # {}
    PROVE  MappedToInternal(v) = {} /\ StandardToInternal(v) = {}
  <1>1. v >= \h7E40 /\ v <= \h7E5F
    BY DEF UserToInternal, VialUser, UserCount, VialCode
  <1>2. MappedToInternal(v) = {}
    <2>1. v \in Nat
      BY DEF VialCode
    <2>2. ~MappedCode(v) /\ v # 0
      BY <1>1, <2>1 DEF MappedCode, VialBoot
    <2> QED BY <2>1, <2>2, MappedToInternalRows, RowIsValid
  <1>3. (v \div 256) > 31
    BY <1>1 DEF VialCode
  <1> QED BY <1>2, <1>3 DEF StandardToInternal

LEMMA StandardApart ==
    ASSUME NEW v \in VialCode, v # 0, StandardToInternal(v) # {}
    PROVE  MappedToInternal(v) = {} /\ UserToInternal(v) = {}
  <1> DEFINE m == v \div 256
             b == v % 256
  <1>1. m \in 0 .. 255 /\ b \in 0 .. 255 /\ v = m * 256 + b
    BY HighAndLow
  <1>2. m <= 31
    BY <1>1 DEF StandardToInternal
  <1>3. (b \in \hE0 .. \hE7 /\ m = 0) \/ b \in \h04 .. \hA4
    BY <1>1 DEF StandardToInternal
  <1> HIDE DEF m, b
  <1>4. UserToInternal(v) = {}
    BY <1>1, <1>2 DEF UserToInternal, VialUser, UserCount
  <1>5. v \in Nat /\ ~MappedCode(v)
    BY <1>1, <1>2, <1>3 DEF MappedCode, VialBoot
  <1>6. MappedToInternal(v) = {}
    BY <1>5, MappedToInternalRows, RowIsValid
  <1> QED BY <1>4, <1>6

\* A code of the table is translated by the table alone.
LEMMA ToVialOfRow ==
    ASSUME NEW a \in Nat, NEW b \in Nat, NEW c \in Nat, NEW v \in Nat, Row(a, b, c, v)
    PROVE  ToVial(<<a, b, c>>) = {v}
  <1> DEFINE i == <<a, b, c>>
  <1>1. a \in {\h12, \h13, \h14}
    BY RowIsValid
  <1>2. i # NoOp
    BY <1>1 DEF NoOp
  <1>3. MappedToVial(i) = {v}
    BY MappedToVialRows, RowOfCode
  <1>4. UserToVial(i) = {}
    BY <1>1 DEF UserToVial
  <1>5. ModifierToVial(i) = {}
    BY <1>1 DEF ModifierToVial
  <1>6. StandardToVial(i) = {}
    BY <1>1 DEF StandardToVial
  <1> QED BY <1>2, <1>3, <1>4, <1>5, <1>6 DEF ToVial

LEMMA ToInternalOfRow ==
    ASSUME NEW a \in Nat, NEW b \in Nat, NEW c \in Nat, NEW v \in Nat, v # 0, Row(a, b, c, v)
    PROVE  v \in VialCode /\ ToInternal(v) = {<<a, b, c>>}
  <1>1. MappedCode(v)
    BY RowIsValid
  <1>2. v \in VialCode
    <2>1. v \in Int /\ 0 < v /\ v <= \hFFFF
      BY <1>1 DEF MappedCode, VialBoot
    <2> QED BY <2>1, InVialCode
  <1>3. <<a, b, c>> \in MappedToInternal(v)
    BY MappedToInternalRows
  <1>4. ASSUME NEW i \in MappedToInternal(v) PROVE i = <<a, b, c>>
    <2>1. PICK d \in Nat, e \in Nat, f \in Nat : i = <<d, e, f>> /\ Row(d, e, f, v)
      BY MappedToInternalRows
    <2> QED BY <2>1, CodeOfRow
  <1> QED BY <1>1, <1>2, <1>3, <1>4, MappedApart DEF ToInternal

\* A code outside the table has no row.
LEMMA NotMapped ==
    ASSUME NEW a \in Nat, NEW b \in Nat, NEW c \in Nat, a \notin {\h12, \h13, \h14}
    PROVE  MappedToVial(<<a, b, c>>) = {}
  BY MappedToVialRows, RowIsValid

LEMMA ToVialOfUser ==
    ASSUME NEW a \in \h80 .. \hBF, NEW b \in Nat, NEW c \in Nat
    PROVE  ToVial(<<a, b, c>>) =
               {IF a = \h80 /\ b = 0 /\ c < UserCount THEN VialUser + c ELSE 0}
  <1> DEFINE i == <<a, b, c>>
  <1>1. i # NoOp /\ a \in Nat
    BY DEF NoOp
  <1>2. MappedToVial(i) = {}
    BY <1>1, NotMapped
  <1>3. UserToVial(i) = {IF a = \h80 /\ b = 0 /\ c < UserCount THEN VialUser + c ELSE 0}
    BY DEF UserToVial
  <1>4. ModifierToVial(i) = {}
    BY DEF ModifierToVial
  <1>5. StandardToVial(i) = {}
    BY DEF StandardToVial
  <1> QED BY <1>1, <1>2, <1>3, <1>4, <1>5 DEF ToVial

LEMMA ToInternalOfUser ==
    ASSUME NEW c \in 0 .. UserCount - 1
    PROVE  VialUser + c \in VialCode /\ ToInternal(VialUser + c) = {<<\h80, 0, c>>}
  <1> DEFINE v == VialUser + c
  <1>0. c \in Int /\ 0 <= c /\ c <= 31
    BY DEF UserCount
  <1>1. v \in VialCode /\ v # 0
    <2>1. v \in Int /\ 0 < v /\ v <= \hFFFF
      BY <1>0 DEF VialUser
    <2> QED BY <2>1, InVialCode
  <1>2. UserToInternal(v) = {<<\h80, 0, c>>}
    <2>1. v - VialUser = c
      BY <1>0 DEF VialUser
    <2> HIDE DEF v
    <2> QED BY <2>1 DEF UserToInternal
  <1> QED BY <1>1, <1>2, UserApart DEF ToInternal

LEMMA ToVialOfModifier ==
    ASSUME NEW n \in 0 .. 7
    PROVE  ToVial(<<\h11, 2 ^ n, 0>>) = {\hE0 + n}
  <1> DEFINE i == <<\h11, 2 ^ n, 0>>
  <1>1. i # NoOp /\ 2 ^ n \in Nat
    <2>1. 2 ^ n \in ModifierBit
      BY BitOfModifier
    <2>2. ModifierBit \subseteq Nat
      BY DEF ModifierBit
    <2>3. i # NoOp
      BY DEF NoOp
    <2> QED BY <2>1, <2>2, <2>3
  <1>2. MappedToVial(i) = {}
    BY <1>1, NotMapped
  <1>3. UserToVial(i) = {}
    BY DEF UserToVial
  <1>4. ModifierToVial(i) = {\hE0 + n}
    <2>1. {m \in 0 .. 7 : i[1] = \h11 /\ i[3] = 0 /\ i[2] = 2 ^ m} = {n}
      BY BitOfModifier
    <2> QED BY <2>1 DEF ModifierToVial
  <1>5. StandardToVial(i) = {}
    BY DEF StandardToVial
  <1> QED BY <1>1, <1>2, <1>3, <1>4, <1>5 DEF ToVial

LEMMA ToInternalOfModifier ==
    ASSUME NEW n \in 0 .. 7
    PROVE  \hE0 + n \in VialCode /\ ToInternal(\hE0 + n) = {<<\h11, 2 ^ n, 0>>}
  <1> DEFINE v == \hE0 + n
  <1>1. v \in VialCode /\ v # 0
    <2>1. v \in Int /\ 0 < v /\ v <= \hFFFF
      OBVIOUS
    <2> QED BY <2>1, InVialCode
  <1>2. (v \div 256) = 0 /\ (v % 256) = v
    OBVIOUS
  <1>3. v \in \hE0 .. \hE7 /\ v - \hE0 = n
    OBVIOUS
  <1>4. StandardToInternal(v) = {<<\h11, 2 ^ n, 0>>}
    <2>1. 2 ^ (v - \hE0) = 2 ^ n
      BY <1>3
    <2> HIDE DEF v
    <2>2. StandardToInternal(v) =
              {<<\h11, 2 ^ ((v % 256) - \hE0), 0>> : m \in {v \div 256} \cap {0}}
      BY <1>2, <1>3 DEF StandardToInternal
    <2>3. (v % 256) - \hE0 = v - \hE0
      BY <1>2
    <2>4. {v \div 256} \cap {0} = {0}
      BY <1>2
    <2> QED BY <2>1, <2>2, <2>3, <2>4
  <1> QED BY <1>1, <1>4, StandardApart DEF ToInternal

-----------------------------------------------------------------------------
(* Keys with modifiers: Vial has four bits and a flag for the right hand.  *)

HandsToVial(m) == IF Right(m) # 0 THEN 16 + Right(m) ELSE m
HandsToInternal(m) == IF m > 16 THEN Left(m) * 16 ELSE m
OneHand(m) == Left(m) = 0 \/ Right(m) = 0

LEMMA HandsAndBack ==
    ASSUME NEW m \in 0 .. 255, OneHand(m)
    PROVE  /\ HandsToVial(m) \in 0 .. 31 /\ HandsToVial(m) # 16
           /\ HandsToInternal(HandsToVial(m)) = m
  <1>1. (m % 16) \in 0 .. 15 /\ (m \div 16) \in Int /\ m = (m \div 16) * 16 + (m % 16)
    OBVIOUS
  <1>2. (m \div 16) >= 0 /\ (m \div 16) <= 15
    BY <1>1
  <1>3. CASE (m \div 16) = 0
    BY <1>1, <1>3 DEF HandsToVial, HandsToInternal, Right, Left
  <1>4. CASE (m \div 16) # 0
    <2>1. (m % 16) = 0 /\ m = (m \div 16) * 16
      BY <1>1, <1>4 DEF OneHand, Left, Right
    <2>2. HandsToVial(m) = 16 + (m \div 16)
      BY <1>4 DEF HandsToVial, Right
    <2>3. ((16 + (m \div 16)) % 16) = (m \div 16)
      BY <1>2, <1>1
    <2> QED BY <1>1, <1>2, <1>4, <2>1, <2>2, <2>3 DEF HandsToInternal, Left
  <1> QED BY <1>3, <1>4

LEMMA HandsThereAndBack ==
    ASSUME NEW m \in 0 .. 31, m # 16
    PROVE  /\ HandsToInternal(m) \in 0 .. 255 /\ OneHand(HandsToInternal(m))
           /\ HandsToVial(HandsToInternal(m)) = m
  <1>1. CASE m < 16
    <2>1. (m \div 16) = 0 /\ (m % 16) = m
      BY <1>1
    <2> QED BY <1>1, <2>1 DEF HandsToInternal, HandsToVial, OneHand, Right, Left
  <1>2. CASE m > 16
    <2>1. (m % 16) = m - 16
      BY <1>2
    <2> DEFINE k == m - 16
    <2>2. k \in 1 .. 15
      BY <1>2
    <2>3. HandsToInternal(m) = k * 16
      BY <1>2, <2>1 DEF HandsToInternal, Left
    <2>4. ((k * 16) \div 16) = k /\ ((k * 16) % 16) = 0
      BY <2>2
    <2> HIDE DEF k
    <2>5. HandsToVial(k * 16) = 16 + k /\ OneHand(k * 16)
      BY <2>2, <2>4 DEF HandsToVial, Right, OneHand, Left
    <2>6. m = 16 + k
      BY DEF k
    <2> QED BY <2>2, <2>3, <2>5, <2>6
  <1> QED BY <1>1, <1>2

LEMMA ToVialOfKey ==
    ASSUME NEW m \in 0 .. 255, NEW c \in KeyboardUsage
    PROVE  ToVial(<<\h10, m, c>>) =
               IF OneHand(m) THEN {HandsToVial(m) * 256 + (IF c > \hA4 THEN 0 ELSE c)} ELSE {}
  <1> DEFINE i == <<\h10, m, c>>
  <1>1. i # NoOp /\ c \in Nat
    BY DEF NoOp, KeyboardUsage
  <1>2. MappedToVial(i) = {}
    BY <1>1, NotMapped
  <1>3. UserToVial(i) = {}
    BY DEF UserToVial
  <1>4. ModifierToVial(i) = {}
    BY DEF ModifierToVial
  <1>5. Valid(i)
    BY DEF Valid
  <1>6. StandardToVial(i) =
            IF OneHand(m) THEN {HandsToVial(m) * 256 + (IF c > \hA4 THEN 0 ELSE c)} ELSE {}
    <2> DEFINE base == IF c > \hA4 THEN 0 ELSE c
    <2>1. i[1] = \h10 /\ i[2] = m /\ i[3] = c
      OBVIOUS
    <2>2. StandardToVial(i) =
              {HandsToVial(m) * 256 + b : b \in {b \in {base} : OneHand(m)}}
      BY <1>5, <2>1 DEF StandardToVial, OneHand, HandsToVial
    <2> HIDE DEF base, i
    <2>3. CASE OneHand(m)
      <3>1. {b \in {base} : OneHand(m)} = {base}
        BY <2>3
      <3> QED BY <2>2, <2>3, <3>1 DEF base
    <2>4. CASE ~OneHand(m)
      BY <2>2, <2>4
    <2> QED BY <2>3, <2>4
  <1> QED BY <1>1, <1>2, <1>3, <1>4, <1>6 DEF ToVial

LEMMA ToInternalOfKey ==
    ASSUME NEW m \in 0 .. 31, m # 16, NEW c \in \h04 .. \hA4
    PROVE  /\ m * 256 + c \in VialCode
           /\ ToInternal(m * 256 + c) = {<<\h10, HandsToInternal(m), c>>}
  <1> DEFINE v == m * 256 + c
  <1>1. v \in VialCode /\ v # 0
    <2>1. v \in Int /\ 0 < v /\ v <= \hFFFF
      OBVIOUS
    <2> QED BY <2>1, InVialCode
  <1>2. (v \div 256) = m /\ (v % 256) = c
    BY Composed
  <1> HIDE DEF v
  <1>3. StandardToInternal(v) = {<<\h10, HandsToInternal(m), c>>}
    BY <1>2 DEF StandardToInternal, HandsToInternal
  <1> QED BY <1>1, <1>3, StandardApart DEF ToInternal, v

-----------------------------------------------------------------------------
(* There and back.                                                         *)

LEMMA BaseUsage ==
    ASSUME NEW c \in \h04 .. \hA4
    PROVE  c \in KeyboardUsage /\ ~(c > \hA4)
  BY DEF KeyboardUsage

LEMMA KeyIsValid ==
    ASSUME NEW m, NEW c \in KeyboardUsage
    PROVE  Valid(<<\h10, m, c>>)
  BY DEF Valid

LEMMA ModifierIsValid ==
    ASSUME NEW b \in ModifierBit
    PROVE  Valid(<<\h11, b, 0>>)
  BY DEF Valid

\* The kind of a code that was accepted, and what it became.
LEMMA InternalCases ==
    ASSUME NEW v \in VialCode, v # 0, NEW i \in ToInternal(v)
    PROVE  \/ \E a, b, c \in Nat : i = <<a, b, c>> /\ Row(a, b, c, v)
           \/ \E c \in 0 .. UserCount - 1 : v = VialUser + c
           \/ \E n \in 0 .. 7 : v = \hE0 + n
           \/ \E m \in 0 .. 31, c \in \h04 .. \hA4 : m # 16 /\ v = m * 256 + c
  <1>1. i \in MappedToInternal(v) \/ i \in UserToInternal(v) \/ i \in StandardToInternal(v)
    BY DEF ToInternal
  <1>2. CASE i \in MappedToInternal(v)
    <2>1. v \in Nat
      BY DEF VialCode
    <2> QED BY <1>2, <2>1, MappedToInternalRows
  <1>3. CASE i \in UserToInternal(v)
    <2>1. PICK c \in 0 .. UserCount - 1 : c = v - VialUser
      BY <1>3 DEF UserToInternal
    <2>2. v = VialUser + c
      BY <2>1 DEF VialUser, VialCode, UserCount
    <2> QED BY <2>2
  <1>4. CASE i \in StandardToInternal(v)
    <2> DEFINE m == v \div 256
               b == v % 256
    <2>1. m \in 0 .. 255 /\ b \in 0 .. 255 /\ v = m * 256 + b
      BY HighAndLow
    <2>2. m <= 31 /\ m # 16
      BY <1>4, <2>1 DEF StandardToInternal
    <2>3. (b \in \hE0 .. \hE7 /\ m = 0) \/ b \in \h04 .. \hA4
      BY <1>4, <2>1 DEF StandardToInternal
    <2> HIDE DEF m, b
    <2>4. CASE b \in \hE0 .. \hE7 /\ m = 0
      <3>1. b - \hE0 \in 0 .. 7 /\ v = \hE0 + (b - \hE0)
        BY <2>1, <2>4
      <3> QED BY <3>1
    <2>5. CASE b \in \h04 .. \hA4
      BY <2>1, <2>2, <2>5
    <2> QED BY <2>3, <2>4, <2>5
  <1> QED BY <1>1, <1>2, <1>3, <1>4

\* A code that is accepted comes back as it was.
Returns(v) == \A i \in ToInternal(v) : ToInternal(v) = {i} /\ Valid(i) /\ ToVial(i) = {v}

LEMMA ReturnsAs ==
    ASSUME NEW v, NEW i, ToInternal(v) = {i}, Valid(i), ToVial(i) = {v}
    PROVE  Returns(v)
  BY DEF Returns

LEMMA NothingReturns == Returns(0)
  <1>1. ToInternal(0) = {NoOp} /\ ToVial(NoOp) = {0}
    BY DEF ToInternal, ToVial
  <1>2. Valid(NoOp)
    BY DEF Valid
  <1> QED BY <1>1, <1>2, ReturnsAs

LEMMA RowReturns ==
    ASSUME NEW a \in Nat, NEW b \in Nat, NEW c \in Nat, NEW v \in Nat, v # 0, Row(a, b, c, v)
    PROVE  Returns(v)
  <1>1. ToInternal(v) = {<<a, b, c>>}
    BY ToInternalOfRow
  <1>2. ToVial(<<a, b, c>>) = {v} /\ Valid(<<a, b, c>>)
    BY ToVialOfRow, RowIsValid
  <1> QED BY <1>1, <1>2, ReturnsAs

LEMMA UserReturns ==
    ASSUME NEW c \in 0 .. UserCount - 1 PROVE Returns(VialUser + c)
  <1>1. c \in Nat /\ c < UserCount
    BY DEF UserCount
  <1>2. \h80 \in \h80 .. \hBF
    OBVIOUS
  <1>3. ToVial(<<\h80, 0, c>>) = {VialUser + c}
    <2>1. ToVial(<<\h80, 0, c>>) =
              {IF \h80 = \h80 /\ 0 = 0 /\ c < UserCount THEN VialUser + c ELSE 0}
      BY <1>1, <1>2, ToVialOfUser
    <2> QED BY <1>1, <2>1
  <1>4. Valid(<<\h80, 0, c>>)
    BY DEF Valid
  <1>5. ToInternal(VialUser + c) = {<<\h80, 0, c>>}
    BY ToInternalOfUser
  <1> QED BY <1>3, <1>4, <1>5, ReturnsAs

LEMMA ModifierReturns ==
    ASSUME NEW n \in 0 .. 7 PROVE Returns(\hE0 + n)
  <1>1. Valid(<<\h11, 2 ^ n, 0>>)
    BY BitOfModifier, ModifierIsValid
  <1> QED BY <1>1, ToInternalOfModifier, ToVialOfModifier, ReturnsAs

LEMMA KeyReturns ==
    ASSUME NEW m \in 0 .. 31, m # 16, NEW c \in \h04 .. \hA4 PROVE Returns(m * 256 + c)
  <1> DEFINE h == HandsToInternal(m)
  <1>1. h \in 0 .. 255 /\ OneHand(h) /\ HandsToVial(h) = m
    BY HandsThereAndBack
  <1>2. ToInternal(m * 256 + c) = {<<\h10, h, c>>}
    BY ToInternalOfKey
  <1> HIDE DEF h
  <1>3. c \in KeyboardUsage /\ ~(c > \hA4)
    BY BaseUsage
  <1>4. ToVial(<<\h10, h, c>>) = {m * 256 + c}
    BY <1>1, <1>3, ToVialOfKey
  <1>5. Valid(<<\h10, h, c>>)
    BY <1>3, KeyIsValid
  <1> QED BY <1>2, <1>4, <1>5, ReturnsAs

\* For all 65536 codes of Vial: one that is accepted becomes one valid
\* internal code and is shown as what it was (code_convert_vial_to_internal,
\* code_convert_internal_to_vial).
THEOREM EveryVialCodeReturns == VialRoundTrip
  <1>1. ASSUME NEW v \in VialCode, NEW i \in ToInternal(v), v # 0 PROVE Returns(v)
    <2>1. v \in Nat
      BY DEF VialCode
    <2>2. ASSUME NEW a \in Nat, NEW b \in Nat, NEW c \in Nat, Row(a, b, c, v)
          PROVE  Returns(v)
      BY <1>1, <2>1, <2>2, RowReturns
    <2>3. ASSUME NEW c \in 0 .. UserCount - 1, v = VialUser + c PROVE Returns(v)
      BY <2>3, UserReturns
    <2>4. ASSUME NEW n \in 0 .. 7, v = \hE0 + n PROVE Returns(v)
      BY <2>4, ModifierReturns
    <2>5. ASSUME NEW m \in 0 .. 31, NEW c \in \h04 .. \hA4, m # 16, v = m * 256 + c
          PROVE  Returns(v)
      BY <2>5, KeyReturns
    <2>6. CASE \E a, b, c \in Nat : i = <<a, b, c>> /\ Row(a, b, c, v)
      BY <2>2, <2>6
    <2>7. CASE \E c \in 0 .. UserCount - 1 : v = VialUser + c
      BY <2>3, <2>7
    <2>8. CASE \E n \in 0 .. 7 : v = \hE0 + n
      BY <2>4, <2>8
    <2>9. CASE \E m \in 0 .. 31, c \in \h04 .. \hA4 : m # 16 /\ v = m * 256 + c
      BY <2>5, <2>9
    <2> QED BY <1>1, <2>6, <2>7, <2>8, <2>9, InternalCases
  <1>2. ASSUME NEW v \in VialCode, NEW i \in ToInternal(v) PROVE Returns(v)
    BY <1>1, <1>2, NothingReturns
  <1> QED BY <1>2 DEF VialRoundTrip, Returns

\* The other way round, for every valid internal code with its fields of a
\* byte: what a host is shown for it is nothing (0), or a code that becomes
\* this code again - or a keypad usage beyond 164 with modifiers, which is
\* shown as its modifiers alone and accepted by nobody.
ShownCodeIsAccepted(i) ==
    \A v \in ToVial(i) :
        \/ v = 0
        \/ ToInternal(v) = {i}
        \/ i[1] = \h10 /\ i[3] > \hA4 /\ i[2] # 0 /\ ToInternal(v) = {}

LEMMA ModifiersAloneRefused ==
    ASSUME NEW m \in 1 .. 31
    PROVE  ToInternal(m * 256) = {}
  <1> DEFINE v == m * 256
  <1>1. (v \div 256) = m /\ (v % 256) = 0
    OBVIOUS
  <1>2. v \in Nat /\ v # 0 /\ v <= 7936
    OBVIOUS
  <1> HIDE DEF v
  <1>3. StandardToInternal(v) = {}
    BY <1>1 DEF StandardToInternal
  <1>4. UserToInternal(v) = {}
    BY <1>2 DEF UserToInternal, VialUser, UserCount
  <1>5. MappedToInternal(v) = {}
    <2>1. ~MappedCode(v)
      <3>1. v = m * 256
        BY DEF v
      <3> QED BY <3>1, <1>2 DEF MappedCode, VialBoot
    <2> QED BY <1>2, <2>1, MappedToInternalRows, RowIsValid
  <1>6. ToInternal(v) = {}
    BY <1>2, <1>3, <1>4, <1>5 DEF ToInternal
  <1> QED BY <1>6 DEF v

LEMMA ShownKey ==
    ASSUME NEW b \in 0 .. 255, NEW c \in KeyboardUsage
    PROVE  ShownCodeIsAccepted(<<\h10, b, c>>)
  <1> DEFINE i == <<\h10, b, c>>
             m == HandsToVial(b)
  <1> SUFFICES ASSUME NEW v \in ToVial(i)
               PROVE  \/ ToInternal(v) = {i}
                      \/ c > \hA4 /\ (b = 0 => v = 0) /\ (v # 0 => ToInternal(v) = {})
    BY DEF ShownCodeIsAccepted
  <1>1. OneHand(b) /\ v = m * 256 + (IF c > \hA4 THEN 0 ELSE c)
    <2>1. ToVial(i) = IF OneHand(b) THEN {m * 256 + (IF c > \hA4 THEN 0 ELSE c)} ELSE {}
      BY ToVialOfKey
    <2> HIDE DEF i, m
    <2> QED BY <2>1
  <1>2. m \in 0 .. 31 /\ m # 16 /\ HandsToInternal(m) = b
    BY <1>1, HandsAndBack
  <1>3. b = 0 => m = 0
    BY DEF HandsToVial, Right
  <1> HIDE DEF m
  <1>4. CASE c > \hA4
    <2>1. v = m * 256
      BY <1>1, <1>2, <1>4
    <2>2. CASE m = 0
      BY <1>4, <2>1, <2>2
    <2>3. CASE m # 0
      <3>1. m \in 1 .. 31
        BY <1>2, <2>3
      <3>2. ToInternal(v) = {}
        BY <2>1, <3>1, ModifiersAloneRefused
      <3> QED BY <1>3, <1>4, <2>3, <3>2
    <2> QED BY <2>2, <2>3
  <1>5. CASE ~(c > \hA4)
    <2>1. c \in \h04 .. \hA4
      BY <1>5 DEF KeyboardUsage
    <2>2. ToInternal(m * 256 + c) = {<<\h10, HandsToInternal(m), c>>}
      BY <1>2, <2>1, ToInternalOfKey
    <2> QED BY <1>1, <1>2, <1>5, <2>2
  <1> QED BY <1>4, <1>5

LEMMA ShownModifier ==
    ASSUME NEW b \in ModifierBit
    PROVE  ShownCodeIsAccepted(<<\h11, b, 0>>)
  <1>1. PICK n \in 0 .. 7 : b = 2 ^ n
    BY ModifierHasBit
  <1>2. ToVial(<<\h11, b, 0>>) = {\hE0 + n} /\ ToInternal(\hE0 + n) = {<<\h11, b, 0>>}
    BY <1>1, ToVialOfModifier, ToInternalOfModifier
  <1> QED BY <1>2 DEF ShownCodeIsAccepted

LEMMA ShownMapped ==
    ASSUME NEW a \in {\h12, \h13, \h14}, NEW b \in Nat, NEW c \in Nat
    PROVE  ShownCodeIsAccepted(<<a, b, c>>)
  <1> DEFINE i == <<a, b, c>>
  <1> SUFFICES ASSUME NEW v \in ToVial(i) PROVE v = 0 \/ ToInternal(v) = {i}
    BY DEF ShownCodeIsAccepted
  <1>1. i # NoOp
    BY DEF NoOp
  <1>2. UserToVial(i) = {} /\ ModifierToVial(i) = {} /\ StandardToVial(i) = {}
    BY DEF UserToVial, ModifierToVial, StandardToVial
  <1>3. v \in MappedToVial(i)
    BY <1>1, <1>2 DEF ToVial
  <1>4. a \in Nat
    OBVIOUS
  <1>5. v \in Nat /\ Row(a, b, c, v)
    BY <1>3, <1>4, MappedToVialRows
  <1> QED BY <1>4, <1>5, ToInternalOfRow

LEMMA ShownUser ==
    ASSUME NEW a \in \h80 .. \hBF, NEW b \in Nat, NEW c \in Nat
    PROVE  ShownCodeIsAccepted(<<a, b, c>>)
  <1>1. CASE a = \h80 /\ b = 0 /\ c < UserCount
    <2>1. c \in 0 .. UserCount - 1
      BY <1>1 DEF UserCount
    <2>2. ToVial(<<a, b, c>>) = {VialUser + c}
      BY <1>1, ToVialOfUser
    <2>3. ToInternal(VialUser + c) = {<<a, b, c>>}
      BY <1>1, <2>1, ToInternalOfUser
    <2> QED BY <2>2, <2>3 DEF ShownCodeIsAccepted
  <1>2. CASE ~(a = \h80 /\ b = 0 /\ c < UserCount)
    <2>1. ToVial(<<a, b, c>>) = {0}
      BY <1>2, ToVialOfUser
    <2> QED BY <2>1 DEF ShownCodeIsAccepted
  <1> QED BY <1>1, <1>2

LEMMA ShownNothing ==
    /\ ToVial(NoOp) = {0}
    /\ ToVial(Transparent) = {}
  <1>1. ToVial(NoOp) = {0}
    BY DEF ToVial
  <1>2. Transparent = <<1, 0, 0>> /\ Transparent # NoOp
    BY DEF Transparent, NoOp
  <1>3. MappedToVial(Transparent) = {}
    BY <1>2, NotMapped
  <1>4. UserToVial(Transparent) = {} /\ ModifierToVial(Transparent) = {}
        /\ StandardToVial(Transparent) = {}
    BY <1>2 DEF UserToVial, ModifierToVial, StandardToVial
  <1> QED BY <1>1, <1>2, <1>3, <1>4 DEF ToVial

\* The kinds of valid codes.
LEMMA ValidCases ==
    ASSUME NEW a \in Nat, NEW b \in Nat, NEW c \in Nat, Valid(<<a, b, c>>)
    PROVE  \/ <<a, b, c>> \in {NoOp, Transparent}
           \/ a = \h10 /\ c \in KeyboardUsage
           \/ a = \h11 /\ b \in ModifierBit /\ c = 0
           \/ a \in {\h12, \h13, \h14}
           \/ a \in \h80 .. \hBF
  BY DEF Valid

THEOREM EveryShownCodeIsAccepted ==
    ASSUME NEW a \in Nat, NEW b \in 0 .. 255, NEW c \in Nat, Valid(<<a, b, c>>)
    PROVE  ShownCodeIsAccepted(<<a, b, c>>)
  <1>1. CASE <<a, b, c>> \in {NoOp, Transparent}
    BY <1>1, ShownNothing DEF ShownCodeIsAccepted
  <1>2. CASE a = \h10 /\ c \in KeyboardUsage
    BY <1>2, ShownKey
  <1>3. CASE a = \h11 /\ b \in ModifierBit /\ c = 0
    BY <1>3, ShownModifier
  <1>4. CASE a \in {\h12, \h13, \h14}
    BY <1>4, ShownMapped
  <1>5. CASE a \in \h80 .. \hBF
    <2>1. b \in Nat
      OBVIOUS
    <2> QED BY <1>5, <2>1, ShownUser
  <1> QED BY <1>1, <1>2, <1>3, <1>4, <1>5, ValidCases

-----------------------------------------------------------------------------
(* The bootloader key.                                                     *)

LEMMA OnlyVialBootIsBoot ==
    ASSUME NEW v, v # VialBoot PROVE Boot \notin ToInternal(v)
  <1>1. Boot \notin MappedToInternal(v)
    <2>1. \A r \in Table : r[1] = Boot => r[2] = VialBoot
      BY SMTT(60) DEF Table, Boot, VialBoot, NoOp, Consumer, Pointing, System, VialOnly
    <2> QED BY <2>1 DEF MappedToInternal
  <1>2. Boot \notin UserToInternal(v)
    BY DEF UserToInternal, Boot
  <1>3. Boot \notin StandardToInternal(v)
    BY DEF StandardToInternal, Boot
  <1>4. Boot # NoOp
    BY DEF Boot, NoOp
  <1> QED BY <1>1, <1>2, <1>3, <1>4 DEF ToInternal

\* For every keymap, layout and sequence of requests: the bootloader is asked
\* for, and a key for it enters the keymap, only while unlocked - unless it
\* was in the keymap of the build (_handle_via_command, keymap_set).
THEOREM BootloaderIsLocked == Spec => BootCodeNeedsUnlock
  <1>1. ASSUME TypeInv, [Next]_vars
        PROVE  \/ unlocked
               \/ /\ ~(~bootAsked /\ bootAsked')
                  /\ \A n \in Entry : keymap'[n] = Boot => keymap[n] = Boot
    <2> SUFFICES ASSUME ~unlocked
                 PROVE  /\ ~(~bootAsked /\ bootAsked')
                        /\ keymap' = keymap \/ \A n \in Entry : keymap'[n] = Boot => keymap[n] = Boot
      OBVIOUS
    <2>1. CASE ~ProcessVial
      <3>1. UNCHANGED <<bootAsked, keymap>>
        BY <1>1, <2>1 DEF Next, Tick, Receive, Unmount, vars, settingsVars
      <3> QED BY <3>1
    <2>2. CASE ProcessVial
      <3>1. ~(~bootAsked /\ bootAsked')
        BY <2>2, ProcessCases, Zenon DEF NoPending, ProcessStart, ProcessPoll, ProcessLock,
           ProcessSet, ProcessReset, ProcessBoot, BootloaderJump
      <3>2. CASE ProcessSet
        <4>1. CASE Refused
          BY <3>1, <4>1 DEF Refused, settingsVars
        <4>2. CASE ~Refused
          <5>1. pending[5] # VialBoot
            BY <3>2, <4>2 DEF ProcessSet, SetKeycode, WriteAllowed, Dangerous
          <5>2. PICK internal \in ToInternal(pending[5]) :
                    keymap' = keymap \/ \E n : keymap' = [keymap EXCEPT ![n] = internal]
            <6>1. PICK internal \in ToInternal(pending[5]) :
                      Store(<<pending[2], pending[3], pending[4]>>,
                            EntryOf(pending[2], pending[3], pending[4]), internal, pending[5])
              BY <3>2, <4>2 DEF ProcessSet, SetKeycode
            <6> QED BY <6>1 DEF Store
          <5>3. internal # Boot
            BY <5>1, <5>2, OnlyVialBootIsBoot
          <5>4. DOMAIN keymap = Entry
            BY <1>1 DEF TypeInv, KeymapTypes
          <5> QED BY <3>1, <5>2, <5>3, <5>4
        <4> QED BY <3>1, <4>1, <4>2
      <3>3. CASE ~ProcessSet
        BY <2>2, <3>1, <3>3, ProcessCases DEF NoPending, ProcessStart, ProcessPoll, ProcessLock,
           ProcessReset, ResetKeymap, Refused, ProcessBoot, settingsVars
      <3> QED BY <3>2, <3>3
    <2> QED BY <2>1, <2>2
  <1>2. TypeInv /\ [Next]_vars =>
            [unlocked \/ /\ ~(~bootAsked /\ bootAsked')
                         /\ \A n \in Entry : keymap'[n] = Boot => keymap[n] = Boot]_vars
    BY <1>1
  <1> QED BY <1>2, TypesInvariant, PTL DEF Spec, BootCodeNeedsUnlock

-----------------------------------------------------------------------------
(* What is acknowledged is read back.                                      *)

\* A number of two digits gives its digits back.
LEMMA Digits ==
    ASSUME NEW P \in Nat \ {0}, NEW a \in Nat, NEW i \in 0 .. P - 1
    PROVE  (a * P + i) \div P = a /\ (a * P + i) % P = i
  <1> DEFINE n == a * P + i
             q == n \div P
             r == n % P
  <1>1. n \in Nat /\ a * P \in Nat
    OBVIOUS
  <1>2. q \in Nat /\ r \in 0 .. P - 1 /\ q * P + r = n
    BY <1>1
  <1> HIDE DEF q, r
  <1>3. \A c, d \in Nat : c < d => c * P + P <= d * P
    <2> SUFFICES ASSUME NEW c \in Nat, NEW d \in Nat, c < d PROVE c * P + P <= d * P
      OBVIOUS
    <2>1. PICK k \in Nat : d = c + 1 + k
      <3>1. d - c - 1 \in Nat /\ d = c + 1 + (d - c - 1)
        OBVIOUS
      <3> QED BY <3>1
    <2>2. d * P = c * P + P + k * P /\ k * P \in Nat
      BY <2>1
    <2> QED BY <2>2
  <1>4. ~(q < a)
    BY <1>1, <1>2, <1>3
  <1>5. ~(a < q)
    BY <1>1, <1>2, <1>3
  <1>6. q = a
    BY <1>2, <1>4, <1>5
  <1>7. r = i
    BY <1>2, <1>6
  <1> QED BY <1>6, <1>7 DEF q, r

\* The digits of a number below A * P, and such a number.
LEMMA Cells ==
    ASSUME NEW P \in Nat, NEW A \in Nat, NEW a \in 0 .. A - 1, NEW i \in 0 .. P - 1
    PROVE  a * P + i \in 0 .. A * P - 1
  <1>1. PICK k \in Nat : A = a + 1 + k
    <2>1. A - a - 1 \in Nat /\ A = a + 1 + (A - a - 1)
      OBVIOUS
    <2> QED BY <2>1
  <1>2. A * P = a * P + P + k * P /\ k * P \in Nat /\ a * P \in Nat
    BY <1>1
  <1> QED BY <1>2

\* A place of the keymap lies in the matrix and has a switch.
LEMMA Places ==
    ASSUME NEW l, NEW r, NEW c, <<l, r, c>> \in Place
    PROVE  /\ l \in 0 .. Layers - 1 /\ r \in 0 .. Rows - 1 /\ c \in 0 .. Cols - 1
           /\ ValidPosition(l, r, c)
           /\ Max(Lookup(r, c)) \in Lookup(r, c)
           /\ Max(Lookup(r, c)) \in 0 .. PerLayer - 1
           /\ PerLayer \in Nat \ {0}
           /\ {Rows, Cols, Layers} \subseteq Nat
  <1>1. /\ l \in 0 .. Layers - 1 /\ r \in 0 .. Rows - 1 /\ c \in 0 .. Cols - 1
        /\ ValidPosition(l, r, c)
    BY DEF Place
  <1>2. {Rows, Cols, Layers} \subseteq Nat /\ PerLayer \in Nat
    BY VialAssumption DEF PerLayer
  <1>3. Lookup(r, c) \subseteq 0 .. PerLayer - 1 /\ Lookup(r, c) # {}
    BY <1>1, VialAssumption DEF Lookup, ValidPosition
  <1> DEFINE S == Lookup(r, c)
  <1> HIDE DEF S
  <1>4. S \subseteq Nat /\ S # {} /\ \A y \in S : y <= PerLayer
    BY <1>2, <1>3 DEF S
  <1>5. \E x \in S : \A y \in S : x >= y
    BY <1>2, <1>4, Greatest
  <1>6. Max(S) \in S
    BY <1>5 DEF Max
  <1>7. PerLayer # 0
    BY <1>2, <1>3
  <1> QED BY <1>1, <1>2, <1>3, <1>6, <1>7 DEF S

LEMMA EntryOfPlace ==
    ASSUME NEW l, NEW r, NEW c, <<l, r, c>> \in Place
    PROVE  EntryOf(l, r, c) \in Entry
  <1>1. /\ PerLayer \in Nat /\ Layers \in Nat /\ l \in 0 .. Layers - 1
        /\ Max(Lookup(r, c)) \in 0 .. PerLayer - 1
    BY Places
  <1> QED BY <1>1, Cells DEF EntryOf, Entry

\* Two places share no entry: no write to one reaches another.
LEMMA EntriesApart ==
    ASSUME NEW l, NEW r, NEW c, NEW k, NEW s, NEW d,
           <<l, r, c>> \in Place, <<k, s, d>> \in Place,
           EntryOf(l, r, c) = EntryOf(k, s, d)
    PROVE  <<l, r, c>> = <<k, s, d>>
  <1> DEFINE i == Max(Lookup(r, c))
             j == Max(Lookup(s, d))
  <1>1. /\ PerLayer \in Nat \ {0} /\ l \in Nat /\ k \in Nat
        /\ i \in 0 .. PerLayer - 1 /\ j \in 0 .. PerLayer - 1
        /\ i \in Lookup(r, c) /\ j \in Lookup(s, d)
    BY Places
  <1>2. l * PerLayer + i = k * PerLayer + j
    BY DEF EntryOf
  <1> HIDE DEF i, j
  <1>3. (l * PerLayer + i) \div PerLayer = l /\ (l * PerLayer + i) % PerLayer = i
    BY <1>1, Digits
  <1>4. (k * PerLayer + j) \div PerLayer = k /\ (k * PerLayer + j) % PerLayer = j
    BY <1>1, Digits
  <1>5. l = k /\ i = j
    BY <1>2, <1>3, <1>4
  <1>6. Layout[i] = <<r, c>> /\ Layout[j] = <<s, d>>
    BY <1>1 DEF Lookup
  <1> QED BY <1>5, <1>6

\* The internal code at a place is one of the code acknowledged there.
AckInv ==
    \A l, r, c : <<l, r, c>> \in Place /\ acknowledged[<<l, r, c>>] # Unacknowledged =>
        keymap[EntryOf(l, r, c)] \in ToInternal(acknowledged[<<l, r, c>>])

LEMMA StoreAcknowledges ==
    ASSUME KeymapTypes, AckInv, NEW l, NEW r, NEW c, <<l, r, c>> \in Place,
           NEW v, NEW internal, internal \in ToInternal(v),
           Store(<<l, r, c>>, EntryOf(l, r, c), internal, v)
    PROVE  AckInv'
  <1> DEFINE n == EntryOf(l, r, c)
  <1>1. n \in DOMAIN keymap
    BY EntryOfPlace DEF KeymapTypes
  <1>2. DOMAIN acknowledged = Place
    BY DEF KeymapTypes
  <1> SUFFICES ASSUME NEW k, NEW s, NEW d, <<k, s, d>> \in Place,
                      acknowledged'[<<k, s, d>>] # Unacknowledged
               PROVE  keymap'[EntryOf(k, s, d)] \in ToInternal(acknowledged'[<<k, s, d>>])
    BY DEF AckInv
  <1>3. CASE keymap[n] = internal
    <2>1. /\ keymap' = keymap
          /\ acknowledged' = [acknowledged EXCEPT ![<<l, r, c>>] = IF ramOnly THEN @ ELSE v]
      BY <1>3 DEF Store
    <2>2. CASE <<k, s, d>> = <<l, r, c>> /\ ~ramOnly
      <3>1. acknowledged'[<<k, s, d>>] = v
        BY <2>1, <2>2, <1>2
      <3>2. EntryOf(k, s, d) = n
        BY <2>2
      <3> QED BY <3>1, <3>2, <2>1, <1>3
    <2>3. CASE <<k, s, d>> # <<l, r, c>> \/ ramOnly
      <3>1. acknowledged'[<<k, s, d>>] = acknowledged[<<k, s, d>>]
        BY <2>1, <2>3, <1>2
      <3> QED BY <3>1, <2>1 DEF AckInv
    <2> QED BY <2>2, <2>3
  <1>4. CASE keymap[n] # internal
    <2>1. PICK persisted \in BOOLEAN :
              /\ keymap' = [keymap EXCEPT ![n] = internal]
              /\ acknowledged' = [acknowledged EXCEPT ![<<l, r, c>>] =
                                     IF persisted THEN v ELSE Unacknowledged]
      BY <1>4 DEF Store
    <2>2. CASE <<k, s, d>> = <<l, r, c>>
      <3>1. acknowledged'[<<k, s, d>>] = v
        BY <2>1, <2>2, <1>2
      <3>2. EntryOf(k, s, d) = n
        BY <2>2
      <3> QED BY <3>1, <3>2, <2>1, <1>1
    <2>3. CASE <<k, s, d>> # <<l, r, c>>
      <3>1. acknowledged'[<<k, s, d>>] = acknowledged[<<k, s, d>>]
        BY <2>1, <2>3, <1>2
      <3>2. EntryOf(k, s, d) # n
        <4> SUFFICES ASSUME EntryOf(l, r, c) = EntryOf(k, s, d) PROVE FALSE
          OBVIOUS
        <4>1. <<l, r, c>> = <<k, s, d>>
          BY EntriesApart
        <4> QED BY <4>1, <2>3
      <3>3. keymap'[EntryOf(k, s, d)] = keymap[EntryOf(k, s, d)]
        BY <2>1, <3>2
      <3> QED BY <3>1, <3>3 DEF AckInv
    <2> QED BY <2>2, <2>3
  <1> QED BY <1>3, <1>4

LEMMA AckStep ==
    ASSUME TypeInv, AckInv, [Next]_vars PROVE AckInv'
  <1>s. UNCHANGED settingsVars => (AckInv')
    BY DEF settingsVars, AckInv
  <1>1. CASE ~ProcessVial
    BY <1>1, <1>s DEF Next, Tick, Receive, Unmount, vars
  <1>2. CASE ProcessVial
    <2>1. CASE NoPending \/ ProcessStart \/ ProcessPoll \/ ProcessLock \/ ProcessBoot
      BY <2>1, <1>s DEF NoPending, ProcessStart, ProcessPoll, ProcessLock, ProcessBoot
    <2>2. CASE ProcessSet
      <3> DEFINE l == pending[2]
                 r == pending[3]
                 c == pending[4]
                 v == pending[5]
      <3>1. CASE Refused
        BY <3>1, <1>s DEF Refused
      <3>2. CASE ~Refused
        <4>1. /\ ValidPosition(l, r, c)
              /\ \E internal \in ToInternal(v) : Store(<<l, r, c>>, EntryOf(l, r, c), internal, v)
          BY <2>2, <3>2 DEF ProcessSet, SetKeycode
        <4>2. l \in Nat
          BY <2>2, VialAssumption DEF ProcessSet, TypeInv, FlowTypes
        <4>3. <<l, r, c>> \in Place
          <5>1. PICK i \in DOMAIN Layout : Exists(i) /\ Layout[i] = <<r, c>>
            BY <4>1 DEF ValidPosition, Lookup
          <5>2. r \in 0 .. Rows - 1 /\ c \in 0 .. Cols - 1
            BY <5>1 DEF Exists, Position
          <5>3. l \in 0 .. Layers - 1
            BY <4>1, <4>2, VialAssumption DEF ValidPosition
          <5> QED BY <4>1, <5>2, <5>3 DEF Place
        <4> HIDE DEF l, r, c, v
        <4> QED BY <4>1, <4>3, StoreAcknowledges DEF TypeInv
      <3> QED BY <3>1, <3>2
    <2>3. CASE ProcessReset
      <3>1. CASE Refused
        BY <3>1, <1>s DEF Refused
      <3>2. CASE ~Refused
        BY <2>3, <3>2 DEF ProcessReset, ResetKeymap, AckInv
      <3> QED BY <3>1, <3>2
    <2> QED BY <1>2, <2>1, <2>2, <2>3, ProcessCases
  <1> QED BY <1>1, <1>2

\* A code is its high byte and its low byte.
LEMMA TwoBytes ==
    ASSUME NEW v \in VialCode PROVE 256 * (v \div 256) + (v % 256) = v
  BY DEF VialCode

\* The bytes of the keymap buffer at a place are those of its code.
LEMMA BufferBytes ==
    ASSUME NEW l, NEW r, NEW c, <<l, r, c>> \in Place, GetKeycode(l, r, c) \in VialCode
    PROVE  LET at == 2 * (l * PerLayer + r * Cols + c) IN
           256 * BufferByte(at) + BufferByte(at + 1) = GetKeycode(l, r, c)
  <1> DEFINE cell == r * Cols + c
             n == l * PerLayer + cell
             at == 2 * n
             v == GetKeycode(l, r, c)
  <1>1. /\ l \in 0 .. Layers - 1 /\ r \in 0 .. Rows - 1 /\ c \in 0 .. Cols - 1
        /\ Rows \in Nat /\ Cols \in Nat /\ Layers \in Nat /\ PerLayer \in Nat \ {0}
    BY Places
  <1>2. Cols \in Nat \ {0} /\ r \in Nat /\ l \in Nat
    BY <1>1
  <1>3. cell \in 0 .. PerLayer - 1
    BY <1>1, Cells DEF PerLayer
  <1>4. cell \div Cols = r /\ cell % Cols = c
    BY <1>1, <1>2, Digits
  <1> HIDE DEF cell
  <1>5. n \in Entry
    BY <1>1, <1>3, Cells DEF Entry
  <1>6. n \div PerLayer = l /\ n % PerLayer = cell
    BY <1>1, <1>2, <1>3, Digits
  <1>7. n \in Nat
    BY <1>1, <1>2, <1>3
  <1> HIDE DEF n
  <1>8. at \div 2 = n /\ at % 2 = 0 /\ (at + 1) \div 2 = n /\ (at + 1) % 2 = 1
    BY <1>7
  <1> HIDE DEF at
  <1>9. BufferByte(at) = v \div 256
    BY <1>4, <1>5, <1>6, <1>8 DEF BufferByte
  <1>10. BufferByte(at + 1) = v % 256
    BY <1>4, <1>5, <1>6, <1>8 DEF BufferByte
  <1>11. at = 2 * (l * PerLayer + r * Cols + c)
    <2>1. l * PerLayer + (r * Cols + c) = l * PerLayer + r * Cols + c
      BY <1>1
    <2> QED BY <2>1 DEF at, n, cell
  <1>12. 256 * (v \div 256) + (v % 256) = v
    <2>1. v \in VialCode
      OBVIOUS
    <2> QED BY <2>1, TwoBytes
  <1> QED BY <1>9, <1>10, <1>11, <1>12

\* For every layout, with any number of layers and of places without a
\* switch, and every sequence of requests: what was acknowledged is read back
\* in both ways (keymap_set, keymap_get, _keymap_buffer_get_byte).
THEOREM AcknowledgedIsRead == Spec => []AcknowledgedReadsBack
  <1>1. Init => AckInv
    BY DEF Init, AckInv
  <1>2. ASSUME TypeInv, AckInv PROVE AcknowledgedReadsBack
    <2> SUFFICES ASSUME NEW l, NEW r, NEW c, <<l, r, c>> \in Place,
                        acknowledged[<<l, r, c>>] # Unacknowledged
                 PROVE  /\ GetKeycode(l, r, c) = acknowledged[<<l, r, c>>]
                        /\ LET at == 2 * (l * PerLayer + r * Cols + c) IN
                           256 * BufferByte(at) + BufferByte(at + 1) = acknowledged[<<l, r, c>>]
      BY DEF AcknowledgedReadsBack, Place
    <2> DEFINE v == acknowledged[<<l, r, c>>]
    <2>1. v \in VialCode
      BY <1>2 DEF TypeInv, KeymapTypes
    <2>2. keymap[EntryOf(l, r, c)] \in ToInternal(v)
      BY <1>2 DEF AckInv
    <2>3. ToVial(keymap[EntryOf(l, r, c)]) = {v}
      BY <2>1, <2>2, EveryVialCodeReturns DEF VialRoundTrip
    <2>4. Keycode(l, r, c) = keymap[EntryOf(l, r, c)]
      BY Places DEF Keycode
    <2>5. GetKeycode(l, r, c) = v
      BY <2>3, <2>4 DEF GetKeycode
    <2> QED BY <2>1, <2>5, BufferBytes
  <1>3. TypeInv /\ AckInv /\ [Next]_vars => AckInv'
    BY AckStep
  <1>4. TypeInv /\ AckInv => AcknowledgedReadsBack
    BY <1>2
  <1> QED BY <1>1, <1>3, <1>4, TypesInvariant, PTL DEF Spec
=============================================================================
