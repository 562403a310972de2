---------------------------- MODULE ProgressFormat ----------------------------
(***************************************************************************)
(* The save progress array bit by bit: persistence_format.c's slot update  *)
(* and its analysis, as persistence.c uses them.  A slot is two bits, the  *)
(* first slot of a byte in its highest bits.                               *)
(*                                                                         *)
(* The analysis is a loop; one step here is one turn of it, so that what   *)
(* the loop computes is an invariant.  Nothing else runs during it.        *)
(***************************************************************************)
EXTENDS Integers

CONSTANTS
    NBytes,     \* PWMK_PROGRESS_SIZE
    Contents    \* arrays the progress bytes of the region may hold at boot

NSlots == 4 * NBytes
Byte == 0 .. 255

ASSUME ProgressAssumption ==
    /\ NBytes \in Nat \ {0}
    /\ Contents \subseteq [0 .. NBytes - 1 -> Byte]

VARIABLES
    progress,    \* the progress bytes in flash
    slot,        \* loop variable of the analysis
    completed,   \* completed_save_count
    unused,      \* unused_slot_seen
    started,     \* in_progress_slot_seen
    state,       \* "scan" while the loop runs, then the result
    expected     \* what the last update should have made of the array

vars == <<progress, slot, completed, unused, started, state, expected>>

Slot == 0 .. NSlots - 1
Unknown == [state |-> "any", completed |-> 0]

-----------------------------------------------------------------------------
Shift(s) == 6 - 2 * (s % 4)

\* The two bits of a slot, and single bits of a byte.
Pair(p, s) == (p[s \div 4] \div 2^Shift(s)) % 4
BitSet(byte, i) == (byte \div 2^i) % 2 = 1

\* Mutated form: the bits change places.
ClearedBitSwapped(s, done) == Shift(s) + (IF done THEN 1 ELSE 0)

\* get_slot_update: starting clears the upper bit, completing the lower one.
ClearedBit(s, done) == Shift(s) + (IF done THEN 0 ELSE 1)

\* Mutated form: a slot may be completed before it was started.
CanUpdateUnstarted(byte, s, done) ==
    /\ BitSet(byte, ClearedBit(s, done))
    /\ ~done => BitSet(byte, Shift(s))

\* update_slot: 11 may become 01, and 01 may become 00.
CanUpdate(byte, s, done) ==
    /\ BitSet(byte, ClearedBit(s, done))
    /\ done => ~BitSet(byte, Shift(s) + 1)
    /\ ~done => BitSet(byte, Shift(s))

-----------------------------------------------------------------------------
Init ==
    /\ progress \in Contents
    /\ slot = 0 /\ completed = 0 /\ unused = FALSE /\ started = FALSE
    /\ state = "scan"
    /\ expected = Unknown

Result(r) == state' = r /\ UNCHANGED <<slot, completed, unused, started>>

\* Mutated form of Tail: the rest of the array is not looked at.
TailIgnored(pair) ==
    slot' = slot + 1 /\ UNCHANGED <<completed, unused, started, state>>

\* After the first slot that is not completed only unused ones are legal.
Tail(pair) ==
    \/ pair # 3 /\ Result("dirty")
    \/ pair = 3 /\ slot' = slot + 1 /\ UNCHANGED <<completed, unused, started, state>>

\* Mutated form of Head: both flags for an unused slot.
HeadStartsUnused(pair) ==
    \/ pair = 2 /\ Result("dirty")
    \/ /\ pair # 2
       /\ slot' = slot + 1
       /\ completed' = IF pair = 0 THEN completed + 1 ELSE completed
       /\ started' = (pair # 0)
       /\ unused' = (pair = 3)
       /\ UNCHANGED state

Head(pair) ==
    \/ pair = 2 /\ Result("dirty")
    \/ /\ pair # 2
       /\ slot' = slot + 1
       /\ completed' = IF pair = 0 THEN completed + 1 ELSE completed
       /\ started' = (pair = 1)
       /\ unused' = (pair = 3)
       /\ UNCHANGED state

AnalyzeSlot ==
    /\ state = "scan" /\ slot < NSlots
    /\ \/ (started \/ unused) /\ Tail(Pair(progress, slot))
       \/ ~(started \/ unused) /\ Head(Pair(progress, slot))
    /\ UNCHANGED <<progress, expected>>

AnalyzeEnd ==
    /\ state = "scan" /\ slot = NSlots
    /\ Result(IF started THEN "in_progress"
              ELSE IF completed = 0 THEN "empty" ELSE "complete")
    /\ UNCHANGED <<progress, expected>>

\* The update a save makes to slot n, and what the array is then.
Expected(s, done) ==
    IF ~done /\ state \in {"empty", "complete"} /\ s = completed
    THEN [state |-> "in_progress", completed |-> completed]
    ELSE IF done /\ state = "in_progress" /\ s = completed
    THEN [state |-> "complete", completed |-> completed + 1]
    ELSE Unknown

\* _persistence_update_progress, then _persistence_read_progress.
Update(s, done) ==
    /\ state # "scan"
    /\ CanUpdate(progress[s \div 4], s, done)
    /\ progress' = [progress EXCEPT ![s \div 4] = @ - 2^ClearedBit(s, done)]
    /\ expected' = Expected(s, done)
    /\ slot' = 0 /\ completed' = 0 /\ unused' = FALSE /\ started' = FALSE
    /\ state' = "scan"

Next ==
    \/ AnalyzeSlot \/ AnalyzeEnd
    \/ \E s \in Slot, done \in BOOLEAN : Update(s, done)

Spec == Init /\ [][Next]_vars

-----------------------------------------------------------------------------
(* Properties.                                                             *)

\* The slots by the names module Persistence gives to their values.
SlotName == <<"done", "started", "broken", "unused">>
Named == [s \in Slot |-> SlotName[Pair(progress, s) + 1]]

Slots == INSTANCE ProgressSlots

\* Types; above all, the loop counts no slot it has not passed, and never
\* believes in a started slot behind an unused one.
TypeOK ==
    /\ progress \in [0 .. NBytes - 1 -> Byte]
    /\ slot \in 0 .. NSlots /\ completed \in 0 .. slot
    /\ unused \in BOOLEAN /\ started \in BOOLEAN /\ ~(unused /\ started)
    /\ state \in {"scan", "empty", "complete", "in_progress", "dirty"}

\* Whatever bytes the region holds, the loop with its two flags and three
\* early returns reports the state and the count that module Persistence
\* relies on.
AnalysisIsProgressState ==
    state # "scan" => /\ state = Slots!ProgressState(Named)
                      /\ completed = Slots!CompletedCount(Named)

\* Starting and completing the next slot of a sound array is reported as a
\* save in progress and then as one more save, across byte boundaries and up
\* to the last slot.
NextSaveIsCounted ==
    state # "scan" /\ expected # Unknown =>
        state = expected.state /\ completed = expected.completed

\* An update moves its own slot from unused to started or from started to
\* completed; its neighbours in the byte keep their bits.
UpdateMovesOneSlot ==
    [][\A s \in Slot : Named[s] # Named'[s] =>
          /\ \A t \in Slot \ {s} : Named'[t] = Named[t]
          /\ <<Named[s], Named'[s]>> \in
                {<<"unused", "started">>, <<"started", "done">>}]_vars
=============================================================================
