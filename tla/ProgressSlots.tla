---------------------------- MODULE ProgressSlots ----------------------------
(* The save progress array of src/persistence/persistence_format.c, slot   *)
(* by slot: what its contents mean.  Module ProgressFormat checks that the *)
(* loop over the bits computes this.                                       *)
EXTENDS Integers

CONSTANT NSlots   \* PWMK_PROGRESS_BIT_COUNT / 2

Slot == 0 .. NSlots - 1

\* The 2-bit values 11, 01, 00 and 10.
SlotValue == {"unused", "started", "done", "broken"}

\* Number of completed slots before the first other one.
CompletedCount(p) ==
    CHOOSE n \in 0 .. NSlots :
        /\ \A i \in Slot : i < n => p[i] = "done"
        /\ n < NSlots => p[n] # "done"

\* Saves use the slots in order, so what follows the first unfinished slot
\* must be unused, and only that slot may be started.
ProgressState(p) ==
    LET n == CompletedCount(p) IN
    IF n < NSlots /\ (p[n] = "broken" \/ \E i \in Slot : i > n /\ p[i] # "unused")
    THEN "dirty"
    ELSE IF n < NSlots /\ p[n] = "started" THEN "in_progress"
    ELSE IF n = 0 THEN "empty" ELSE "complete"
=============================================================================
