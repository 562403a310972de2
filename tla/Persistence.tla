----------------------------- MODULE Persistence -----------------------------
(***************************************************************************)
(* Saving and restoring the dynamic keymap: src/settings/settings.c over   *)
(* src/persistence/persistence.c over src/persistence/persistence_flash.c. *)
(*                                                                         *)
(* One action is one flash operation (one flash_safe_execute) with the     *)
(* code that runs from the previous one to it, so power can go between any *)
(* two.  Flash is NOR: programming clears bits, only an erase sets them,   *)
(* and a failing operation leaves any part of its bits written.  A power   *)
(* loss in the middle of an operation leaves flash as one of its failing   *)
(* outcomes does, so it is the failing outcome followed by PowerLoss.      *)
(*                                                                         *)
(* The bits and bytes are the subject of modules ProgressFormat and        *)
(* LogFormat; here a slot is its 2-bit value by name and a record is the   *)
(* key it rewrites, with the place and number of its bytes.                *)
(***************************************************************************)
EXTENDS ProgressSlots, Sequences

CONSTANTS
    Keys,         \* positions of the keymap (KEYMAP_ENTRY_COUNT entries)
    Codes,        \* valid internal keycodes
    Garbage,      \* any other content: erased, torn or foreign bytes
    Builds,       \* firmware serial numbers, one per profile build
    NoBuild,      \* an erased or torn serial number
    Default,      \* the keymap compiled in (keymap_reset)
    LogSize,      \* bytes of the log area
    RecordSizes   \* RecordSizes[k]: sizes a record that rewrites k may have

ASSUME StorageAssumption ==
    /\ Garbage \notin Codes
    /\ NoBuild \notin Builds
    /\ Default \in [Keys -> Codes]
    /\ NSlots \in Nat \ {0}
    /\ LogSize \in Nat
    /\ RecordSizes \in [Keys -> SUBSET (Nat \ {0})]

VARIABLES
    marker,       \* flash: is the "PWMK" marker whole?
    serial,       \* flash: serial number of the build that wrote the region
    progress,     \* flash: the 2-bit save progress slots
    built,        \* flash: the base image
    log,          \* flash: the records after the base image
    firmware,     \* serial number compiled into the running firmware
    pc,           \* flash operation the running call is at
    ram,          \* settings_state.dynamic_keymap
    available,    \* persistence_state.available
    unavailable,  \* settings.c's persistence_unavailable
    savedCount,   \* persistence_state.completed_save_count
    logUsed,      \* persistence_state.log_used_size
    record,       \* the record commit is appending
    result        \* what the last settings update returned

flash == <<marker, serial, progress, built, log>>
cpu == <<pc, ram, available, unavailable, savedCount, logUsed, record, result>>
vars == <<flash, firmware, cpu>>

Keymap == [Keys -> Codes]
Content == Codes \cup {Garbage}
LogRecord == [pos : Nat, size : Nat, key : Keys, code : Content]
NoRecord == [key |-> Garbage, size |-> 0]
Rebuilding == {"erase", "marker", "serial", "start", "data", "finish"}
Appending == {"log_start", "log_data", "log_done"}

-----------------------------------------------------------------------------
(* Reading the region.                                                     *)

\* Where the first n records of l end, when they lie one after the other.
LogEnd(l, n) == IF n = 0 THEN 0 ELSE l[n].pos + l[n].size

\* Exactly n records from the start of the area, erased bytes behind them.
Replayable(l, n) ==
    /\ Len(l) = n
    /\ \A i \in 1 .. n : /\ l[i].pos = LogEnd(l, i - 1)
                         /\ LogEnd(l, i) <= LogSize

LastWrite(l, k, i) ==
    /\ l[i].key = k
    /\ \A j \in 1 .. Len(l) : j > i => l[j].key # k

\* Records apply in order, so the last one of a key decides.
Replay(b, l) ==
    [k \in Keys |->
        IF \E i \in 1 .. Len(l) : LastWrite(l, k, i)
        THEN l[CHOOSE i \in 1 .. Len(l) : LastWrite(l, k, i)].code
        ELSE b[k]]

\* The region holds a finished image of some build ...
Whole ==
    /\ marker
    /\ serial \in Builds
    /\ ProgressState(progress) = "complete"
    /\ Replayable(log, CompletedCount(progress) - 1)

\* Mutated forms of Restorable: the restore skips a check.
RestorableAnyProgress ==
    /\ marker
    /\ serial = firmware
    /\ Replayable(log, Len(log))

RestorableAnySerial ==
    /\ marker
    /\ ProgressState(progress) = "complete"
    /\ Replayable(log, CompletedCount(progress) - 1)

\* ... and persistence_restore accepts it if the build is the running one.
Restorable ==
    /\ marker
    /\ serial = firmware
    /\ ProgressState(progress) = "complete"
    /\ Replayable(log, CompletedCount(progress) - 1)

Stored == Replay(built, log)

CanAppend(count, used, size) ==
    /\ count < NSlots
    /\ used <= LogSize
    /\ size <= LogSize - used

-----------------------------------------------------------------------------
ErasedProgress == [i \in Slot |-> "unused"]
ErasedImage == [k \in Keys |-> Garbage]

Init ==
    /\ marker = FALSE /\ serial = NoBuild
    /\ progress = ErasedProgress /\ built = ErasedImage /\ log = <<>>
    /\ firmware \in Builds
    /\ pc = "off" /\ ram = Default
    /\ available = FALSE /\ unavailable = FALSE
    /\ savedCount = 0 /\ logUsed = 0
    /\ record = NoRecord /\ result = "none"

\* At boot no settings call is waiting for a result.
Return(r) == result' = IF result = "saving" THEN r ELSE result

Continue(next) ==
    /\ pc' = next
    /\ UNCHANGED <<firmware, ram, available, unavailable, savedCount, logUsed,
                   record, result>>

\* Mutated form of Fail: the settings do not learn that the save failed.
FailUnnoticed ==
    /\ pc' = "idle"
    /\ available' = FALSE /\ UNCHANGED unavailable
    /\ record' = NoRecord
    /\ Return("ram_only")
    /\ UNCHANGED <<firmware, ram, savedCount, logUsed>>

\* persistence_commit or persistence_rebuild returns false.
Fail ==
    /\ pc' = "idle"
    /\ available' = FALSE /\ unavailable' = TRUE
    /\ record' = NoRecord
    /\ Return("ram_only")
    /\ UNCHANGED <<firmware, ram, savedCount, logUsed>>

\* They return true, with the counters of the image now in flash.
Succeed(count, used) ==
    /\ pc' = "idle"
    /\ available' = TRUE
    /\ savedCount' = count /\ logUsed' = used
    /\ record' = NoRecord
    /\ Return("persisted")
    /\ UNCHANGED <<firmware, ram, unavailable>>

-----------------------------------------------------------------------------
(* persistence_rebuild: six flash operations in a row.                     *)

\* The sectors are erased from the first, which holds the header, progress
\* and base image.  An interrupted erase that changes the first sector at
\* all is taken to destroy the marker.
EraseAll ==
    /\ pc = "erase"
    /\ \/ /\ marker' = FALSE /\ serial' = NoBuild
          /\ progress' = ErasedProgress /\ built' = ErasedImage /\ log' = <<>>
          /\ Continue("marker") \/ Fail
       \/ /\ marker' = FALSE /\ serial' = NoBuild
          /\ progress' = ErasedProgress /\ built' = ErasedImage
          /\ Fail /\ UNCHANGED log
       \/ /\ marker' = FALSE
          /\ Fail /\ UNCHANGED <<serial, progress, built, log>>
       \/ Fail /\ UNCHANGED flash

WriteMarker ==
    /\ pc = "marker"
    /\ \/ marker' = TRUE /\ Continue("serial")
       \/ marker' \in BOOLEAN /\ Fail
    /\ UNCHANGED <<serial, progress, built, log>>

WriteSerial ==
    /\ pc = "serial"
    /\ \/ serial' = firmware /\ Continue("start")
       \/ serial' \in {firmware, NoBuild} /\ Fail
    /\ UNCHANGED <<marker, progress, built, log>>

\* Mutated form of StartSlot: both bits are cleared before the data is there.
StartSlotMarksDone(slot, next) ==
    IF progress[slot] = "unused"
    THEN \/ progress' = [progress EXCEPT ![slot] = "done"] /\ Continue(next)
         \/ progress' \in {progress, [progress EXCEPT ![slot] = "done"]} /\ Fail
    ELSE Fail /\ UNCHANGED progress

\* _persistence_update_progress clears one bit, so it happens or it does not.
StartSlot(slot, next) ==
    IF progress[slot] = "unused"
    THEN \/ progress' = [progress EXCEPT ![slot] = "started"] /\ Continue(next)
         \/ progress' \in {progress, [progress EXCEPT ![slot] = "started"]} /\ Fail
    ELSE Fail /\ UNCHANGED progress

\* The completed count is read back before the save is believed.
FinishSlot(slot, used) ==
    LET done == [progress EXCEPT ![slot] = "done"] IN
    IF progress[slot] = "started"
    THEN \/ /\ progress' = done
            /\ IF ProgressState(done) = "complete" /\ CompletedCount(done) = slot + 1
               THEN Succeed(slot + 1, used)
               ELSE Fail
         \/ progress' \in {progress, done} /\ Fail
    ELSE Fail /\ UNCHANGED progress

StartRebuild ==
    /\ pc = "start"
    /\ StartSlot(0, "data")
    /\ UNCHANGED <<marker, serial, built, log>>

WriteImage ==
    /\ pc = "data"
    /\ \/ built' = ram /\ Continue("finish")
       \/ \E S \in SUBSET Keys :
             built' = [k \in Keys |-> IF k \in S THEN ram[k] ELSE Garbage] /\ Fail
    /\ UNCHANGED <<marker, serial, progress, log>>

FinishRebuild ==
    /\ pc = "finish"
    /\ FinishSlot(0, 0)
    /\ UNCHANGED <<marker, serial, built, log>>

-----------------------------------------------------------------------------
(* persistence_commit: read the saved image back, find what changed, and   *)
(* append one record, or rebuild when a slot or the space is missing.      *)

Changed == {k \in Keys : Stored[k] # ram[k]}

\* Mutated form of Commit: a full log is not rebuilt.
CommitOnlyAppends ==
    /\ pc = "commit"
    /\ IF ~available \/ ~Restorable
       THEN Fail
       ELSE LET count == CompletedCount(progress)
                used == LogEnd(log, count - 1)
            IN \E k \in Changed : \E size \in RecordSizes[k] :
                 /\ CanAppend(count, used, size)
                 /\ savedCount' = count /\ logUsed' = used
                 /\ pc' = "log_start" /\ available' = TRUE
                 /\ record' = [key |-> k, size |-> size]
                 /\ UNCHANGED <<firmware, ram, unavailable, result>>
    /\ UNCHANGED flash

Commit ==
    /\ pc = "commit"
    /\ IF ~available \/ ~Restorable
       THEN Fail
       ELSE LET count == CompletedCount(progress)
                used == LogEnd(log, count - 1)
            IN IF Changed = {}
               THEN Succeed(count, used)
               ELSE \E k \in Changed : \E size \in RecordSizes[k] :
                      /\ savedCount' = count /\ logUsed' = used
                      /\ IF CanAppend(count, used, size)
                         THEN /\ pc' = "log_start" /\ available' = TRUE
                              /\ record' = [key |-> k, size |-> size]
                         ELSE /\ pc' = "erase" /\ available' = FALSE
                              /\ record' = NoRecord
                      /\ UNCHANGED <<firmware, ram, unavailable, result>>
    /\ UNCHANGED flash

StartRecord ==
    /\ pc = "log_start"
    /\ StartSlot(savedCount, "log_data")
    /\ UNCHANGED <<marker, serial, built, log>>

\* A torn record may hold anything; no record at all is one of the outcomes.
WriteRecord ==
    LET rec(c) == [pos |-> logUsed, size |-> record.size, key |-> record.key, code |-> c]
    IN /\ pc = "log_data"
       /\ \/ log' = Append(log, rec(ram[record.key])) /\ Continue("log_done")
          \/ \E c \in {ram[record.key], Garbage} : log' = Append(log, rec(c)) /\ Fail
          \/ Fail /\ UNCHANGED log
       /\ UNCHANGED <<marker, serial, progress, built>>

FinishRecord ==
    /\ pc = "log_done"
    /\ FinishSlot(savedCount, logUsed + record.size)
    /\ UNCHANGED <<marker, serial, built, log>>

-----------------------------------------------------------------------------
(* settings.c                                                              *)

\* settings_init: the default keymap, then the saved one if it is usable.
PowerOn ==
    /\ pc = "off"
    /\ IF Restorable
       THEN /\ ram' = Stored /\ pc' = "idle" /\ available' = TRUE
            /\ savedCount' = CompletedCount(progress)
            /\ logUsed' = LogEnd(log, Len(log))
       ELSE /\ ram' = Default /\ pc' = "erase" /\ available' = FALSE
            /\ UNCHANGED <<savedCount, logUsed>>
    /\ UNCHANGED <<flash, firmware, unavailable, record, result>>

\* Mutated form of SaveBy: a failed save is simply tried again.
SaveByRetrying(first) ==
    /\ result' = "saving" /\ pc' = first
    /\ available' = IF first = "erase" THEN FALSE ELSE available

\* _settings_persist_current_state, _settings_rebuild_current_state
SaveBy(first) ==
    IF unavailable
    THEN result' = "ram_only" /\ UNCHANGED <<pc, available>>
    ELSE /\ result' = "saving" /\ pc' = first
         /\ available' = IF first = "erase" THEN FALSE ELSE available

UnchangedResult == IF unavailable THEN "ram_only" ELSE "persisted"

SetKeycode(k, c) ==
    /\ pc = "idle"
    /\ IF ram[k] = c
       THEN result' = UnchangedResult /\ UNCHANGED <<pc, ram, available>>
       ELSE ram' = [ram EXCEPT ![k] = c] /\ SaveBy("commit")
    /\ UNCHANGED <<flash, firmware, unavailable, savedCount, logUsed, record>>

\* A position without a key, or a keycode code_icode_is_valid refuses.
SetRefused ==
    /\ pc = "idle"
    /\ result' = "failed"
    /\ UNCHANGED <<flash, firmware, pc, ram, available, unavailable, savedCount,
                   logUsed, record>>

\* Mutated form of ResetKeymap: the reset is saved as log records.
ResetKeymapByCommit ==
    /\ pc = "idle"
    /\ IF ram = Default
       THEN result' = UnchangedResult /\ UNCHANGED <<pc, ram, available>>
       ELSE ram' = Default /\ SaveBy("commit")
    /\ UNCHANGED <<flash, firmware, unavailable, savedCount, logUsed, record>>

ResetKeymap ==
    /\ pc = "idle"
    /\ IF ram = Default
       THEN result' = UnchangedResult /\ UNCHANGED <<pc, ram, available>>
       ELSE ram' = Default /\ SaveBy("erase")
    /\ UNCHANGED <<flash, firmware, unavailable, savedCount, logUsed, record>>

PowerLoss ==
    /\ pc # "off"
    /\ pc' = "off" /\ ram' = Default
    /\ available' = FALSE /\ unavailable' = FALSE
    /\ savedCount' = 0 /\ logUsed' = 0
    /\ record' = NoRecord /\ result' = "none"
    /\ UNCHANGED <<flash, firmware>>

\* Another build is flashed over the program area; the region stays.
Reflash(b) ==
    /\ pc = "off"
    /\ firmware' = b
    /\ UNCHANGED <<flash, cpu>>

SaveStep ==
    \/ EraseAll \/ WriteMarker \/ WriteSerial
    \/ StartRebuild \/ WriteImage \/ FinishRebuild
    \/ Commit \/ StartRecord \/ WriteRecord \/ FinishRecord

Next ==
    \/ SaveStep
    \/ PowerOn \/ PowerLoss
    \/ \E k \in Keys, c \in Codes : SetKeycode(k, c)
    \/ SetRefused \/ ResetKeymap
    \/ \E b \in Builds : Reflash(b)

Spec == Init /\ [][Next]_vars

\* A save is straight-line code: it goes on unless power is lost.
FairSpec == Spec /\ WF_vars(SaveStep)

-----------------------------------------------------------------------------
(* Properties.                                                             *)

\* Types; above all, the keymap in RAM never holds erased or torn bytes.
TypeOK ==
    /\ marker \in BOOLEAN /\ serial \in Builds \cup {NoBuild}
    /\ progress \in [Slot -> SlotValue]
    /\ built \in [Keys -> Content] /\ log \in Seq(LogRecord)
    /\ firmware \in Builds
    /\ pc \in {"off", "idle", "commit"} \cup Rebuilding \cup Appending
    /\ ram \in Keymap
    /\ available \in BOOLEAN /\ unavailable \in BOOLEAN
    /\ savedCount \in Nat /\ logUsed \in Nat
    /\ pc \in Appending => record \in [key : Keys, size : Nat]
    /\ result \in {"none", "saving", "persisted", "ram_only", "failed"}

\* Between calls, a component that has not reported RAM_ONLY holds in RAM
\* exactly the keymap a reboot would restore, and its counters of slots and
\* log bytes are those of flash.
PersistedIsDurable ==
    pc = "idle" /\ ~unavailable =>
        /\ available
        /\ Restorable /\ Stored = ram
        /\ savedCount = CompletedCount(progress)
        /\ logUsed = LogEnd(log, Len(log))

\* Whatever operation power loss or a flash error cuts short, a region that
\* the restore checks accept holds a keymap without a single torn entry.
WholeImage == Whole => Stored \in Keymap

\* When commit compares the saved image with RAM, exactly the key that was
\* set differs: one log record always carries the whole change, so the loop
\* over 255-byte chunks never leaves an image half updated.
CommitChangesOneKey ==
    pc = "commit" => Restorable /\ \E k \in Keys : Changed = {k}

\* A failed save is final: until the next boot no operation touches flash,
\* so what the failure left is what the next boot judges.
FrozenAfterFailure == [][unavailable => UNCHANGED flash]_vars

\* A settings call or a boot that started saving comes to an end.
SaveSettles == pc \notin {"off", "idle"} ~> pc \in {"off", "idle"}


\* The region as a caller of settings sees it, and the promise it implements.
StatusOf ==
    IF pc = "off" THEN "off"
    ELSE IF pc # "idle" THEN "saving"
    ELSE IF unavailable THEN "ram_only" ELSE "persisted"

StoredCopy ==
    IF Whole THEN [whole |-> TRUE, by |-> serial, map |-> Stored]
    ELSE [whole |-> FALSE]

Store == INSTANCE KeymapStore
    WITH up <- pc # "off", build <- firmware, live <- ram,
         stored <- StoredCopy, status <- StatusOf

\* Every flash operation, boot, failure and power loss is a step of the
\* abstract store or leaves it unchanged.
ImplementsStore == Store!StoreSpec
=============================================================================
