-------------------------- MODULE PersistenceProofs --------------------------
(* Proofs about Persistence for any keymap, any set of builds, any number  *)
(* of progress slots and any log size; then about FlashPages, which says   *)
(* what a flash operation of Persistence is.                               *)
EXTENDS Persistence, FlashPages, NaturalSets, SequenceTheorems, TLAPS

\* The first n slots are done, slot n holds s, the rest are unused: the only
\* arrangement of progress slots the code ever produces.
Filled(p, n, s) ==
    \A i \in Slot :
        p[i] = IF i < n THEN "done" ELSE IF i = n THEN s ELSE "unused"

Clean == built \in Keymap /\ \A i \in 1 .. Len(log) : log[i].code \in Codes

\* Whatever was cut short: a marked region whose slots are all finished
\* holds a clean chain of records, one for each slot after the first.
FlashInv ==
    \E n \in 0 .. NSlots, s \in {"unused", "started"} :
        /\ Filled(progress, n, s)
        /\ marker /\ n > 0 /\ s = "unused" => Clean /\ Replayable(log, n - 1)
        /\ n = NSlots => s = "unused"

\* Flash and the counters in RAM agree and the next record has its place.
Ready ==
    /\ marker /\ serial = firmware
    /\ savedCount \in 1 .. NSlots
    /\ Filled(progress, savedCount, "unused")
    /\ Replayable(log, savedCount - 1)
    /\ logUsed = LogEnd(log, savedCount - 1)
    /\ Clean

\* A record is being appended: s is the value of its slot, n the number of
\* records in the log.
Adding(s, n) ==
    /\ marker /\ serial = firmware
    /\ savedCount \in 1 .. NSlots - 1
    /\ Filled(progress, savedCount, s)
    /\ Replayable(log, n)
    /\ Clean
    /\ logUsed = LogEnd(log, savedCount - 1)
    /\ logUsed + record.size <= LogSize
    /\ \A k \in Keys \ {record.key} : Stored[k] = ram[k]

\* A rebuild is under way: m, f and s tell whether the marker and the serial
\* number are written and what the first slot holds.
Building(m, f, s) ==
    /\ marker = m
    /\ f => serial = firmware
    /\ Filled(progress, 0, s)
    /\ log = <<>>

PhaseInv ==
    /\ pc # "idle" => ~unavailable
    /\ pc \in Appending => available
    /\ pc = "idle" /\ ~unavailable => available /\ Ready /\ Stored = ram
    /\ pc = "commit" => available /\ Ready /\ \E k \in Keys : Changed = {k}
    /\ pc = "log_start" => Adding("unused", savedCount - 1)
    /\ pc = "log_data" => Adding("started", savedCount - 1)
    /\ pc = "log_done" => Adding("started", savedCount) /\ Stored = ram
                          /\ LogEnd(log, savedCount) = logUsed + record.size
    /\ pc = "marker" => Building(FALSE, FALSE, "unused")
    /\ pc = "serial" => Building(TRUE, FALSE, "unused")
    /\ pc = "start" => Building(TRUE, TRUE, "unused")
    /\ pc = "data" => Building(TRUE, TRUE, "started")
    /\ pc = "finish" => Building(TRUE, TRUE, "started") /\ built = ram

IInv == TypeOK /\ FlashInv /\ PhaseInv

-----------------------------------------------------------------------------
(* Progress slots.                                                         *)

\* persistence_format_progress_analyze counts exactly the finished slots.
LEMMA FilledCount ==
    ASSUME NEW p, NEW n \in 0 .. NSlots, NEW s \in {"unused", "started"},
           Filled(p, n, s)
    PROVE  CompletedCount(p) = n
<1> DEFINE P(m) == /\ \A i \in Slot : i < m => p[i] = "done"
                   /\ m < NSlots => p[m] # "done"
<1>1. P(n)
  BY StorageAssumption DEF Filled, Slot
<1>2. ASSUME NEW m \in 0 .. NSlots, P(m)
      PROVE  m = n
  <2>1. CASE m < n
    BY <1>2, <2>1, StorageAssumption DEF Filled, Slot
  <2>2. CASE n < m
    BY <1>2, <2>2, StorageAssumption DEF Filled, Slot
  <2>3. QED
    BY <2>1, <2>2, StorageAssumption
<1>3. QED
  BY <1>1, <1>2 DEF CompletedCount

\* Its verdict on such an array depends on the count and the next slot only.
LEMMA FilledState ==
    ASSUME NEW p, NEW n \in 0 .. NSlots, NEW s \in {"unused", "started"},
           Filled(p, n, s)
    PROVE  ProgressState(p) = IF n < NSlots /\ s = "started" THEN "in_progress"
                              ELSE IF n = 0 THEN "empty" ELSE "complete"
<1>1. CompletedCount(p) = n
  BY FilledCount
<1>2. \A i \in Slot : i > n => p[i] = "unused"
  BY StorageAssumption DEF Filled, Slot
<1>3. n < NSlots => p[n] = s
  BY StorageAssumption DEF Filled, Slot
<1>4. QED
  BY <1>1, <1>2, <1>3 DEF ProgressState

-----------------------------------------------------------------------------
(* The log.                                                                *)

\* One record more rewrites its key and nothing else.
LEMMA ReplayAppend ==
    ASSUME NEW b \in [Keys -> Content], NEW l \in Seq(LogRecord),
           NEW r \in LogRecord
    PROVE  Replay(b, Append(l, r)) = [Replay(b, l) EXCEPT ![r.key] = r.code]
<1> DEFINE e == Append(l, r)
           n == Len(l)
<1>1. /\ n \in Nat /\ Len(e) = n + 1 /\ e[n + 1] = r
      /\ \A i \in 1 .. n : e[i] = l[i]
  OBVIOUS
<1>2. r.key \in Keys
  BY DEF LogRecord
<1> HIDE DEF e, n
<1>3. ASSUME NEW k \in Keys
      PROVE  Replay(b, e)[k] = IF k = r.key THEN r.code ELSE Replay(b, l)[k]
  <2>1. CASE k = r.key
    <3>1. \A i \in 1 .. Len(e) : LastWrite(e, k, i) <=> i = n + 1
      BY <1>1, <2>1 DEF LastWrite
    <3>2. QED
      BY <1>1, <2>1, <3>1 DEF Replay
  <2>2. CASE k # r.key
    <3>1. \A i \in 1 .. Len(e) : LastWrite(e, k, i) <=> i \in 1 .. n /\ LastWrite(l, k, i)
      BY <1>1, <2>2 DEF LastWrite, n
    <3>2. (CHOOSE i \in 1 .. Len(e) : LastWrite(e, k, i))
            = CHOOSE i \in 1 .. n : LastWrite(l, k, i)
      BY <1>1, <3>1
    <3>3. (\E i \in 1 .. Len(e) : LastWrite(e, k, i))
            <=> \E i \in 1 .. n : LastWrite(l, k, i)
      BY <1>1, <3>1
    <3>4. QED
      BY <1>1, <2>2, <3>2, <3>3 DEF Replay, n
  <2>3. QED
    BY <2>1, <2>2
<1>4. QED
  BY <1>2, <1>3 DEF Replay, e

\* A clean region replays to a keymap of valid codes.
LEMMA ReplayClean ==
    ASSUME NEW b \in Keymap, NEW l \in Seq(LogRecord),
           \A i \in 1 .. Len(l) : l[i].code \in Codes
    PROVE  Replay(b, l) \in Keymap
  BY DEF Replay, Keymap

LEMMA ReplayEmpty ==
    ASSUME NEW b \in [Keys -> Content]
    PROVE  Replay(b, <<>>) = b
  BY DEF Replay

\* A record written where the chain ends makes the chain one longer.
LEMMA ChainAppend ==
    ASSUME NEW l \in Seq(LogRecord), NEW r \in LogRecord, NEW n \in Nat,
           Replayable(l, n), r.pos = LogEnd(l, n), r.pos + r.size <= LogSize
    PROVE  /\ Replayable(Append(l, r), n + 1)
           /\ LogEnd(Append(l, r), n + 1) = r.pos + r.size
<1> DEFINE e == Append(l, r)
<1>1. /\ Len(l) = n /\ Len(e) = n + 1 /\ e[n + 1] = r
      /\ \A i \in 1 .. n : e[i] = l[i]
  BY DEF Replayable
<1> HIDE DEF e
<1>2. \A i \in 0 .. n : LogEnd(e, i) = LogEnd(l, i)
  BY <1>1 DEF LogEnd
<1>3. LogEnd(e, n + 1) = r.pos + r.size
  BY <1>1 DEF LogEnd
<1>4. ASSUME NEW i \in 1 .. n + 1
      PROVE  e[i].pos = LogEnd(e, i - 1) /\ LogEnd(e, i) <= LogSize
  <2>1. CASE i \in 1 .. n
    BY <1>1, <1>2, <2>1 DEF Replayable
  <2>2. CASE i = n + 1
    BY <1>1, <1>2, <1>3, <2>2
  <2>3. QED
    BY <2>1, <2>2
<1>5. QED
  BY <1>1, <1>3, <1>4 DEF Replayable, e

-----------------------------------------------------------------------------
(* Reading flash in a reachable state.                                     *)

\* What the restore checks accept has one finished slot per record, plus one
\* for the base image, and not a torn entry.
LEMMA ReadComplete ==
    ASSUME FlashInv, marker, ProgressState(progress) = "complete"
    PROVE  \E n \in 1 .. NSlots :
               /\ Filled(progress, n, "unused") /\ CompletedCount(progress) = n
               /\ Clean /\ Replayable(log, n - 1)
<1>1. PICK n \in 0 .. NSlots, s \in {"unused", "started"} :
          /\ Filled(progress, n, s)
          /\ marker /\ n > 0 /\ s = "unused" => Clean /\ Replayable(log, n - 1)
          /\ n = NSlots => s = "unused"
  BY DEF FlashInv
<1>2. n > 0 /\ s = "unused"
  BY <1>1, FilledState, StorageAssumption
<1>3. CompletedCount(progress) = n
  BY <1>1, FilledCount
<1>4. QED
  BY <1>1, <1>2, <1>3, StorageAssumption

\* A region that agrees with the counters passes the restore checks.
LEMMA ReadyRestorable ==
    ASSUME Ready
    PROVE  /\ Restorable
           /\ CompletedCount(progress) = savedCount
           /\ Len(log) = savedCount - 1
<1>1. CompletedCount(progress) = savedCount /\ ProgressState(progress) = "complete"
  BY FilledCount, FilledState, StorageAssumption DEF Ready
<1>2. QED
  BY <1>1 DEF Ready, Restorable, Replayable

\* One started slot anywhere keeps the region from being accepted.
LEMMA FilledRejected ==
    ASSUME NEW n \in 0 .. NSlots, NEW s \in {"unused", "started"},
           Filled(progress, n, s), n = 0 \/ (n < NSlots /\ s = "started")
    PROVE  ~Whole /\ ~Restorable
  BY FilledState, StorageAssumption DEF Whole, Restorable

\* Clearing the first bit of slot n, and then its second.
LEMMA FilledStart ==
    ASSUME NEW p \in [Slot -> SlotValue], NEW n \in Slot, Filled(p, n, "unused")
    PROVE  p[n] = "unused" /\ Filled([p EXCEPT ![n] = "started"], n, "started")
  BY StorageAssumption DEF Filled, Slot

LEMMA FilledDone ==
    ASSUME NEW p \in [Slot -> SlotValue], NEW n \in Slot, Filled(p, n, "started")
    PROVE  p[n] = "started" /\ Filled([p EXCEPT ![n] = "done"], n + 1, "unused")
  BY StorageAssumption DEF Filled, Slot

-----------------------------------------------------------------------------
(* The invariant is inductive.                                             *)

LEMMA InitInv == Init => IInv
<1> SUFFICES ASSUME Init PROVE IInv
  OBVIOUS
<1> USE StorageAssumption
<1>1. TypeOK
  BY DEF Init, TypeOK, ErasedProgress, ErasedImage, Content, Keymap, Slot,
         SlotValue, Rebuilding, Appending
<1>2. FlashInv
  <2>1. Filled(progress, 0, "unused") /\ ~marker
    BY DEF Init, Filled, ErasedProgress, Slot
  <2>2. QED
    BY <2>1 DEF FlashInv
<1>3. PhaseInv
  BY DEF Init, PhaseInv, Appending
<1>4. QED
  BY <1>1, <1>2, <1>3 DEF IInv

\* A failing call leaves an idle component that has given up on flash.
LEMMA FailPhase ==
    ASSUME IInv, Fail
    PROVE  /\ PhaseInv'
           /\ pc' = "idle" /\ pc' \notin Appending
           /\ UNCHANGED <<firmware, ram, savedCount, logUsed>>
           /\ available' \in BOOLEAN /\ unavailable' \in BOOLEAN
           /\ result' \in {"none", "saving", "persisted", "ram_only", "failed"}
  BY DEF IInv, TypeOK, PhaseInv, Fail, Return, Appending

LEMMA EraseAllInv == IInv /\ EraseAll => IInv'
<1> SUFFICES ASSUME IInv, EraseAll PROVE IInv'
  OBVIOUS
<1> USE StorageAssumption
<1>1. marker' = FALSE \/ UNCHANGED flash
  BY DEF EraseAll
<1>2. progress' = ErasedProgress \/ UNCHANGED progress
  BY DEF EraseAll, flash
<1>3. FlashInv'
  <2>1. CASE UNCHANGED flash
    BY <2>1 DEF IInv, FlashInv, Filled, Clean, Replayable, LogEnd, flash
  <2>2. CASE marker' = FALSE /\ progress' = ErasedProgress
    <3>1. Filled(progress', 0, "unused")
      BY <2>2 DEF Filled, ErasedProgress, Slot
    <3>2. QED
      BY <2>2, <3>1 DEF FlashInv
  <2>3. CASE marker' = FALSE /\ UNCHANGED progress
    BY <2>3 DEF IInv, FlashInv
  <2>4. QED
    BY <1>1, <1>2, <2>1, <2>2, <2>3
<1>4. /\ marker' \in BOOLEAN /\ serial' \in Builds \cup {NoBuild}
      /\ progress' \in [Slot -> SlotValue]
      /\ built' \in [Keys -> Content] /\ log' \in Seq(LogRecord)
  <2>1. marker' \in BOOLEAN /\ serial' \in Builds \cup {NoBuild}
    BY DEF EraseAll, IInv, TypeOK, flash
  <2>2. progress' \in [Slot -> SlotValue]
    BY DEF EraseAll, IInv, TypeOK, flash, ErasedProgress, SlotValue
  <2>3. built' \in [Keys -> Content]
    BY DEF EraseAll, IInv, TypeOK, flash, ErasedImage, Content
  <2>4. log' \in Seq(LogRecord)
    <3>1. log' = <<>> \/ log' = log
      BY DEF EraseAll, flash
    <3>2. <<>> \in Seq(LogRecord) /\ log \in Seq(LogRecord)
      BY DEF IInv, TypeOK
    <3>3. QED
      BY <3>1, <3>2
  <2>5. QED
    BY <2>1, <2>2, <2>3, <2>4
<1>5. CASE Fail
  BY <1>3, <1>4, <1>5, FailPhase DEF IInv, TypeOK
<1>6. CASE /\ marker' = FALSE /\ progress' = ErasedProgress /\ log' = <<>>
           /\ Continue("marker")
  <2>1. TypeOK'
    BY <1>4, <1>6 DEF IInv, TypeOK, Continue, Rebuilding, Appending
  <2>2. Filled(progress', 0, "unused")
    BY <1>6 DEF Filled, ErasedProgress, Slot
  <2>3. PhaseInv'
    BY <1>6, <2>2 DEF EraseAll, IInv, PhaseInv, Continue, Building, Appending, Rebuilding
  <2>4. QED
    BY <1>3, <2>1, <2>3 DEF IInv
<1>7. QED
  BY <1>5, <1>6 DEF EraseAll

LEMMA WriteMarkerInv == IInv /\ WriteMarker => IInv'
<1> SUFFICES ASSUME IInv, WriteMarker PROVE IInv'
  OBVIOUS
<1> USE StorageAssumption
<1>1. Filled(progress, 0, "unused") /\ log = <<>>
  BY DEF WriteMarker, IInv, PhaseInv, Building
<1>2. /\ marker' \in BOOLEAN /\ UNCHANGED <<serial, progress, built, log>>
  BY DEF WriteMarker
<1>3. FlashInv'
  BY <1>1, <1>2 DEF FlashInv
<1>4. CASE Fail
  BY <1>2, <1>3, <1>4, FailPhase DEF IInv, TypeOK
<1>5. CASE marker' = TRUE /\ Continue("serial")
  <2>1. TypeOK'
    BY <1>2, <1>5 DEF IInv, TypeOK, Continue, Rebuilding, Appending
  <2>2. PhaseInv'
    BY <1>1, <1>2, <1>5 DEF WriteMarker, IInv, PhaseInv, Continue, Building,
                            Appending, Rebuilding
  <2>3. QED
    BY <1>3, <2>1, <2>2 DEF IInv
<1>6. QED
  BY <1>4, <1>5 DEF WriteMarker

LEMMA WriteSerialInv == IInv /\ WriteSerial => IInv'
<1> SUFFICES ASSUME IInv, WriteSerial PROVE IInv'
  OBVIOUS
<1> USE StorageAssumption
<1>1. Filled(progress, 0, "unused") /\ log = <<>> /\ marker = TRUE
  BY DEF WriteSerial, IInv, PhaseInv, Building
<1>2. serial' \in {firmware, NoBuild} /\ UNCHANGED <<marker, progress, built, log>>
  BY DEF WriteSerial
<1>3. FlashInv'
  BY <1>1, <1>2 DEF FlashInv
<1>4. CASE Fail
  BY <1>2, <1>3, <1>4, FailPhase DEF IInv, TypeOK
<1>5. CASE serial' = firmware /\ Continue("start")
  <2>1. TypeOK'
    BY <1>2, <1>5 DEF IInv, TypeOK, Continue, Rebuilding, Appending
  <2>2. PhaseInv'
    BY <1>1, <1>2, <1>5 DEF WriteSerial, IInv, PhaseInv, Continue, Building,
                            Appending, Rebuilding
  <2>3. QED
    BY <1>3, <2>1, <2>2 DEF IInv
<1>6. QED
  BY <1>4, <1>5 DEF WriteSerial

LEMMA StartRebuildInv == IInv /\ StartRebuild => IInv'
<1> SUFFICES ASSUME IInv, StartRebuild PROVE IInv'
  OBVIOUS
<1> USE StorageAssumption
<1> DEFINE started == [progress EXCEPT ![0] = "started"]
<1>1. /\ pc = "start" /\ marker = TRUE /\ serial = firmware /\ log = <<>>
      /\ Filled(progress, 0, "unused")
      /\ UNCHANGED <<marker, serial, built, log>>
  BY DEF StartRebuild, IInv, PhaseInv, Building
<1>2. /\ 0 \in Slot /\ progress \in [Slot -> SlotValue]
      /\ started \in [Slot -> SlotValue]
  BY DEF IInv, TypeOK, Slot, SlotValue
<1>3. progress[0] = "unused" /\ Filled(started, 0, "started")
  BY <1>1, <1>2, FilledStart
<1> HIDE DEF started
<1>4. \/ progress' = started /\ Continue("data")
      \/ progress' \in {progress, started} /\ Fail
  BY <1>3 DEF StartRebuild, StartSlot, started
<1>5. FlashInv'
  BY <1>1, <1>3, <1>4 DEF FlashInv
<1>6. CASE Fail
  BY <1>1, <1>2, <1>4, <1>5, <1>6, FailPhase DEF IInv, TypeOK
<1>7. CASE progress' = started /\ Continue("data")
  <2>1. TypeOK'
    BY <1>1, <1>2, <1>7 DEF IInv, TypeOK, Continue, Rebuilding, Appending
  <2>2. PhaseInv'
    BY <1>1, <1>3, <1>7 DEF IInv, PhaseInv, Continue, Building, Appending, Rebuilding
  <2>3. QED
    BY <1>5, <2>1, <2>2 DEF IInv
<1>8. QED
  BY <1>4, <1>6, <1>7

LEMMA WriteImageInv == IInv /\ WriteImage => IInv'
<1> SUFFICES ASSUME IInv, WriteImage PROVE IInv'
  OBVIOUS
<1> USE StorageAssumption
<1>1. /\ pc = "data" /\ marker = TRUE /\ serial = firmware /\ log = <<>>
      /\ Filled(progress, 0, "started")
      /\ UNCHANGED <<marker, serial, progress, log>>
  BY DEF WriteImage, IInv, PhaseInv, Building
<1>2. FlashInv'
  BY <1>1 DEF FlashInv
<1>3. ram \in [Keys -> Codes]
  BY DEF IInv, TypeOK, Keymap
<1>4. built' \in [Keys -> Content]
  BY <1>3 DEF WriteImage, Content
<1>5. CASE Fail
  BY <1>1, <1>2, <1>4, <1>5, FailPhase DEF IInv, TypeOK
<1>6. CASE built' = ram /\ Continue("finish")
  <2>1. TypeOK'
    BY <1>1, <1>4, <1>6 DEF IInv, TypeOK, Continue, Rebuilding, Appending
  <2>2. PhaseInv'
    BY <1>1, <1>6 DEF IInv, PhaseInv, Continue, Building, Appending, Rebuilding
  <2>3. QED
    BY <1>2, <2>1, <2>2 DEF IInv
<1>7. QED
  BY <1>5, <1>6 DEF WriteImage

LEMMA FinishRebuildInv == IInv /\ FinishRebuild => IInv'
<1> SUFFICES ASSUME IInv, FinishRebuild PROVE IInv'
  OBVIOUS
<1> USE StorageAssumption
<1> DEFINE done == [progress EXCEPT ![0] = "done"]
<1>1. /\ pc = "finish" /\ marker = TRUE /\ serial = firmware /\ log = <<>>
      /\ Filled(progress, 0, "started") /\ built = ram /\ ~unavailable
      /\ UNCHANGED <<marker, serial, built, log>>
  BY DEF FinishRebuild, IInv, PhaseInv, Building
<1>2. /\ 0 \in Slot /\ progress \in [Slot -> SlotValue]
      /\ done \in [Slot -> SlotValue]
  BY DEF IInv, TypeOK, Slot, SlotValue
<1>3. progress[0] = "started" /\ Filled(done, 1, "unused")
  BY <1>1, <1>2, FilledDone
<1> HIDE DEF done
<1>4. CompletedCount(done) = 1 /\ ProgressState(done) = "complete"
  BY <1>3, FilledCount, FilledState
<1>5. \/ progress' = done /\ Succeed(1, 0)
      \/ progress' \in {progress, done} /\ Fail
  BY <1>3, <1>4 DEF FinishRebuild, FinishSlot, done
<1>6. ram \in Keymap /\ built' \in Keymap /\ log' = <<>>
  BY <1>1 DEF IInv, TypeOK
<1>7. Clean' /\ Replayable(log', 0)
  BY <1>6 DEF Clean, Replayable
<1>8. FlashInv'
  <2>1. CASE progress' = done
    BY <1>3, <1>7, <2>1 DEF FlashInv
  <2>2. CASE progress' = progress
    BY <1>1, <2>2 DEF FlashInv
  <2>3. QED
    BY <1>5, <2>1, <2>2
<1>9. CASE Fail
  BY <1>1, <1>2, <1>5, <1>8, <1>9, FailPhase DEF IInv, TypeOK
<1>10. CASE progress' = done /\ Succeed(1, 0)
  <2>1. TypeOK'
    BY <1>1, <1>2, <1>10 DEF IInv, TypeOK, Succeed, Return, Rebuilding, Appending
  <2>2. Ready'
    BY <1>1, <1>3, <1>7, <1>10 DEF Ready, Succeed, LogEnd
  <2>3. Stored' = ram'
    <3>1. built \in [Keys -> Content]
      BY DEF IInv, TypeOK
    <3>2. QED
      BY <1>1, <1>10, <3>1, ReplayEmpty DEF Stored, Succeed
  <2>4. PhaseInv'
    BY <1>10, <2>2, <2>3 DEF PhaseInv, Succeed, Appending
  <2>5. QED
    BY <1>8, <2>1, <2>4 DEF IInv
<1>11. QED
  BY <1>5, <1>9, <1>10

LEMMA CommitInv == IInv /\ Commit => IInv'
<1> SUFFICES ASSUME IInv, Commit PROVE IInv'
  OBVIOUS
<1> USE StorageAssumption
<1>1. pc = "commit" /\ available /\ Ready /\ ~unavailable
  BY DEF Commit, IInv, PhaseInv
<1>2. PICK c \in Keys : Changed = {c}
  BY DEF Commit, IInv, PhaseInv
<1>3. Restorable /\ CompletedCount(progress) = savedCount /\ Len(log) = savedCount - 1
  BY <1>1, ReadyRestorable
<1>4. UNCHANGED flash
  BY DEF Commit
<1>5. PICK size \in RecordSizes[c] :
        /\ savedCount' = savedCount /\ logUsed' = LogEnd(log, savedCount - 1)
        /\ IF CanAppend(savedCount, LogEnd(log, savedCount - 1), size)
           THEN /\ pc' = "log_start" /\ available' = TRUE
                /\ record' = [key |-> c, size |-> size]
           ELSE /\ pc' = "erase" /\ available' = FALSE
                /\ record' = NoRecord
        /\ UNCHANGED <<firmware, ram, unavailable, result>>
  BY <1>1, <1>2, <1>3 DEF Commit
<1>6. size \in Nat /\ logUsed' = logUsed /\ logUsed \in Nat
  BY <1>1, <1>5 DEF Ready, IInv, TypeOK
<1>7. FlashInv'
  BY <1>4 DEF IInv, FlashInv, Filled, Clean, Replayable, LogEnd, flash
<1>8. TypeOK'
  <2>1. savedCount' \in Nat /\ logUsed' \in Nat
    BY <1>5, <1>6 DEF IInv, TypeOK
  <2>2. /\ pc' \in {"erase", "log_start"} /\ available' \in BOOLEAN
        /\ pc' = "log_start" => record' = [key |-> c, size |-> size]
    BY <1>5
  <2>3. pc' \in Appending => record' \in [key : Keys, size : Nat]
    BY <1>6, <2>2 DEF Appending
  <2>4. pc' \in {"off", "idle", "commit"} \cup Rebuilding \cup Appending
    BY <2>2 DEF Appending, Rebuilding
  <2>5. UNCHANGED <<flash, firmware, ram, unavailable, result>>
    BY <1>4, <1>5
  <2>6. QED
    BY <2>1, <2>2, <2>3, <2>4, <2>5 DEF IInv, TypeOK, flash
<1>9. PhaseInv'
  <2>1. CASE pc' = "erase"
    BY <1>1, <1>5, <2>1 DEF PhaseInv, Appending
  <2>2. CASE pc' = "log_start"
    <3>1. /\ savedCount < NSlots /\ logUsed <= LogSize /\ size <= LogSize - logUsed
          /\ record' = [key |-> c, size |-> size] /\ available'
      BY <1>5, <1>6, <2>2 DEF CanAppend
    <3>2. \A k \in Keys \ {c} : Stored[k] = ram[k]
      BY <1>2 DEF Changed
    <3>3. Stored' = Stored /\ ram' = ram
      BY <1>4, <1>5 DEF Stored, Replay, LastWrite, flash
    <3>4. logUsed + size <= LogSize
      BY <1>6, <3>1
    <3>5. savedCount \in 1 .. NSlots - 1
      BY <1>1, <3>1 DEF Ready
    <3>6. /\ marker' /\ serial' = firmware'
          /\ Filled(progress', savedCount', "unused")
          /\ Replayable(log', savedCount' - 1)
          /\ logUsed' = LogEnd(log', savedCount' - 1)
          /\ Clean'
      BY <1>1, <1>4, <1>5 DEF Ready, Filled, Replayable, LogEnd, Clean, flash
    <3>7. Adding("unused", savedCount - 1)'
      BY <1>5, <1>6, <3>1, <3>2, <3>3, <3>4, <3>5, <3>6 DEF Adding
    <3>8. QED
      BY <1>1, <1>5, <2>2, <3>1, <3>7 DEF PhaseInv, Appending
  <2>3. QED
    BY <1>5, <2>1, <2>2
<1>10. QED
  BY <1>7, <1>8, <1>9 DEF IInv

LEMMA StartRecordInv == IInv /\ StartRecord => IInv'
<1> SUFFICES ASSUME IInv, StartRecord PROVE IInv'
  OBVIOUS
<1> USE StorageAssumption
<1> DEFINE n == savedCount
           started == [progress EXCEPT ![n] = "started"]
<1>1. /\ pc = "log_start" /\ Adding("unused", n - 1) /\ ~unavailable /\ available
      /\ UNCHANGED <<marker, serial, built, log>>
  BY DEF StartRecord, IInv, PhaseInv, Appending
<1>2. /\ n \in Slot /\ n > 0 /\ progress \in [Slot -> SlotValue]
      /\ started \in [Slot -> SlotValue]
  BY <1>1 DEF Adding, IInv, TypeOK, Slot, SlotValue
<1>3. progress[n] = "unused" /\ Filled(started, n, "started")
  BY <1>1, <1>2, FilledStart DEF Adding
<1> HIDE DEF started
<1>4. \/ progress' = started /\ Continue("log_data")
      \/ progress' \in {progress, started} /\ Fail
  BY <1>3 DEF StartRecord, StartSlot, started
<1>5. FlashInv'
  <2>1. CASE progress' = started
    BY <1>2, <1>3, <2>1 DEF FlashInv, Slot
  <2>2. CASE progress' = progress
    BY <1>1, <2>2 DEF IInv, FlashInv, Clean
  <2>3. QED
    BY <1>4, <2>1, <2>2
<1>6. CASE Fail
  BY <1>1, <1>2, <1>4, <1>5, <1>6, FailPhase DEF IInv, TypeOK
<1>7. CASE progress' = started /\ Continue("log_data")
  <2>1. TypeOK'
    BY <1>1, <1>2, <1>7 DEF IInv, TypeOK, Continue, Rebuilding, Appending
  <2>2. Adding("started", n - 1)'
    BY <1>1, <1>3, <1>7 DEF Adding, Continue, Clean, Stored
  <2>3. PhaseInv'
    BY <1>1, <1>7, <2>2 DEF PhaseInv, Continue, Appending
  <2>4. QED
    BY <1>5, <2>1, <2>3 DEF IInv
<1>8. QED
  BY <1>4, <1>6, <1>7

LEMMA WriteRecordInv == IInv /\ WriteRecord => IInv'
<1> SUFFICES ASSUME IInv, WriteRecord PROVE IInv'
  OBVIOUS
<1> USE StorageAssumption
<1> DEFINE n == savedCount
           rec(c) == [pos |-> logUsed, size |-> record.size, key |-> record.key, code |-> c]
           r == rec(ram[record.key])
<1>1. /\ pc = "log_data" /\ Adding("started", n - 1) /\ ~unavailable /\ available
      /\ UNCHANGED <<marker, serial, progress, built>>
  BY DEF WriteRecord, IInv, PhaseInv, Appending
<1>2. /\ record.key \in Keys /\ record.size \in Nat /\ logUsed \in Nat
      /\ ram \in [Keys -> Codes] /\ log \in Seq(LogRecord)
      /\ built \in [Keys -> Content]
  BY <1>1 DEF IInv, TypeOK, Appending, Keymap
<1>3. /\ ram[record.key] \in Codes
      /\ \A c \in {ram[record.key], Garbage} : rec(c) \in LogRecord
  BY <1>2 DEF LogRecord, Content
<1>4. \/ log' = Append(log, r) /\ Continue("log_done")
      \/ /\ Fail
         /\ log' = log \/ \E c \in {ram[record.key], Garbage} : log' = Append(log, rec(c))
  BY DEF WriteRecord
<1>5. log' \in Seq(LogRecord)
  <2>1. log' = log \/ \E e \in LogRecord : log' = Append(log, e)
    BY <1>3, <1>4
  <2>2. QED
    BY <1>2, <2>1
<1>6. FlashInv'
  BY <1>1 DEF Adding, FlashInv
<1>7. CASE Fail
  BY <1>1, <1>5, <1>6, <1>7, FailPhase DEF IInv, TypeOK
<1>8. CASE log' = Append(log, r) /\ Continue("log_done")
  <2>1. TypeOK'
    BY <1>1, <1>5, <1>8 DEF IInv, TypeOK, Continue, Rebuilding, Appending
  <2>2. r \in LogRecord /\ r.pos = logUsed /\ r.size = record.size
        /\ r.key = record.key /\ r.code = ram[record.key]
    BY <1>3
  <2> HIDE DEF r
  <2>3. n - 1 \in Nat /\ (n - 1) + 1 = n
    BY <1>1 DEF Adding
  <2>4. Replayable(log', n) /\ LogEnd(log', n) = logUsed + record.size
    BY <1>1, <1>2, <1>8, <2>2, <2>3, ChainAppend DEF Adding
  <2>5. Stored' = [Stored EXCEPT ![record.key] = ram[record.key]]
    BY <1>1, <1>2, <1>8, <2>2, ReplayAppend DEF Stored
  <2>6. Stored' = ram
    BY <1>1, <1>2, <2>5 DEF Adding, Stored, Replay
  <2>7. Clean'
    <3>1. \A i \in 1 .. Len(log') : log'[i] = r \/ (i \in 1 .. Len(log) /\ log'[i] = log[i])
      BY <1>2, <1>8, <2>2
    <3>2. QED
      BY <1>1, <1>3, <2>2, <3>1 DEF Adding, Clean
  <2>8. logUsed = LogEnd(log', n - 1)
    <3>1. Len(log) = n - 1 /\ \A i \in 1 .. Len(log) : log'[i] = log[i]
      BY <1>1, <1>2, <1>8, <2>2 DEF Adding, Replayable
    <3>2. QED
      BY <1>1, <2>3, <3>1 DEF Adding, LogEnd
  <2>9. Adding("started", n)'
    BY <1>1, <1>8, <2>4, <2>6, <2>7, <2>8 DEF Adding, Continue
  <2>10. PhaseInv'
    BY <1>1, <1>8, <2>4, <2>6, <2>9 DEF PhaseInv, Continue, Appending
  <2>11. QED
    BY <1>6, <2>1, <2>10 DEF IInv
<1>9. QED
  BY <1>4, <1>7, <1>8

LEMMA FinishRecordInv == IInv /\ FinishRecord => IInv'
<1> SUFFICES ASSUME IInv, FinishRecord PROVE IInv'
  OBVIOUS
<1> USE StorageAssumption
<1> DEFINE n == savedCount
           done == [progress EXCEPT ![n] = "done"]
<1>1. /\ pc = "log_done" /\ Adding("started", n) /\ ~unavailable /\ available
      /\ Stored = ram /\ LogEnd(log, n) = logUsed + record.size
      /\ UNCHANGED <<marker, serial, built, log>>
  BY DEF FinishRecord, IInv, PhaseInv, Appending
<1>2. /\ n \in Slot /\ n > 0 /\ progress \in [Slot -> SlotValue]
      /\ done \in [Slot -> SlotValue] /\ logUsed + record.size \in Nat
  BY <1>1 DEF Adding, IInv, TypeOK, Slot, SlotValue, Appending
<1>3. progress[n] = "started" /\ Filled(done, n + 1, "unused")
  BY <1>1, <1>2, FilledDone DEF Adding
<1> HIDE DEF done
<1>4. n + 1 \in 1 .. NSlots /\ n + 1 # 0 /\ (n + 1) - 1 = n
  BY <1>2 DEF Slot
<1>5. CompletedCount(done) = n + 1 /\ ProgressState(done) = "complete"
  BY <1>3, <1>4, FilledCount, FilledState
<1>6. \/ progress' = done /\ Succeed(n + 1, logUsed + record.size)
      \/ progress' \in {progress, done} /\ Fail
  BY <1>3, <1>5 DEF FinishRecord, FinishSlot, done
<1>7. Clean' /\ Replayable(log', n)
  BY <1>1 DEF Adding, Clean
<1>8. FlashInv'
  <2>1. CASE progress' = done
    BY <1>3, <1>4, <1>7, <2>1 DEF FlashInv
  <2>2. CASE progress' = progress
    BY <1>1, <2>2 DEF Adding, FlashInv
  <2>3. QED
    BY <1>6, <2>1, <2>2
<1>9. CASE Fail
  BY <1>1, <1>2, <1>6, <1>8, <1>9, FailPhase DEF IInv, TypeOK
<1>10. CASE progress' = done /\ Succeed(n + 1, logUsed + record.size)
  <2>1. TypeOK'
    BY <1>1, <1>2, <1>4, <1>10 DEF IInv, TypeOK, Succeed, Return, Rebuilding, Appending
  <2>2. Ready'
    BY <1>1, <1>3, <1>4, <1>7, <1>10 DEF Ready, Adding, Succeed
  <2>3. Stored' = ram'
    BY <1>1, <1>10 DEF Stored, Succeed
  <2>4. PhaseInv'
    BY <1>10, <2>2, <2>3 DEF PhaseInv, Succeed, Appending
  <2>5. QED
    BY <1>8, <2>1, <2>4 DEF IInv
<1>11. QED
  BY <1>6, <1>9, <1>10

LEMMA PowerOnInv == IInv /\ PowerOn => IInv'
<1> SUFFICES ASSUME IInv, PowerOn PROVE IInv'
  OBVIOUS
<1> USE StorageAssumption
<1>1. pc = "off" /\ UNCHANGED <<flash, firmware, unavailable, record, result>>
  BY DEF PowerOn
<1>2. FlashInv'
  BY <1>1 DEF IInv, FlashInv, Filled, Clean, Replayable, LogEnd, flash
<1>3. CASE Restorable
  <2>1. PICK n \in 1 .. NSlots :
           /\ Filled(progress, n, "unused") /\ CompletedCount(progress) = n
           /\ Clean /\ Replayable(log, n - 1)
    BY <1>3, ReadComplete DEF IInv, Restorable
  <2>2. /\ ram' = Stored /\ pc' = "idle" /\ available' = TRUE
        /\ savedCount' = n /\ logUsed' = LogEnd(log, n - 1)
    BY <1>3, <2>1 DEF PowerOn, Replayable
  <2>3. Stored \in Keymap
    BY <2>1, ReplayClean DEF IInv, TypeOK, Clean, Stored
  <2>4. LogEnd(log, n - 1) \in Nat
    <3>1. CASE n = 1
      BY <3>1 DEF LogEnd
    <3>2. CASE n # 1
      <4>1. n - 1 \in 1 .. Len(log)
        BY <2>1, <3>2 DEF Replayable
      <4>2. log[n - 1] \in LogRecord
        BY <4>1 DEF IInv, TypeOK
      <4>3. QED
        BY <3>2, <4>2 DEF LogEnd, LogRecord
    <3>3. QED
      BY <3>1, <3>2
  <2>5. TypeOK'
    BY <1>1, <2>2, <2>3, <2>4 DEF IInv, TypeOK, flash, Appending
  <2>6. marker /\ serial = firmware
    BY <1>3 DEF Restorable
  <2>7. Ready'
    BY <1>1, <2>1, <2>2, <2>6 DEF Ready, Filled, Replayable, LogEnd, Clean, flash
  <2>8. Stored' = ram'
    BY <1>1, <2>2 DEF Stored, Replay, LastWrite, flash
  <2>9. PhaseInv'
    BY <2>2, <2>7, <2>8 DEF PhaseInv, Appending
  <2>10. QED
    BY <1>2, <2>5, <2>9 DEF IInv
<1>4. CASE ~Restorable
  <2>1. /\ ram' = Default /\ pc' = "erase" /\ available' = FALSE
        /\ UNCHANGED <<savedCount, logUsed>>
    BY <1>4 DEF PowerOn
  <2>2. TypeOK'
    BY <1>1, <2>1 DEF IInv, TypeOK, flash, Keymap, Appending, Rebuilding
  <2>3. unavailable = FALSE
    BY <1>1 DEF IInv, PhaseInv, TypeOK
  <2>4. PhaseInv'
    BY <1>1, <2>1, <2>3 DEF PhaseInv, Appending
  <2>5. QED
    BY <1>2, <2>2, <2>4 DEF IInv
<1>5. QED
  BY <1>3, <1>4

LEMMA SetKeycodeInv ==
    ASSUME NEW k \in Keys, NEW c \in Codes, IInv, SetKeycode(k, c)
    PROVE  IInv'
<1> USE StorageAssumption
<1>1. /\ pc = "idle"
      /\ UNCHANGED <<flash, firmware, unavailable, savedCount, logUsed, record>>
  BY DEF SetKeycode
<1>2. FlashInv'
  BY <1>1 DEF IInv, FlashInv, Filled, Clean, Replayable, LogEnd, flash
<1>3. ram \in [Keys -> Codes]
  BY DEF IInv, TypeOK, Keymap
<1>4. CASE pc' = "idle" /\ (unavailable \/ UNCHANGED <<ram, available>>)
  <2>1. ram' \in Keymap /\ available' \in BOOLEAN
        /\ result' \in {"persisted", "ram_only"}
    BY <1>1, <1>3, <1>4 DEF SetKeycode, SaveBy, UnchangedResult, Keymap, IInv, TypeOK
  <2>2. TypeOK'
    BY <1>1, <1>4, <2>1 DEF IInv, TypeOK, flash, Appending
  <2>3. Ready => Ready'
    BY <1>1 DEF Ready, Filled, Replayable, LogEnd, Clean, flash
  <2>4. Stored' = Stored
    BY <1>1 DEF Stored, Replay, LastWrite, flash
  <2>5. PhaseInv'
    BY <1>1, <1>4, <2>3, <2>4 DEF IInv, PhaseInv, Appending
  <2>6. QED
    BY <1>2, <2>2, <2>5 DEF IInv
<1>5. CASE /\ ~unavailable /\ ram[k] # c /\ ram' = [ram EXCEPT ![k] = c]
           /\ pc' = "commit" /\ result' = "saving" /\ available' = available
  <2>1. TypeOK'
    BY <1>1, <1>3, <1>5 DEF IInv, TypeOK, flash, Keymap, Appending
  <2>2. available /\ Ready /\ Stored = ram
    BY <1>1, <1>5 DEF IInv, PhaseInv
  <2>3. Ready'
    BY <1>1, <2>2 DEF Ready, Filled, Replayable, LogEnd, Clean, flash
  <2>4. Stored' = Stored
    BY <1>1 DEF Stored, Replay, LastWrite, flash
  <2>5. Changed' = {k}
    BY <1>3, <1>5, <2>2, <2>4 DEF Changed
  <2>6. PhaseInv'
    BY <1>1, <1>5, <2>2, <2>3, <2>5 DEF PhaseInv, Appending
  <2>7. QED
    BY <1>2, <2>1, <2>6 DEF IInv
<1>6. QED
  BY <1>1, <1>4, <1>5 DEF SetKeycode, SaveBy

LEMMA ResetKeymapInv == IInv /\ ResetKeymap => IInv'
<1> SUFFICES ASSUME IInv, ResetKeymap PROVE IInv'
  OBVIOUS
<1> USE StorageAssumption
<1>1. /\ pc = "idle"
      /\ UNCHANGED <<flash, firmware, unavailable, savedCount, logUsed, record>>
  BY DEF ResetKeymap
<1>2. FlashInv'
  BY <1>1 DEF IInv, FlashInv, Filled, Clean, Replayable, LogEnd, flash
<1>3. CASE pc' = "idle" /\ (unavailable \/ UNCHANGED <<ram, available>>)
  <2>1. ram' \in Keymap /\ available' \in BOOLEAN
        /\ result' \in {"persisted", "ram_only"}
    BY <1>1, <1>3 DEF ResetKeymap, SaveBy, UnchangedResult, Keymap, IInv, TypeOK
  <2>2. TypeOK'
    BY <1>1, <1>3, <2>1 DEF IInv, TypeOK, flash, Appending
  <2>3. Ready => Ready'
    BY <1>1 DEF Ready, Filled, Replayable, LogEnd, Clean, flash
  <2>4. Stored' = Stored
    BY <1>1 DEF Stored, Replay, LastWrite, flash
  <2>5. PhaseInv'
    BY <1>1, <1>3, <2>3, <2>4 DEF IInv, PhaseInv, Appending
  <2>6. QED
    BY <1>2, <2>2, <2>5 DEF IInv
<1>4. CASE /\ ~unavailable /\ ram' = Default
           /\ pc' = "erase" /\ result' = "saving" /\ available' = FALSE
  <2>1. TypeOK'
    BY <1>1, <1>4 DEF IInv, TypeOK, flash, Keymap, Appending, Rebuilding
  <2>2. PhaseInv'
    BY <1>1, <1>4 DEF PhaseInv, Appending
  <2>3. QED
    BY <1>2, <2>1, <2>2 DEF IInv
<1>5. QED
  BY <1>1, <1>3, <1>4 DEF ResetKeymap, SaveBy

\* Every step keeps the invariant.
LEMMA NextInv == IInv /\ [Next]_vars => IInv'
<1> SUFFICES ASSUME IInv, [Next]_vars PROVE IInv'
  OBVIOUS
<1> USE StorageAssumption
<1>1. CASE SaveStep
  BY <1>1, EraseAllInv, WriteMarkerInv, WriteSerialInv, StartRebuildInv,
     WriteImageInv, FinishRebuildInv, CommitInv, StartRecordInv,
     WriteRecordInv, FinishRecordInv DEF SaveStep
<1>2. ASSUME UNCHANGED <<flash, pc, ram, available, unavailable, savedCount,
                         logUsed, record>>,
             firmware' = firmware \/ (pc = "off" /\ firmware' \in Builds),
             result' \in {"none", "saving", "persisted", "ram_only", "failed"}
      PROVE  IInv'
  <2>1. TypeOK'
    BY <1>2 DEF IInv, TypeOK, flash
  <2>2. FlashInv'
    BY <1>2 DEF IInv, FlashInv, Filled, Clean, Replayable, LogEnd, flash
  <2>3. pc # "off" => firmware' = firmware
    BY <1>2
  <2>4. CASE pc = "off"
    <3>1. PhaseInv'
      BY <1>2, <2>4 DEF IInv, PhaseInv, Appending
    <3>2. QED
      BY <2>1, <2>2, <3>1 DEF IInv
  <2>5. CASE pc # "off"
    <3>1. UNCHANGED <<marker, serial, progress, built, log, firmware, pc, ram,
                      available, unavailable, savedCount, logUsed, record>>
      BY <1>2, <2>5 DEF flash
    <3>2. Stored' = Stored /\ Changed' = Changed
      BY <3>1 DEF Stored, Changed, Replay, LastWrite
    <3>3. Clean' = Clean /\ (Ready => Ready')
      BY <3>1 DEF Ready, Filled, Clean, Replayable, LogEnd
    <3>4. /\ Adding("unused", savedCount - 1) => Adding("unused", savedCount - 1)'
          /\ Adding("started", savedCount - 1) => Adding("started", savedCount - 1)'
          /\ Adding("started", savedCount) => Adding("started", savedCount)'
      BY <3>1, <3>2, <3>3 DEF Adding
    <3>5. PhaseInv'
      BY <3>1, <3>2, <3>3, <3>4 DEF IInv, PhaseInv, Building, LogEnd
    <3>6. QED
      BY <2>1, <2>2, <3>5 DEF IInv
  <2>6. QED
    BY <2>1, <2>2, <2>4, <2>5 DEF IInv
<1>3. CASE SetRefused
  BY <1>2, <1>3 DEF SetRefused
<1>4. ASSUME NEW b \in Builds, Reflash(b)
      PROVE  IInv'
  BY <1>2, <1>4 DEF Reflash, cpu, IInv, TypeOK
<1>5. CASE UNCHANGED vars
  BY <1>2, <1>5 DEF vars, cpu, IInv, TypeOK
<1>6. CASE PowerLoss
  <2>1. TypeOK'
    BY <1>6 DEF PowerLoss, IInv, TypeOK, flash, Keymap, Appending
  <2>2. FlashInv'
    BY <1>6 DEF PowerLoss, IInv, FlashInv, Filled, Clean, Replayable, LogEnd, flash
  <2>3. PhaseInv'
    BY <1>6 DEF PowerLoss, PhaseInv, Appending
  <2>4. QED
    BY <2>1, <2>2, <2>3 DEF IInv
<1>7. ASSUME NEW k \in Keys, NEW c \in Codes, SetKeycode(k, c)
      PROVE  IInv'
  BY <1>7, SetKeycodeInv
<1>8. QED
  BY <1>1, <1>3, <1>4, <1>5, <1>6, <1>7, PowerOnInv, ResetKeymapInv DEF Next

THEOREM InductiveInvariant == Spec => []IInv
  BY InitInv, NextInv, PTL DEF Spec

-----------------------------------------------------------------------------
(* The properties.                                                         *)

\* Type correctness; RAM never holds a torn or erased keycode, so key events
\* are only ever looked up in a keymap of valid codes.
THEOREM TypeCorrect == Spec => []TypeOK
<1>1. IInv => TypeOK
  BY DEF IInv
<1>2. QED
  BY <1>1, InductiveInvariant, PTL

\* Between calls, unless RAM_ONLY was reported, a reboot restores exactly the
\* keymap in RAM.
THEOREM PersistedKeymapSurvives == Spec => []PersistedIsDurable
<1>1. IInv => PersistedIsDurable
  <2> SUFFICES ASSUME IInv, pc = "idle", ~unavailable
               PROVE  /\ available /\ Restorable /\ Stored = ram
                      /\ savedCount = CompletedCount(progress)
                      /\ logUsed = LogEnd(log, Len(log))
    BY DEF PersistedIsDurable
  <2>1. available /\ Ready /\ Stored = ram
    BY DEF IInv, PhaseInv
  <2>2. QED
    BY <2>1, ReadyRestorable DEF Ready
<1>2. QED
  BY <1>1, InductiveInvariant, PTL

\* Whatever was cut short, an accepted region holds a whole keymap.
THEOREM AcceptedImageIsWhole == Spec => []WholeImage
<1>1. IInv => WholeImage
  <2> SUFFICES ASSUME IInv, Whole PROVE Stored \in Keymap
    BY DEF WholeImage
  <2>1. Clean
    BY ReadComplete DEF IInv, Whole
  <2>2. QED
    BY <2>1, ReplayClean DEF IInv, TypeOK, Clean, Stored
<1>2. QED
  BY <1>1, InductiveInvariant, PTL

\* commit never finds more than the key that was set to differ.
THEOREM OneRecordCarriesAChange == Spec => []CommitChangesOneKey
<1>1. IInv => CommitChangesOneKey
  BY ReadyRestorable DEF IInv, PhaseInv, CommitChangesOneKey
<1>2. QED
  BY <1>1, InductiveInvariant, PTL

\* After a failed save no operation touches flash before the next boot.
THEOREM FailureFreezesFlash == Spec => FrozenAfterFailure
<1>1. IInv /\ [Next]_vars => [unavailable => UNCHANGED flash]_vars
  <2> SUFFICES ASSUME IInv, Next, unavailable PROVE UNCHANGED flash
    BY DEF vars
  <2>1. pc = "idle"
    BY DEF IInv, PhaseInv
  <2>2. ~SaveStep
    BY <2>1 DEF SaveStep, EraseAll, WriteMarker, WriteSerial, StartRebuild,
                WriteImage, FinishRebuild, Commit, StartRecord, WriteRecord,
                FinishRecord
  <2>3. QED
    BY <2>2 DEF Next, PowerOn, PowerLoss, SetKeycode, SetRefused, ResetKeymap, Reflash
<1>2. QED
  BY <1>1, InductiveInvariant, PTL DEF Spec, FrozenAfterFailure

-----------------------------------------------------------------------------
(* Persistence implements KeymapStore.                                     *)

\* A flash operation leaves the copy a boot would find as it is, loses it,
\* or completes it with the keymap in RAM.
LEMMA SaveStepCopy ==
    ASSUME IInv, SaveStep
    PROVE  StoredCopy' \in {StoredCopy, Store!Nothing, Store!Copy(firmware, ram)}
<1> USE StorageAssumption
<1> DEFINE Kept == UNCHANGED flash
           Lost == ~Whole'
           New == serial' = firmware /\ Stored' = ram
<1>1. Kept => StoredCopy' = StoredCopy
  BY DEF StoredCopy, Whole, Stored, Replay, LastWrite, Replayable, LogEnd, flash
<1>2. Lost => StoredCopy' = Store!Nothing
  BY DEF StoredCopy, Store!Nothing
<1>3. New => StoredCopy' \in {Store!Nothing, Store!Copy(firmware, ram)}
  BY DEF StoredCopy, Store!Nothing, Store!Copy
<1>4. ASSUME NEW n \in 0 .. NSlots, NEW s \in {"unused", "started"},
             Filled(progress', n, s), n = 0 \/ (n < NSlots /\ s = "started")
      PROVE  Lost
  <2>1. ProgressState(progress') # "complete"
    BY <1>4, FilledState
  <2>2. QED
    BY <2>1 DEF Whole
<1>5. CASE EraseAll
  <2>1. marker' = FALSE \/ Kept
    BY <1>5 DEF EraseAll
  <2>2. marker' = FALSE => Lost
    BY DEF Whole
  <2>3. QED
    BY <1>1, <1>2, <2>1, <2>2
<1>6. CASE WriteMarker \/ WriteSerial \/ WriteImage
  <2>1. Filled(progress, 0, "unused") \/ Filled(progress, 0, "started")
    BY <1>6 DEF WriteMarker, WriteSerial, WriteImage, IInv, PhaseInv, Building
  <2>2. UNCHANGED progress
    BY <1>6 DEF WriteMarker, WriteSerial, WriteImage
  <2>3. Lost
    BY <1>4, <2>1, <2>2
  <2>4. QED
    BY <1>2, <2>3
<1>7. CASE StartRebuild
  <2>1. Filled(progress, 0, "unused") /\ 0 \in Slot /\ progress \in [Slot -> SlotValue]
    BY <1>7 DEF StartRebuild, IInv, PhaseInv, Building, TypeOK, Slot
  <2>2. progress' \in {progress, [progress EXCEPT ![0] = "started"]}
    BY <1>7 DEF StartRebuild, StartSlot
  <2>3. Lost
    BY <1>4, <2>1, <2>2, FilledStart
  <2>4. QED
    BY <1>2, <2>3
<1>8. CASE FinishRebuild
  <2>1. /\ Filled(progress, 0, "started") /\ serial = firmware
        /\ log = <<>> /\ built = ram /\ built \in [Keys -> Content]
    BY <1>8 DEF FinishRebuild, IInv, PhaseInv, Building, TypeOK
  <2>2. /\ UNCHANGED <<marker, serial, built, log>>
        /\ progress' \in {progress, [progress EXCEPT ![0] = "done"]}
    BY <1>8 DEF FinishRebuild, FinishSlot
  <2>3. New
    BY <2>1, <2>2, ReplayEmpty DEF Stored
  <2>4. QED
    BY <1>3, <2>3
<1>9. CASE Commit
  BY <1>1, <1>9 DEF Commit
<1>10. CASE StartRecord
  <2>1. /\ Filled(progress, savedCount, "unused") /\ savedCount \in Slot
        /\ progress \in [Slot -> SlotValue] /\ savedCount \in 0 .. NSlots
    BY <1>10 DEF StartRecord, IInv, PhaseInv, Adding, TypeOK, Slot
  <2>2. /\ UNCHANGED <<marker, serial, built, log>>
        /\ progress' \in {progress, [progress EXCEPT ![savedCount] = "started"]}
    BY <1>10 DEF StartRecord, StartSlot
  <2>3. CASE progress' = progress
    BY <1>1, <2>2, <2>3 DEF flash
  <2>4. CASE progress' = [progress EXCEPT ![savedCount] = "started"]
    <3>1. Filled(progress', savedCount, "started")
      BY <2>1, <2>4, FilledStart
    <3>2. Lost
      BY <1>4, <2>1, <3>1 DEF Slot
    <3>3. QED
      BY <1>2, <3>2
  <2>5. QED
    BY <2>2, <2>3, <2>4
<1>11. CASE WriteRecord
  <2>1. /\ Filled(progress, savedCount, "started") /\ savedCount \in 0 .. NSlots
        /\ savedCount < NSlots /\ UNCHANGED progress
    BY <1>11 DEF WriteRecord, IInv, PhaseInv, Adding
  <2>2. Lost
    BY <1>4, <2>1
  <2>3. QED
    BY <1>2, <2>2
<1>12. CASE FinishRecord
  <2>1. serial = firmware /\ Stored = ram /\ UNCHANGED <<marker, serial, built, log>>
    BY <1>12 DEF FinishRecord, IInv, PhaseInv, Adding
  <2>2. New
    BY <2>1 DEF Stored
  <2>3. QED
    BY <1>3, <2>2
<1>13. QED
  BY <1>5, <1>6, <1>7, <1>8, <1>9, <1>10, <1>11, <1>12 DEF SaveStep

\* Where a flash operation goes next: on, to a failure, or to a success that
\* is only reported once the copy is complete.
LEMMA SaveStepStatus ==
    ASSUME IInv, IInv', SaveStep
    PROVE  /\ pc \notin {"off", "idle"} /\ pc' # "off"
           /\ UNCHANGED <<firmware, ram>>
           /\ StatusOf' \in {"saving", "ram_only", "persisted"}
           /\ StatusOf' = "persisted" => StoredCopy' = Store!Copy(firmware, ram)
<1>1. pc \notin {"off", "idle"}
  BY DEF SaveStep, EraseAll, WriteMarker, WriteSerial, StartRebuild, WriteImage,
         FinishRebuild, Commit, StartRecord, WriteRecord, FinishRecord
<1>2. /\ pc' # "off" /\ UNCHANGED <<firmware, ram>>
  <2>1. ASSUME NEW next, Continue(next) PROVE pc' = next /\ UNCHANGED <<firmware, ram>>
    BY <2>1 DEF Continue
  <2>2. Fail => pc' = "idle" /\ UNCHANGED <<firmware, ram>>
    BY DEF Fail
  <2>3. ASSUME NEW m, NEW u, Succeed(m, u) PROVE pc' = "idle" /\ UNCHANGED <<firmware, ram>>
    BY <2>3 DEF Succeed
  <2>4. CASE Commit
    BY <2>2, <2>4 DEF Commit, Succeed
  <2>5. CASE EraseAll \/ WriteMarker \/ WriteSerial \/ WriteImage \/ WriteRecord
    BY <2>1, <2>2, <2>5 DEF EraseAll, WriteMarker, WriteSerial, WriteImage, WriteRecord
  <2>6. CASE StartRebuild \/ StartRecord
    BY <2>1, <2>2, <2>6 DEF StartRebuild, StartRecord, StartSlot
  <2>7. CASE FinishRebuild \/ FinishRecord
    BY <2>2, <2>3, <2>7 DEF FinishRebuild, FinishRecord, FinishSlot
  <2>8. QED
    BY <2>4, <2>5, <2>6, <2>7 DEF SaveStep
<1>3. StatusOf' \in {"saving", "ram_only", "persisted"}
  BY <1>2 DEF StatusOf
<1>4. ASSUME StatusOf' = "persisted"
      PROVE  StoredCopy' = Store!Copy(firmware, ram)
  <2>1. pc' = "idle" /\ ~unavailable'
    BY <1>4 DEF StatusOf
  <2>2. Ready' /\ Stored' = ram'
    BY <2>1 DEF IInv, PhaseInv
  <2>3. ProgressState(progress') = "complete" /\ CompletedCount(progress') = savedCount'
    BY <2>2, FilledCount, FilledState, StorageAssumption DEF Ready
  <2>4. Whole'
    BY <2>2, <2>3 DEF Whole, Ready, IInv, TypeOK
  <2>5. QED
    BY <1>2, <2>2, <2>4 DEF StoredCopy, Store!Copy, Ready
<1>5. QED
  BY <1>1, <1>2, <1>3, <1>4

\* With unchanged flash and firmware a boot finds what it found before.
LEMMA CopyUnchanged == UNCHANGED flash => StoredCopy' = StoredCopy
  BY DEF StoredCopy, Whole, Stored, Replay, LastWrite, Replayable, LogEnd, flash

LEMMA InitStore == Init => Store!StoreInit
<1> SUFFICES ASSUME Init PROVE Store!StoreInit
  OBVIOUS
<1>1. StoredCopy = Store!Nothing
  BY DEF Init, StoredCopy, Whole, Store!Nothing
<1>2. QED
  BY <1>1 DEF Init, Store!StoreInit, StatusOf

LEMMA StepStore == IInv /\ IInv' /\ [Next]_vars => [Store!StoreNext]_(Store!storeVars)
<1> SUFFICES ASSUME IInv, IInv', [Next]_vars
             PROVE  Store!StoreNext \/ UNCHANGED Store!storeVars
  OBVIOUS
<1>1. CASE SaveStep
  <2>1. Store!Save
    BY <1>1, SaveStepCopy, SaveStepStatus DEF Store!Save, StatusOf
  <2>2. QED
    BY <2>1 DEF Store!StoreNext
<1>2. CASE PowerOn
  <2>1. pc = "off" /\ StoredCopy' = StoredCopy /\ UNCHANGED <<firmware, unavailable>>
    BY <1>2, CopyUnchanged DEF PowerOn
  <2>2. ~unavailable
    BY <2>1 DEF IInv, PhaseInv
  <2>3. Restorable <=> StoredCopy.whole /\ StoredCopy.by = firmware
    BY DEF Restorable, Whole, StoredCopy, IInv, TypeOK
  <2>4. CASE Restorable
    <3>1. ram' = StoredCopy.map /\ pc' = "idle"
      BY <1>2, <2>4 DEF PowerOn, StoredCopy, Restorable, Whole, IInv, TypeOK
    <3>2. Store!Boot
      BY <2>1, <2>2, <2>3, <2>4, <3>1 DEF Store!Boot, StatusOf
    <3>3. QED
      BY <3>2 DEF Store!StoreNext
  <2>5. CASE ~Restorable
    <3>1. ram' = Default /\ pc' = "erase"
      BY <1>2, <2>5 DEF PowerOn
    <3>2. Store!Boot
      BY <2>1, <2>3, <2>5, <3>1 DEF Store!Boot, StatusOf
    <3>3. QED
      BY <3>2 DEF Store!StoreNext
  <2>6. QED
    BY <2>4, <2>5
<1>3. CASE PowerLoss
  <2>1. Store!PowerOff
    BY <1>3, CopyUnchanged DEF PowerLoss, Store!PowerOff, StatusOf
  <2>2. QED
    BY <2>1 DEF Store!StoreNext
<1>4. ASSUME NEW k \in Keys, NEW c \in Codes, SetKeycode(k, c)
      PROVE  Store!StoreNext \/ UNCHANGED Store!storeVars
  <2>1. /\ pc = "idle" /\ StoredCopy' = StoredCopy
        /\ UNCHANGED <<firmware, unavailable>>
    BY <1>4, CopyUnchanged DEF SetKeycode
  <2>2. CASE ram[k] = c
    <3>1. UNCHANGED Store!storeVars
      BY <1>4, <2>1, <2>2 DEF SetKeycode, Store!storeVars, StatusOf
    <3>2. QED
      BY <3>1
  <2>3. CASE ram[k] # c
    <3>1. /\ ram' = [ram EXCEPT ![k] = c]
          /\ pc' = IF unavailable THEN "idle" ELSE "commit"
      BY <1>4, <2>1, <2>3 DEF SetKeycode, SaveBy
    <3>2. Store!Edit
      BY <2>1, <3>1 DEF Store!Edit, StatusOf
    <3>3. QED
      BY <3>2 DEF Store!StoreNext
  <2>4. QED
    BY <2>2, <2>3
<1>5. CASE ResetKeymap
  <2>1. /\ pc = "idle" /\ StoredCopy' = StoredCopy
        /\ UNCHANGED <<firmware, unavailable>>
    BY <1>5, CopyUnchanged DEF ResetKeymap
  <2>2. CASE ram = Default
    <3>1. UNCHANGED Store!storeVars
      BY <1>5, <2>1, <2>2 DEF ResetKeymap, Store!storeVars, StatusOf
    <3>2. QED
      BY <3>1
  <2>3. CASE ram # Default
    <3>1. /\ ram' = Default
          /\ pc' = IF unavailable THEN "idle" ELSE "erase"
      BY <1>5, <2>1, <2>3 DEF ResetKeymap, SaveBy
    <3>2. Store!Edit
      BY <2>1, <3>1 DEF Store!Edit, StatusOf
    <3>3. QED
      BY <3>2 DEF Store!StoreNext
  <2>4. QED
    BY <2>2, <2>3
<1>6. CASE SetRefused \/ UNCHANGED vars
  <2>1. UNCHANGED <<flash, firmware, pc, ram, unavailable>>
    BY <1>6 DEF SetRefused, vars, cpu
  <2>2. UNCHANGED Store!storeVars
    BY <2>1, CopyUnchanged DEF Store!storeVars, StatusOf
  <2>3. QED
    BY <2>2
<1>7. ASSUME NEW b \in Builds, Reflash(b)
      PROVE  Store!StoreNext
  <2>1. Store!Update(b)
    BY <1>7, CopyUnchanged DEF Reflash, cpu, Store!Update, StatusOf
  <2>2. QED
    BY <2>1 DEF Store!StoreNext
<1>8. QED
  BY <1>1, <1>2, <1>3, <1>4, <1>5, <1>6, <1>7 DEF Next

\* Every boot, edit, flash operation, failure and power loss is a step of the
\* abstract keymap store: a keymap is never half saved, success is never
\* reported before the copy is complete, and no build adopts another's.
THEOREM Refinement == Spec => ImplementsStore
<1>1. Spec => []IInv
  BY InductiveInvariant
<1>2. QED
  BY <1>1, InitStore, StepStore, PTL DEF Spec, ImplementsStore, Store!StoreSpec

\* What the abstract store promises by itself: what is called persisted is
\* stored, and nothing but a save touches it.
LEMMA StorePromises == Store!StoreSpec => []Store!PersistedIsStored /\ Store!StoredStays
<1>1. Store!StoreInit => Store!PersistedIsStored
  BY DEF Store!StoreInit, Store!PersistedIsStored
<1>2. Store!PersistedIsStored /\ [Store!StoreNext]_Store!storeVars => Store!PersistedIsStored'
  <2> SUFFICES ASSUME Store!PersistedIsStored, [Store!StoreNext]_Store!storeVars,
                      StatusOf' = "persisted"
               PROVE  StoredCopy' = Store!Copy(firmware', ram')
    BY DEF Store!PersistedIsStored, Store!Copy
  <2> USE DEF Store!PersistedIsStored
  <2>1. CASE Store!Boot
    <3>1. StoredCopy.whole => StoredCopy = Store!Copy(StoredCopy.by, StoredCopy.map)
      BY DEF StoredCopy, Store!Copy
    <3> QED BY <2>1, <3>1 DEF Store!Boot, Store!Copy
  <2>2. CASE Store!Edit
    BY <2>2 DEF Store!Edit
  <2>3. CASE Store!Save
    BY <2>3 DEF Store!Save, Store!Copy
  <2>4. CASE Store!PowerOff \/ \E b \in Builds : Store!Update(b)
    BY <2>4 DEF Store!PowerOff, Store!Update, StatusOf
  <2>5. CASE UNCHANGED Store!storeVars
    BY <2>5 DEF Store!storeVars, Store!Copy
  <2> QED BY <2>1, <2>2, <2>3, <2>4, <2>5 DEF Store!StoreNext
<1>3. [Store!StoreNext]_Store!storeVars
         => [StoredCopy' # StoredCopy => StatusOf = "saving"]_Store!storeVars
  BY DEF Store!StoreNext, Store!Boot, Store!Edit, Store!Save, Store!PowerOff, Store!Update,
         Store!storeVars
<1>4. QED
  BY <1>1, <1>2, <1>3, PTL DEF Store!StoreSpec, Store!StoredStays

\* A keymap that was persisted stays in flash, whole, over any losses of
\* power, boots, reflashes and refused calls, until the next save begins:
\* settings_set_keycode and settings_reset are the only ways to lose it.
THEOREM PersistedStays == Spec => []Store!PersistedIsStored /\ Store!StoredStays
  BY Refinement, StorePromises, PTL DEF ImplementsStore

-----------------------------------------------------------------------------
(* What a save may come to.                                                *)

\* Each check of persistence_commit, persistence_rebuild and the update of
\* the progress would pass: it could only fail if flash were not as the
\* operations before it reported.  So no save fails, and no keymap becomes
\* RAM_ONLY, unless an operation of the flash fails.
Completes(slot) ==
    LET done == [progress EXCEPT ![slot] = "done"] IN
    /\ slot \in Slot /\ progress[slot] = "started"
    /\ ProgressState(done) = "complete" /\ CompletedCount(done) = slot + 1

ChecksPass ==
    /\ pc = "commit" => available /\ Restorable
    /\ pc = "start" => progress[0] = "unused"
    /\ pc = "log_start" => savedCount \in Slot /\ progress[savedCount] = "unused"
    /\ pc = "log_data" => logUsed + record.size <= LogSize
    /\ pc = "finish" => Completes(0)
    /\ pc = "log_done" => Completes(savedCount)

LEMMA FilledCompletes ==
    ASSUME NEW n \in Slot, progress \in [Slot -> SlotValue], Filled(progress, n, "started")
    PROVE  Completes(n)
<1> DEFINE done == [progress EXCEPT ![n] = "done"]
<1>1. n + 1 \in 0 .. NSlots /\ n + 1 # 0
  BY StorageAssumption DEF Slot
<1>2. progress[n] = "started" /\ Filled(done, n + 1, "unused")
  BY FilledDone
<1> HIDE DEF done
<1>3. CompletedCount(done) = n + 1 /\ ProgressState(done) = "complete"
  BY <1>1, <1>2, FilledCount, FilledState
<1>4. QED
  BY <1>2, <1>3 DEF Completes, done

\* A save fails only because the flash did: _persistence_update_progress and
\* the reading back in persistence_commit find what they expect.
THEOREM ChecksOnlyCatchFaults == Spec => []ChecksPass
<1>1. IInv => ChecksPass
  <2> SUFFICES ASSUME IInv PROVE ChecksPass
    OBVIOUS
  <2>1. progress \in [Slot -> SlotValue] /\ 0 \in Slot
    BY StorageAssumption DEF IInv, TypeOK, Slot
  <2>2. pc = "commit" => available /\ Restorable
    BY ReadyRestorable DEF IInv, PhaseInv
  <2>3. pc = "start" => progress[0] = "unused"
    BY <2>1, FilledStart DEF IInv, PhaseInv, Building
  <2>4. pc \in Appending => savedCount \in Slot
    BY StorageAssumption DEF IInv, PhaseInv, Appending, Adding, Slot
  <2>5. pc = "log_start" => progress[savedCount] = "unused"
    BY <2>1, <2>4, FilledStart DEF IInv, PhaseInv, Appending, Adding
  <2>6. pc = "log_data" => logUsed + record.size <= LogSize
    BY DEF IInv, PhaseInv, Adding
  <2>7. pc = "finish" => Completes(0)
    BY <2>1, FilledCompletes DEF IInv, PhaseInv, Building
  <2>8. pc = "log_done" => Completes(savedCount)
    BY <2>1, <2>4, FilledCompletes DEF IInv, PhaseInv, Appending, Adding
  <2>9. QED
    BY <2>2, <2>3, <2>4, <2>5, <2>6, <2>7, <2>8 DEF ChecksPass, Appending
<1>2. QED
  BY <1>1, InductiveInvariant, PTL

\* Flash operations a save has left at most: three to append a record, six to
\* rebuild, and the reading in front of them.
OperationsLeft ==
    CASE pc = "commit" -> 7
      [] pc = "erase" -> 6
      [] pc = "marker" -> 5
      [] pc = "serial" -> 4
      [] pc \in {"start", "log_start"} -> 3
      [] pc \in {"data", "log_data"} -> 2
      [] pc \in {"finish", "log_done"} -> 1
      [] OTHER -> 0

\* Whatever a save comes upon, failures and a log that is full, each step of
\* it leaves fewer, or power is lost.
SaveAdvances ==
    [][pc \notin {"off", "idle"} => pc' = "off" \/ OperationsLeft' < OperationsLeft]_vars

\* A save is never sent back to an operation it has done, and never waits for
\* anything but the flash: the safety half of SaveSettles.
THEOREM SaveComesNearer == Spec => SaveAdvances
<1>1. ASSUME TypeOK, Next, pc \notin {"off", "idle"}
      PROVE  pc' = "off" \/ OperationsLeft' < OperationsLeft
  <2>1. CASE PowerLoss
    BY <2>1 DEF PowerLoss
  <2>2. CASE SaveStep
    <3> USE DEF OperationsLeft, Continue, Fail
    <3>1. CASE EraseAll \/ WriteMarker \/ WriteSerial
      BY <3>1 DEF EraseAll, WriteMarker, WriteSerial
    <3>2. CASE StartRebuild \/ StartRecord
      BY <3>2 DEF StartRebuild, StartRecord, StartSlot
    <3>3. CASE WriteImage \/ WriteRecord
      BY <3>3 DEF WriteImage, WriteRecord
    <3>4. CASE FinishRebuild \/ FinishRecord
      BY <3>4 DEF FinishRebuild, FinishRecord, FinishSlot, Succeed
    <3>5. CASE Commit
      BY <3>5 DEF Commit, Succeed
    <3> QED BY <2>2, <3>1, <3>2, <3>3, <3>4, <3>5 DEF SaveStep
  <2>3. QED
    BY <1>1, <2>1, <2>2 DEF Next, PowerOn, SetKeycode, SetRefused, ResetKeymap, Reflash
<1>2. TypeOK /\ [Next]_vars =>
         [pc \notin {"off", "idle"} => pc' = "off" \/ OperationsLeft' < OperationsLeft]_vars
  BY <1>1
<1>3. QED
  BY <1>2, TypeCorrect, PTL DEF Spec, SaveAdvances

-----------------------------------------------------------------------------
(* The pages under Persistence.                                            *)

PagesAssumption ==
    /\ PageSize \in Nat \ {0}
    /\ RegionSize \in Nat /\ RegionSize % PageSize = 0

\* Multiples of P are at least P apart.
LEMMA Multiples ==
  ASSUME NEW P \in Nat \ {0}, NEW c \in Int, NEW d \in Int, c < d
  PROVE  c * P + P <= d * P
<1>1. PICK k \in Nat : d = c + 1 + k
  <2>1. d - c - 1 \in Nat /\ d = c + 1 + (d - c - 1)
    OBVIOUS
  <2>2. QED
    BY <2>1
<1>2. d * P = c * P + P + k * P /\ k * P \in Nat
  BY <1>1
<1>3. QED
  BY <1>2

\* Places lie on pages in their order.
LEMMA PagesInOrder ==
  ASSUME NEW P \in Nat \ {0}, NEW i \in Int, NEW j \in Int, i \div P < j \div P
  PROVE  i < j
<1> DEFINE c == i \div P
           d == j \div P
<1>1. /\ c \in Int /\ d \in Int /\ c < d
      /\ i < c * P + P /\ d * P <= j
  OBVIOUS
<1>2. c * P + P <= d * P
  BY <1>1, Multiples
<1> HIDE DEF c, d
<1>3. c * P \in Int /\ d * P \in Int
  BY <1>1
<1>4. QED
  BY <1>1, <1>2, <1>3

\* An area that ends at n is followed by one that starts on a later page.
LEMMA NextArea ==
  ASSUME PageSize \in Nat \ {0}, NEW n \in Nat \ {0}
  PROVE  /\ AlignUp(n) \in Nat /\ n <= AlignUp(n)
         /\ (n - 1) \div PageSize < AlignUp(n) \div PageSize
<1> DEFINE P == PageSize
           q == (n + P - 1) \div P
           c == (n - 1) \div P
<1>1. /\ q \in Int /\ q * P <= n + P - 1 /\ n + P - 1 < q * P + P
      /\ c \in Int /\ c * P <= n - 1
  OBVIOUS
<1>2. AlignUp(n) = q * P
  BY DEF AlignUp
<1> HIDE DEF q, c
<1>3. q * P \in Int /\ c * P \in Int
  BY <1>1
<1>4. n <= q * P
  BY <1>1, <1>3
<1>5. c < q
  <2>1. SUFFICES ASSUME q <= c PROVE FALSE
    BY <1>1
  <2>2. q * P <= c * P
    <3>1. CASE q = c
      BY <3>1, <1>3
    <3>2. CASE q < c
      BY <3>2, <1>1, <1>3, Multiples
    <3>3. QED
      BY <2>1, <3>1, <3>2, <1>1
  <2>3. QED
    BY <2>2, <1>1, <1>3, <1>4
<1>6. (q * P) \div P = q
  BY <1>1, <1>3
<1>7. QED
  BY <1>2, <1>3, <1>4, <1>5, <1>6 DEF c

THEOREM AreasAreOnTheirOwnPages ==
  ASSUME PagesAssumption, HeaderSize \in Nat \ {0}, ProgressSize \in Nat \ {0},
         SmallestLog \in Nat \ {0}
  PROVE  AreasShareNoPage
<1> SUFFICES ASSUME NEW imageSize \in 0 .. RegionSize, Fits(imageSize)
             PROVE  LET area == Areas(imageSize) IN
                    /\ \A a \in DOMAIN area : RangeIsValid(area[a].from, area[a].size)
                    /\ \A a, b \in DOMAIN area : a < b =>
                          (area[a].from + area[a].size - 1) \div PageSize
                              < area[b].from \div PageSize
  BY DEF AreasShareNoPage
<1> DEFINE P == PageSize
           p == ProgressStart
           s == BuiltStart
           e == LogStart(imageSize)
           page(i) == i \div P
<1>1. /\ P \in Nat \ {0} /\ RegionSize \in Nat /\ imageSize \in Nat \ {0}
      /\ HeaderSize \in Nat \ {0} /\ ProgressSize \in Nat \ {0}
      /\ s + imageSize <= RegionSize /\ RegionSize - e >= SmallestLog
      /\ SmallestLog \in Nat \ {0}
  BY DEF PagesAssumption, Fits
<1>2. p \in Nat /\ HeaderSize <= p /\ page(HeaderSize - 1) < page(p)
  BY <1>1, NextArea DEF ProgressStart
<1>3. s \in Nat /\ p + ProgressSize <= s /\ page(p + ProgressSize - 1) < page(s)
  BY <1>1, <1>2, NextArea DEF BuiltStart
<1>4. e \in Nat /\ s + imageSize <= e /\ page(s + imageSize - 1) < page(e)
  BY <1>1, <1>3, NextArea DEF LogStart
<1> HIDE DEF p, s, e
<1>5. page(p) <= page(p + ProgressSize - 1) /\ page(s) <= page(s + imageSize - 1)
  <2>1. ASSUME NEW i \in Nat, NEW j \in Nat, i <= j PROVE page(i) <= page(j)
    BY <2>1, <1>1, PagesInOrder
  <2>2. p <= p + ProgressSize - 1 /\ s <= s + imageSize - 1
        /\ p + ProgressSize - 1 \in Nat /\ s + imageSize - 1 \in Nat
    BY <1>1, <1>2, <1>3
  <2> HIDE DEF page
  <2>3. QED
    BY <2>1, <2>2, <1>2, <1>3
<1>6. /\ page(HeaderSize - 1) \in Int /\ page(p) \in Int /\ page(s) \in Int /\ page(e) \in Int
      /\ page(p + ProgressSize - 1) \in Int /\ page(s + imageSize - 1) \in Int
  BY <1>1, <1>2, <1>3, <1>4
<1> DEFINE area == Areas(imageSize)
<1>7. /\ DOMAIN area = 1 .. 4
      /\ area[1] = [from |-> 0, size |-> HeaderSize]
      /\ area[2] = [from |-> p, size |-> ProgressSize]
      /\ area[3] = [from |-> s, size |-> imageSize]
      /\ area[4] = [from |-> e, size |-> RegionSize - e]
  BY DEF Areas, p, s, e
<1> HIDE DEF area
<1>8. \A a \in DOMAIN area : RangeIsValid(area[a].from, area[a].size)
  BY <1>1, <1>2, <1>3, <1>4, <1>7 DEF RangeIsValid
<1> HIDE DEF page
<1>9. \A a, b \in DOMAIN area : a < b =>
         page(area[a].from + area[a].size - 1) < page(area[b].from)
  <2> SUFFICES ASSUME NEW a \in 1 .. 4, NEW b \in 1 .. 4, a < b
               PROVE  page(area[a].from + area[a].size - 1) < page(area[b].from)
    BY <1>7
  <2>1. 0 + HeaderSize - 1 = HeaderSize - 1
    BY <1>1
  <2>2. CASE a = 1
    BY <2>1, <2>2, <1>2, <1>3, <1>4, <1>5, <1>6, <1>7
  <2>3. CASE a = 2
    BY <2>3, <1>3, <1>4, <1>5, <1>6, <1>7
  <2>4. CASE a = 3
    BY <2>4, <1>4, <1>6, <1>7
  <2>5. QED
    BY <2>2, <2>3, <2>4
<1>10. QED
  BY <1>8, <1>9 DEF area, page

-----------------------------------------------------------------------------
(* Programming page by page.                                               *)

\* The recursion of Turns has a solution, so Turns is one.
IsLoop(turn, f, at, data, n) ==
    /\ turn[0] = [ok |-> TRUE, at |-> at, flash |-> f]
    /\ \A k \in 1 .. RegionSize : turn[k] = Turn(turn[k - 1], at, data, n)

LEMMA TurnsAre ==
  ASSUME NEW f, NEW at, NEW data, NEW n, RegionSize \in Nat
  PROVE  IsLoop(Turns(f, at, data, n), f, at, data, n)
<1> DEFINE First == [ok |-> TRUE, at |-> at, flash |-> f]
           Next1(so) == Turn(so, at, data, n)
           Loop(g, m) == [k \in 0 .. m |-> IF k = 0 THEN First ELSE Next1(g[k - 1])]
           Unsolved == {m \in Nat : ~\E g : g = Loop(g, m)}
<1> HIDE DEF First, Next1
<1>1. Unsolved = {}
  <2> SUFFICES ASSUME Unsolved # {} PROVE FALSE
    OBVIOUS
  <2>1. Unsolved \subseteq Nat
    OBVIOUS
  <2>2. PICK m \in Unsolved : \A l \in Unsolved : m <= l
    BY <2>1, Least
  <2>3. m # 0
    <3>1. [k \in 0 .. 0 |-> First] = Loop([k \in 0 .. 0 |-> First], 0)
      OBVIOUS
    <3>2. QED
      BY <3>1
  <2>4. m - 1 \in Nat /\ m - 1 \notin Unsolved
    <3> HIDE DEF Unsolved
    <3>1. m \in Nat /\ ~(m <= m - 1)
      BY <2>1
    <3>2. QED
      BY <2>2, <2>3, <3>1
  <2>5. PICK g : g = Loop(g, m - 1)
    BY <2>4
  <2> DEFINE h == [k \in 0 .. m |-> IF k = m THEN Next1(g[m - 1]) ELSE g[k]]
  <2>6. ASSUME NEW k \in 0 .. m
        PROVE  h[k] = IF k = 0 THEN First ELSE Next1(h[k - 1])
    <3>1. CASE k = 0
      BY <3>1, <2>3, <2>4, <2>5
    <3>2. CASE k # 0 /\ k # m
      <4>1. k - 1 \in 0 .. m /\ k - 1 # m /\ k \in 0 .. m - 1
        BY <3>2, <2>4
      <4>2. h[k] = g[k] /\ h[k - 1] = g[k - 1]
        BY <3>2, <4>1
      <4>3. g[k] = Next1(g[k - 1])
        BY <2>5, <3>2, <4>1
      <4>4. QED
        BY <3>2, <4>2, <4>3
    <3>3. CASE k = m
      <4>1. m - 1 \in 0 .. m /\ m - 1 # m
        BY <2>3, <2>4
      <4>2. QED
        BY <3>3, <2>3, <4>1
    <3>4. QED
      BY <3>1, <3>2, <3>3
  <2>7. h = Loop(h, m)
    BY <2>6
  <2>8. QED
    BY <2>7
<1>2. PICK g : g = Loop(g, RegionSize)
  BY <1>1
<1> DEFINE turn == Turns(f, at, data, n)
<1>3. turn = Loop(turn, RegionSize)
  BY <1>2 DEF Turns, First, Next1
<1> HIDE DEF turn
<1>4. turn[0] = First
  BY <1>3
<1>5. ASSUME NEW k \in 1 .. RegionSize PROVE turn[k] = Next1(turn[k - 1])
  <2>1. k \in 0 .. RegionSize /\ k # 0
    OBVIOUS
  <2>2. QED
    BY <2>1, <1>3
<1>6. IsLoop(turn, f, at, data, n)
  BY <1>4, <1>5 DEF IsLoop, First, Next1
<1>7. QED
  BY <1>6 DEF turn

\* f with the data written below place m, and that doing so sets no bit.
Upto(f, at, data, m) ==
    [i \in Place |-> IF i \in at .. m - 1 THEN data[i - at] ELSE f[i]]

Lower(f, at, data, i) == data[i - at] \subseteq f[i]
Clears(f, at, data, m) == \A i \in at .. m - 1 : Lower(f, at, data, i)

\* What holds of the loop whenever it is at its head, and when it has ended.
LoopState == [ok : BOOLEAN, at : Nat, flash : [Place -> Byte]]
Good(so, f, at, data, n) ==
    /\ so \in LoopState
    /\ so.at \in at .. at + n
    /\ so.flash = Upto(f, at, data, so.at)
    /\ Clears(f, at, data, so.at)
    /\ ~so.ok => ~Clears(f, at, data, at + n)

\* The call: a place, a length and data that belong together.
Call(f, at, data, n) ==
    /\ f \in [Place -> Byte]
    /\ at \in Nat /\ n \in Nat /\ RangeIsValid(at, n)
    /\ data \in [0 .. n - 1 -> Byte]

\* The bytes a turn writes: some, on the page it is at, and of the data.
LEMMA TurnSize ==
  ASSUME PagesAssumption, NEW so, NEW at \in Nat, NEW n \in Nat, at + n <= RegionSize,
         so.at \in at .. at + n - 1
  PROVE  LET w == WriteSize(so, at, n)
             head == so.at - (so.at % PageSize)
         IN /\ w \in Nat \ {0} /\ so.at + w <= at + n
            /\ head \in Nat /\ head <= so.at /\ so.at + w <= head + PageSize
            /\ Page(head) \subseteq Place
            /\ \A i \in Page(head) : i \div PageSize = so.at \div PageSize
<1> DEFINE P == PageSize
           a == so.at
           w == WriteSize(so, at, n)
           head == a - (a % P)
           q == a \div P
           c == RegionSize \div P
<1>1. /\ P \in Nat \ {0} /\ RegionSize \in Nat /\ RegionSize % P = 0
      /\ a \in Nat /\ a < at + n /\ a < RegionSize
  BY DEF PagesAssumption
<1>2. /\ q \in Nat /\ c \in Nat /\ head = q * P /\ q * P <= a /\ a < q * P + P
      /\ a % P \in 0 .. P - 1 /\ RegionSize = c * P
  <2>1. \A m \in Nat : /\ m \div P \in Nat /\ m % P \in 0 .. P - 1
                       /\ m = (m \div P) * P + (m % P) /\ (m \div P) * P \in Nat
    BY <1>1
  <2>2. q \in Nat /\ a % P \in 0 .. P - 1 /\ a = q * P + (a % P) /\ q * P \in Nat
    BY <2>1, <1>1
  <2>3. c \in Nat /\ RegionSize = c * P + 0
    BY <2>1, <1>1
  <2> HIDE DEF q, c
  <2>4. c * P \in Nat
    BY <2>3, <1>1
  <2>5. QED
    BY <2>2, <2>3, <2>4, <1>1
<1>3. w \in Nat \ {0} /\ a + w <= at + n /\ w <= P - (a % P)
  BY <1>1, <1>2 DEF WriteSize
<1>4. head \in Nat /\ head <= a /\ a + w <= head + P
  BY <1>1, <1>2, <1>3
<1>5. q < c
  <2>1. c * P <= q * P \/ q < c
    <3>1. CASE c = q
      BY <3>1, <1>2
    <3>2. CASE c < q
      <4>1. c * P + P <= q * P
        BY <3>2, <1>1, <1>2, Multiples
      <4>2. c * P \in Int /\ q * P \in Int
        BY <1>1, <1>2
      <4>3. QED
        BY <4>1, <4>2, <1>1
    <3>3. QED
      BY <3>1, <3>2, <1>2
  <2>2. c * P \in Int /\ q * P \in Int
    BY <1>1, <1>2
  <2>3. QED
    BY <2>1, <2>2, <1>1, <1>2
<1>6. q * P + P <= c * P
  BY <1>1, <1>2, <1>5, Multiples
<1>7. \A i \in Page(head) : i \in Place /\ i \div P = q
  <2> SUFFICES ASSUME NEW i \in Page(head) PROVE i \in Place /\ i \div P = q
    OBVIOUS
  <2>1. i \in Nat /\ q * P <= i /\ i < q * P + P
    BY <1>2, <1>4, <1>1 DEF Page
  <2> HIDE DEF q, c
  <2>2. i \in Place
    BY <2>1, <1>1, <1>2, <1>6 DEF Place
  <2> DEFINE d == i \div P
  <2>3. d \in Int /\ d * P <= i /\ i < d * P + P /\ d * P \in Int /\ q * P \in Int
    BY <2>1, <1>1, <1>2
  <2> HIDE DEF d
  <2>4. ~(d < q)
    <3>1. SUFFICES ASSUME d < q PROVE FALSE
      OBVIOUS
    <3>2. d * P + P <= q * P
      BY <3>1, <2>3, <1>1, <1>2, Multiples
    <3>3. QED
      BY <3>2, <2>1, <2>3, <1>1
  <2>5. ~(q < d)
    <3>1. SUFFICES ASSUME q < d PROVE FALSE
      OBVIOUS
    <3>2. q * P + P <= d * P
      BY <3>1, <2>3, <1>1, <1>2, Multiples
    <3>3. QED
      BY <3>2, <2>1, <2>3, <1>1
  <2>6. d = q
    BY <2>3, <2>4, <2>5, <1>2
  <2>7. QED
    BY <2>2, <2>6 DEF d
<1>8. QED
  BY <1>3, <1>4, <1>7

\* What the buffer holds, and when the loop goes on.
LEMMA BufferIs ==
  ASSUME PagesAssumption, NEW f, NEW at, NEW data, NEW n, Call(f, at, data, n),
         NEW so, Good(so, f, at, data, n), so.at < at + n
  PROVE  LET w == WriteSize(so, at, n)
             buffer == Buffer(so, at, data, n)
         IN /\ DOMAIN buffer = Page(so.at - (so.at % PageSize))
            /\ \A i \in DOMAIN buffer : buffer[i] =
                  IF i \in so.at .. so.at + w - 1 THEN data[i - at] ELSE so.flash[i]
            /\ \A i \in so.at .. so.at + w - 1 :
                  i \in DOMAIN buffer /\ i \in Place /\ so.flash[i] = f[i]
            /\ OnlyClears(so, at, data, n) <=>
                  \A i \in so.at .. so.at + w - 1 : Lower(f, at, data, i)
<1> DEFINE w == WriteSize(so, at, n)
           buffer == Buffer(so, at, data, n)
           page == Page(so.at - (so.at % PageSize))
<1>1. at \in Nat /\ n \in Nat /\ at + n <= RegionSize /\ RegionSize \in Nat
  BY DEF Call, RangeIsValid, PagesAssumption
<1>2. so.at \in at .. at + n - 1
  BY <1>1 DEF Good
<1>3. /\ w \in Nat \ {0} /\ so.at + w <= at + n /\ page \subseteq Place
      /\ so.at - (so.at % PageSize) <= so.at
      /\ so.at + w <= so.at - (so.at % PageSize) + PageSize
      /\ so.at - (so.at % PageSize) \in Nat
  BY <1>1, <1>2, TurnSize
<1>4. DOMAIN buffer = page
  BY DEF Buffer
<1>5. \A i \in page : buffer[i] =
         IF i \in so.at .. so.at + w - 1 THEN data[i - at] ELSE so.flash[i]
  BY DEF Buffer
<1>6. \A i \in so.at .. so.at + w - 1 : i \in page
  <2>1. PageSize \in Nat
    BY DEF PagesAssumption
  <2>2. QED
    BY <1>1, <1>2, <1>3, <2>1 DEF Page
<1>7. \A i \in so.at .. so.at + w - 1 : i \in Place /\ so.flash[i] = f[i]
  <2> SUFFICES ASSUME NEW i \in so.at .. so.at + w - 1
               PROVE  i \in Place /\ so.flash[i] = f[i]
    OBVIOUS
  <2>1. i \in Place
    BY <1>3, <1>6
  <2>2. i \notin at .. so.at - 1
    BY <1>1, <1>2, <1>3
  <2>3. so.flash = Upto(f, at, data, so.at)
    BY DEF Good
  <2>4. QED
    BY <2>1, <2>2, <2>3 DEF Upto
<1> HIDE DEF page, buffer, w
<1>8. OnlyClears(so, at, data, n) <=>
         \A i \in so.at .. so.at + w - 1 : Lower(f, at, data, i)
  BY <1>5, <1>6, <1>7 DEF OnlyClears, Lower, w, buffer
<1>9. QED
  BY <1>4, <1>5, <1>6, <1>7, <1>8 DEF page, buffer, w

\* A turn of the loop keeps it good, and writes at least a byte.
LEMMA TurnIsGood ==
  ASSUME PagesAssumption, NEW f, NEW at, NEW data, NEW n, Call(f, at, data, n),
         NEW so, Good(so, f, at, data, n)
  PROVE  LET next == Turn(so, at, data, n)
         IN /\ Good(next, f, at, data, n)
            /\ next.ok => so.ok /\ (next.at = at + n \/ next.at > so.at)
<1> DEFINE w == WriteSize(so, at, n)
           buffer == Buffer(so, at, data, n)
           next == Turn(so, at, data, n)
<1>1. /\ at \in Nat /\ n \in Nat /\ at + n <= RegionSize /\ RegionSize \in Nat
      /\ f \in [Place -> Byte] /\ data \in [0 .. n - 1 -> Byte]
  BY DEF Call, RangeIsValid, PagesAssumption
<1>2. /\ so \in LoopState /\ so.at \in at .. at + n /\ so.flash = Upto(f, at, data, so.at)
      /\ Clears(f, at, data, so.at) /\ (~so.ok => ~Clears(f, at, data, at + n))
  BY DEF Good
<1>3. CASE ~Running(so, at, n)
  <2>1. next = so
    BY <1>3 DEF Turn
  <2>2. so.ok => so.at = at + n
    BY <1>1, <1>2, <1>3 DEF Running
  <2> HIDE DEF next
  <2>3. QED
    BY <2>1, <2>2 DEF next
<1>4. CASE Running(so, at, n)
  <2>1. so.ok /\ so.at < at + n /\ so.at \in at .. at + n - 1
    BY <1>1, <1>2, <1>4 DEF Running, LoopState
  <2>2. /\ DOMAIN buffer = Page(so.at - (so.at % PageSize))
        /\ \A i \in DOMAIN buffer : buffer[i] =
              IF i \in so.at .. so.at + w - 1 THEN data[i - at] ELSE so.flash[i]
        /\ \A i \in so.at .. so.at + w - 1 :
              i \in DOMAIN buffer /\ i \in Place /\ so.flash[i] = f[i]
        /\ OnlyClears(so, at, data, n) <=>
              \A i \in so.at .. so.at + w - 1 : Lower(f, at, data, i)
    BY <2>1, BufferIs
  <2>3. /\ w \in Nat \ {0} /\ so.at + w <= at + n
        /\ Page(so.at - (so.at % PageSize)) \subseteq Place
    BY <1>1, <2>1, TurnSize
  <2> HIDE DEF buffer, w
  <2>4. CASE ~OnlyClears(so, at, data, n)
    <3>1. next = [so EXCEPT !.ok = FALSE]
      BY <1>4, <2>4 DEF Turn
    <3>2. next.at = so.at /\ next.flash = so.flash /\ next.ok = FALSE /\ next \in LoopState
      BY <3>1, <1>2 DEF LoopState
    <3>3. PICK i \in so.at .. so.at + w - 1 : ~(Lower(f, at, data, i))
      BY <2>2, <2>4
    <3>4. i \in at .. at + n - 1
      BY <2>1, <2>3, <1>1
    <3>5. ~Clears(f, at, data, at + n)
      BY <3>3, <3>4, <1>1 DEF Clears
    <3> HIDE DEF next
    <3>6. QED
      BY <3>2, <3>5, <1>2 DEF Good, next
  <2>5. CASE OnlyClears(so, at, data, n)
    <3>1. next = [ok |-> TRUE, at |-> so.at + w, flash |-> Flashed(so.flash, buffer)]
      BY <1>4, <2>5 DEF Turn, w, buffer
    <3>2. next.ok = TRUE /\ next.at = so.at + w /\ next.flash = Flashed(so.flash, buffer)
      BY <3>1
    <3> DEFINE m == so.at + w
               g == Upto(f, at, data, m)
    <3>3. ASSUME NEW i \in Place PROVE Flashed(so.flash, buffer)[i] = g[i]
      <4>1. so.flash[i] = IF i \in at .. so.at - 1 THEN data[i - at] ELSE f[i]
        BY <1>2 DEF Upto
      <4>2. Flashed(so.flash, buffer)[i] =
               IF i \in so.at .. so.at + w - 1 THEN data[i - at] ELSE so.flash[i]
        BY <2>2 DEF Flashed
      <4>3. i \in Int
        BY <1>1 DEF Place
      <4>4. i \in at .. so.at + w - 1 <=> i \in at .. so.at - 1 \/ i \in so.at .. so.at + w - 1
        BY <4>3, <2>1, <2>3, <1>1
      <4>5. g[i] = IF i \in at .. so.at + w - 1 THEN data[i - at] ELSE f[i]
        BY <2>1, <2>3, <1>1 DEF Upto
      <4> HIDE DEF g
      <4>6. QED
        BY <4>1, <4>2, <4>4, <4>5
    <3>4. Flashed(so.flash, buffer) = g
      BY <3>3 DEF Flashed, Upto
    <3>5. g \in [Place -> Byte]
      <4>1. ASSUME NEW i \in at .. so.at + w - 1 PROVE data[i - at] \in Byte
        <5>1. i - at \in 0 .. n - 1
          BY <1>1, <2>1, <2>3
        <5>2. QED
          BY <5>1, <1>1
      <4>2. ASSUME NEW i \in Place PROVE f[i] \in Byte
        BY <1>1
      <4>3. g = [i \in Place |-> IF i \in at .. so.at + w - 1 THEN data[i - at] ELSE f[i]]
        BY <2>1, <2>3, <1>1 DEF Upto
      <4> HIDE DEF g
      <4>4. QED
        BY <4>1, <4>2, <4>3
    <3>6. Clears(f, at, data, so.at + w)
      <4> SUFFICES ASSUME NEW i \in at .. so.at + w - 1 PROVE Lower(f, at, data, i)
        BY <2>1, <2>3, <1>1 DEF Clears
      <4>1. i \in at .. so.at - 1 \/ i \in so.at .. so.at + w - 1
        BY <2>1, <2>3, <1>1
      <4>2. CASE i \in at .. so.at - 1
        <5>1. Clears(f, at, data, so.at)
          BY <1>2
        <5>2. QED
          BY <4>2, <5>1 DEF Clears
      <4>3. CASE i \in so.at .. so.at + w - 1
        BY <4>3, <2>2, <2>5
      <4>4. QED
        BY <4>1, <4>2, <4>3
    <3>7. so.at + w \in Nat /\ so.at + w \in at .. at + n /\ so.at + w > so.at
      BY <1>1, <2>1, <2>3
    <3> HIDE DEF g
    <3>8. next \in LoopState
      BY <3>1, <3>4, <3>5, <3>7 DEF LoopState
    <3> HIDE DEF next
    <3>9. QED
      BY <3>2, <3>4, <3>6, <3>7, <3>8, <2>1 DEF Good, next, g
  <2>6. QED
    BY <2>4, <2>5
<1>5. QED
  BY <1>3, <1>4

\* After every number of turns the loop is good, and if it has not failed it
\* has written everything or a byte for every turn.
LEMMA TurnsAreGood ==
  ASSUME PagesAssumption, NEW f, NEW at, NEW data, NEW n, Call(f, at, data, n),
         NEW k \in 0 .. RegionSize
  PROVE  LET so == Turns(f, at, data, n)[k]
         IN Good(so, f, at, data, n) /\ (so.ok => so.at = at + n \/ so.at >= at + k)
<1> DEFINE turn(m) == Turns(f, at, data, n)[m]
           Fine(m) == /\ Good(turn(m), f, at, data, n)
                      /\ turn(m).ok => turn(m).at = at + n \/ turn(m).at >= at + m
           Odd == {m \in 0 .. RegionSize : ~Fine(m)}
<1>1. /\ at \in Nat /\ n \in Nat /\ RegionSize \in Nat
      /\ f \in [Place -> Byte] /\ data \in [0 .. n - 1 -> Byte]
  BY DEF Call, PagesAssumption
<1>2. Fine(0)
  <2>1. turn(0) = [ok |-> TRUE, at |-> at, flash |-> f]
    BY TurnsAre, <1>1 DEF IsLoop
  <2>2. turn(0).ok = TRUE /\ turn(0).at = at /\ turn(0).flash = f /\ turn(0) \in LoopState
    BY <2>1, <1>1 DEF LoopState
  <2>3. at .. at - 1 = {}
    BY <1>1
  <2>4. Upto(f, at, data, at) = f /\ Clears(f, at, data, at)
    BY <2>3, <1>1 DEF Upto, Clears
  <2> HIDE DEF turn
  <2>5. QED
    BY <2>2, <2>4, <1>1 DEF Good
<1>3. Odd = {}
  <2>s. SUFFICES ASSUME Odd # {} PROVE FALSE
    OBVIOUS
  <2>1. PICK m \in Odd : \A l \in Odd : m <= l
    <3>1. Odd \subseteq Nat
      BY <1>1
    <3> HIDE DEF Odd
    <3>2. QED
      BY <3>1, Least, <2>s
  <2>2. m \in 0 .. RegionSize /\ ~Fine(m) /\ m # 0
    BY <1>2
  <2>3. m \in 1 .. RegionSize /\ m - 1 \in 0 .. RegionSize /\ ~(m <= m - 1)
    BY <2>2, <1>1
  <2>4. Fine(m - 1)
    BY <2>1, <2>3
  <2>5. turn(m) = Turn(turn(m - 1), at, data, n)
    <3>1. IsLoop(Turns(f, at, data, n), f, at, data, n)
      BY TurnsAre, <1>1
    <3>2. QED
      BY <3>1, <2>3 DEF IsLoop
  <2> HIDE DEF turn
  <2>6. /\ Good(turn(m), f, at, data, n)
        /\ turn(m).ok => turn(m - 1).ok /\ (turn(m).at = at + n \/ turn(m).at > turn(m - 1).at)
    BY <2>4, <2>5, TurnIsGood
  <2>7. turn(m).ok => turn(m).at = at + n \/ turn(m).at >= at + m
    <3>1. turn(m).at \in at .. at + n /\ turn(m - 1).at \in at .. at + n
      BY <2>4, <2>6 DEF Good
    <3>2. QED
      BY <3>1, <2>3, <2>4, <2>6, <1>1
  <2>8. QED
    BY <2>2, <2>6, <2>7
<1>4. QED
  BY <1>3

\* A turn that was to write w bytes was left with some of their bits cleared.
TornState(r, so, f, at, data, n, w) ==
    /\ so.at \in at .. at + n - 1 /\ w \in Nat \ {0} /\ so.at + w <= at + n
    /\ r.ok = FALSE
    /\ \A i \in Place : i \notin so.at .. so.at + w - 1 => r.flash[i] = so.flash[i]
    /\ \A i \in so.at .. so.at + w - 1 :
          /\ data[i - at] \subseteq r.flash[i] /\ r.flash[i] \subseteq f[i]
          /\ i \div PageSize = so.at \div PageSize

\* What is left when the chip fails within a turn.
LEMMA TornLeaves ==
  ASSUME PagesAssumption, NEW f, NEW at, NEW data, NEW n, Call(f, at, data, n),
         NEW so, Good(so, f, at, data, n), NEW r \in Torn(so, at, data, n)
  PROVE  TornState(r, so, f, at, data, n, WriteSize(so, at, n))
<1> DEFINE w == WriteSize(so, at, n)
           buffer == Buffer(so, at, data, n)
           written == so.at .. so.at + w - 1
           Left(i) == {b \in Byte : buffer[i] \subseteq b /\ b \subseteq so.flash[i]}
<1>1. /\ at \in Nat /\ n \in Nat /\ at + n <= RegionSize /\ RegionSize \in Nat
  BY DEF Call, RangeIsValid, PagesAssumption
<1>2. Running(so, at, n)
  BY DEF Torn
<1>3. so.at \in at .. at + n - 1
  BY <1>1, <1>2 DEF Running, Good
<1>4. PICK part \in {p \in [written -> Byte] : \A i \in written : p[i] \in Left(i)} :
          r = [ok |-> FALSE, at |-> so.at, flash |-> Flashed(so.flash, part)]
  BY DEF Torn
<1>5. r.ok = FALSE /\ r.flash = Flashed(so.flash, part)
  BY <1>4
<1>6. /\ w \in Nat \ {0} /\ so.at + w <= at + n
      /\ \A i \in Page(so.at - (so.at % PageSize)) : i \div PageSize = so.at \div PageSize
  BY <1>1, <1>3, TurnSize
<1>7. so.at < at + n
  BY <1>1, <1>3
<1>8. /\ DOMAIN buffer = Page(so.at - (so.at % PageSize))
      /\ \A i \in DOMAIN buffer : buffer[i] =
            IF i \in so.at .. so.at + w - 1 THEN data[i - at] ELSE so.flash[i]
      /\ \A i \in so.at .. so.at + w - 1 :
            i \in DOMAIN buffer /\ i \in Place /\ so.flash[i] = f[i]
  BY <1>7, BufferIs
<1>9. DOMAIN part = written /\ \A i \in written : part[i] \in Left(i)
  BY <1>4
<1> HIDE DEF buffer, w
<1>10. \A i \in Place : i \notin written => r.flash[i] = so.flash[i]
  BY <1>5, <1>9 DEF Flashed
<1>11. ASSUME NEW i \in written
       PROVE  /\ data[i - at] \subseteq r.flash[i] /\ r.flash[i] \subseteq f[i]
              /\ i \div PageSize = so.at \div PageSize
  <2>1. r.flash[i] = part[i]
    BY <1>5, <1>8, <1>9 DEF Flashed
  <2>2. buffer[i] = data[i - at] /\ so.flash[i] = f[i]
    BY <1>8
  <2>3. buffer[i] \subseteq part[i] /\ part[i] \subseteq so.flash[i]
    BY <1>9
  <2>4. i \div PageSize = so.at \div PageSize
    BY <1>6, <1>8
  <2>5. QED
    BY <2>1, <2>2, <2>3, <2>4
<1>12. TornState(r, so, f, at, data, n, w)
  BY <1>3, <1>5, <1>6, <1>10, <1>11 DEF TornState
<1>13. QED
  BY <1>12 DEF w

\* One byte after a call, in terms of what it was and what it should be.
ByteIsAnOutcome(r, f, at, data, n, i) ==
    /\ r.flash[i] \subseteq f[i]
    /\ r.ok => r.flash[i] = data[i - at]
    /\ ~r.ok => r.flash[i] = f[i] \/ data[i - at] \subseteq r.flash[i]
    /\ r.flash[i] # f[i] =>
          \A j \in at .. at + n - 1 : j \div PageSize < i \div PageSize =>
             r.flash[j] = data[j - at]

Outcome(r, f, at, data, n) ==
    /\ \A i \in Place \ (at .. at + n - 1) : r.flash[i] = f[i]
    /\ \A i \in at .. at + n - 1 : ByteIsAnOutcome(r, f, at, data, n, i)

\* The loop itself leaves an outcome whenever it has ended.
LEMMA GoodIsOutcome ==
  ASSUME PagesAssumption, NEW f, NEW at, NEW data, NEW n, Call(f, at, data, n),
         NEW r, Good(r, f, at, data, n), r.ok => r.at = at + n
  PROVE  Outcome(r, f, at, data, n)
<1>1. /\ at \in Nat /\ n \in Nat /\ at + n <= RegionSize /\ RegionSize \in Nat
      /\ f \in [Place -> Byte] /\ PageSize \in Nat \ {0}
  BY DEF Call, RangeIsValid, PagesAssumption
<1>2. r.at \in at .. at + n /\ r.flash = Upto(f, at, data, r.at) /\ Clears(f, at, data, r.at)
  BY DEF Good
<1>3. \A i \in Place : r.flash[i] = IF i \in at .. r.at - 1 THEN data[i - at] ELSE f[i]
  BY <1>2 DEF Upto
<1>4. \A i \in Place \ (at .. at + n - 1) : r.flash[i] = f[i]
  <2> SUFFICES ASSUME NEW i \in Place, i \notin at .. at + n - 1 PROVE r.flash[i] = f[i]
    OBVIOUS
  <2>1. i \notin at .. r.at - 1
    BY <1>1, <1>2
  <2>2. QED
    BY <2>1, <1>3
<1>5. ASSUME NEW i \in at .. at + n - 1 PROVE ByteIsAnOutcome(r, f, at, data, n, i)
  <2>1. i \in Place /\ i \in Int
    BY <1>1 DEF Place
  <2>2. CASE i \in at .. r.at - 1
    <3>1. r.flash[i] = data[i - at]
      BY <2>1, <2>2, <1>3
    <3>2. r.flash[i] \subseteq f[i]
      BY <2>2, <3>1, <1>2 DEF Clears, Lower
    <3>3. ASSUME NEW j \in at .. at + n - 1, j \div PageSize < i \div PageSize
          PROVE  r.flash[j] = data[j - at]
      <4>1. j < i
        BY <2>1, <3>3, <1>1, PagesInOrder
      <4>2. j \in at .. r.at - 1 /\ j \in Place
        BY <4>1, <2>2, <1>1, <1>2 DEF Place
      <4>3. QED
        BY <4>2, <1>3
    <3>4. QED
      BY <3>1, <3>2, <3>3 DEF ByteIsAnOutcome
  <2>3. CASE i \notin at .. r.at - 1
    <3>1. r.flash[i] = f[i]
      BY <2>1, <2>3, <1>3
    <3>2. ~r.ok
      BY <2>3, <1>1, <1>2
    <3>3. QED
      BY <3>1, <3>2 DEF ByteIsAnOutcome
  <2>4. QED
    BY <2>2, <2>3
<1>6. QED
  BY <1>4, <1>5 DEF Outcome

LEMMA TornIsOutcome ==
  ASSUME PagesAssumption, NEW f, NEW at, NEW data, NEW n, Call(f, at, data, n),
         NEW so, Good(so, f, at, data, n), NEW r \in Torn(so, at, data, n)
  PROVE  Outcome(r, f, at, data, n)
<1> DEFINE w == WriteSize(so, at, n)
<1>1. /\ at \in Nat /\ n \in Nat /\ at + n <= RegionSize /\ RegionSize \in Nat
      /\ f \in [Place -> Byte] /\ PageSize \in Nat \ {0}
  BY DEF Call, RangeIsValid, PagesAssumption
<1>2. /\ so.flash = Upto(f, at, data, so.at) /\ Clears(f, at, data, so.at)
  BY DEF Good
<1>3. /\ so.at \in at .. at + n - 1 /\ w \in Nat \ {0} /\ so.at + w <= at + n
      /\ r.ok = FALSE
      /\ \A i \in Place : i \notin so.at .. so.at + w - 1 => r.flash[i] = so.flash[i]
      /\ \A i \in so.at .. so.at + w - 1 :
            /\ data[i - at] \subseteq r.flash[i] /\ r.flash[i] \subseteq f[i]
            /\ i \div PageSize = so.at \div PageSize
  <2>1. TornState(r, so, f, at, data, n, w)
    BY TornLeaves
  <2> HIDE DEF w
  <2>2. QED
    BY <2>1 DEF TornState
<1> HIDE DEF w
<1>s. /\ so.at \in Nat /\ w \in Nat \ {0} /\ at <= so.at /\ so.at + w <= at + n
      /\ so.at < at + n /\ so.at + w \in Nat
  BY <1>1, <1>3
<1>4. \A i \in Place : so.flash[i] = IF i \in at .. so.at - 1 THEN data[i - at] ELSE f[i]
  BY <1>2 DEF Upto
<1>5. \A i \in at .. so.at - 1 : i \in Place /\ r.flash[i] = data[i - at]
  <2> SUFFICES ASSUME NEW i \in at .. so.at - 1
               PROVE  i \in Place /\ r.flash[i] = data[i - at]
    OBVIOUS
  <2>1. i \in Place
    <3>1. so.at \in Nat /\ so.at <= RegionSize
      BY <1>1, <1>s
    <3>2. i \in Nat /\ i <= RegionSize - 1
      BY <3>1, <1>1
    <3>3. QED
      BY <3>2, <1>1 DEF Place
  <2>2. i \notin so.at .. so.at + w - 1
    BY <1>1, <1>s
  <2>3. QED
    BY <2>1, <2>2, <1>3, <1>4
<1>6. \A i \in Place \ (at .. at + n - 1) : r.flash[i] = f[i]
  <2> SUFFICES ASSUME NEW i \in Place, i \notin at .. at + n - 1 PROVE r.flash[i] = f[i]
    OBVIOUS
  <2>1. i \notin at .. so.at - 1 /\ i \notin so.at .. so.at + w - 1
    <3>1. i \in Nat /\ (i < at \/ i >= at + n)
      BY <1>1 DEF Place
    <3>2. QED
      BY <3>1, <1>1, <1>s
  <2>2. QED
    BY <2>1, <1>3, <1>4
<1>7. ASSUME NEW i \in at .. at + n - 1, NEW j \in at .. at + n - 1,
             i < so.at + w, j \div PageSize < i \div PageSize
      PROVE  r.flash[j] = data[j - at]
  <2>1. i \in Int /\ j \in Int /\ so.at \in Int
    BY <1>1, <1>3
  <2>2. j < so.at
    <3>1. CASE i < so.at
      <4>1. j < i
        BY <1>7, <2>1, <1>1, PagesInOrder
      <4>2. QED
        BY <4>1, <3>1, <2>1
    <3>2. CASE ~(i < so.at)
      <4>1. i \in so.at .. so.at + w - 1
        BY <3>2, <1>7, <1>3, <2>1
      <4>2. j \div PageSize < so.at \div PageSize
        BY <4>1, <1>3, <1>7
      <4>3. QED
        BY <4>2, <2>1, <1>1, PagesInOrder
    <3>3. QED
      BY <3>1, <3>2
  <2>3. j \in at .. so.at - 1
    BY <2>1, <2>2, <1>1
  <2>4. QED
    BY <2>3, <1>5
<1>8. ASSUME NEW i \in at .. at + n - 1 PROVE ByteIsAnOutcome(r, f, at, data, n, i)
  <2>1. i \in Place /\ i \in Int
    BY <1>1 DEF Place
  <2>2. CASE i \in at .. so.at - 1
    <3>1. r.flash[i] = data[i - at] /\ i < so.at + w
      BY <2>1, <2>2, <1>1, <1>3, <1>5
    <3>2. r.flash[i] \subseteq f[i]
      BY <2>2, <3>1, <1>2 DEF Clears, Lower
    <3>3. QED
      BY <3>1, <3>2, <1>3, <1>7 DEF ByteIsAnOutcome
  <2>3. CASE i \in so.at .. so.at + w - 1
    <3>1. i < so.at + w
      BY <2>1, <2>3, <1>1, <1>s
    <3>2. data[i - at] \subseteq r.flash[i] /\ r.flash[i] \subseteq f[i]
      BY <2>3, <1>3
    <3>3. QED
      BY <3>1, <3>2, <1>3, <1>7 DEF ByteIsAnOutcome
  <2>4. CASE i \notin at .. so.at - 1 /\ i \notin so.at .. so.at + w - 1
    <3>1. r.flash[i] = f[i]
      BY <2>1, <2>4, <1>3, <1>4
    <3>2. QED
      BY <3>1, <1>3 DEF ByteIsAnOutcome
  <2>5. QED
    BY <2>2, <2>3, <2>4
<1>9. QED
  BY <1>6, <1>8 DEF Outcome

\* persistence_flash_program, for every page and region size, place, length
\* and contents: it succeeds, if it can at all, with the data in place and
\* nothing else changed; it fails with each byte somewhere on the way, page
\* after page.  This is what Persistence takes a flash operation to be.
THEOREM ProgramHasOneOutcome ==
  ASSUME PagesAssumption, NEW f \in [Place -> Byte], NEW at \in Nat, NEW n \in Nat,
         NEW data \in [0 .. n - 1 -> Byte]
  PROVE  ProgramIsAnOutcome(f, at, data, n)
<1> DEFINE written == at .. at + n - 1
           possible == RangeIsValid(at, n) /\ \A i \in written : data[i - at] \subseteq f[i]
           results == Program(f, at, data, n)
<1>1. CASE ~RangeIsValid(at, n)
  <2>1. results = { [ok |-> FALSE, at |-> at, flash |-> f] }
    BY <1>1 DEF Program
  <2>2. \A r \in results : r.ok = FALSE /\ r.flash = f
    BY <2>1
  <2> HIDE DEF results
  <2>3. QED
    BY <1>1, <2>2 DEF ProgramIsAnOutcome, results
<1>2. CASE RangeIsValid(at, n)
  <2> DEFINE turn == Turns(f, at, data, n)
             last == turn[RegionSize]
  <2>1. Call(f, at, data, n)
    BY <1>2 DEF Call
  <2>2. /\ RegionSize \in Nat /\ at + n <= RegionSize
    BY <1>2 DEF PagesAssumption, RangeIsValid
  <2>3. \A k \in 0 .. RegionSize : Good(turn[k], f, at, data, n)
    BY <2>1, TurnsAreGood
  <2>4. Good(last, f, at, data, n) /\ (last.ok => last.at = at + n)
    <3>1. Good(last, f, at, data, n) /\ (last.ok => last.at = at + n \/ last.at >= at + RegionSize)
      BY <2>1, <2>2, TurnsAreGood
    <3>2. last.at \in at .. at + n
      BY <3>1 DEF Good
    <3> HIDE DEF last
    <3>3. QED
      BY <3>1, <3>2, <2>2
  <2>5. results = {last} \cup UNION {Torn(turn[k], at, data, n) : k \in 0 .. RegionSize}
    BY <1>2 DEF Program
  <2> HIDE DEF results, last, turn
  <2>6. ASSUME NEW r \in results PROVE Outcome(r, f, at, data, n)
    <3>1. CASE r = last
      BY <3>1, <2>1, <2>4, GoodIsOutcome
    <3>2. CASE r # last
      <4>1. PICK k \in 0 .. RegionSize : r \in Torn(turn[k], at, data, n)
        BY <3>2, <2>5
      <4>2. QED
        BY <4>1, <2>1, <2>3, TornIsOutcome
    <3>3. QED
      BY <3>1, <3>2
  <2>7. possible <=> \E r \in results : r.ok
    <3>1. ASSUME possible PROVE last \in results /\ last.ok
      <4>1. Clears(f, at, data, at + n)
        BY <3>1, <2>2 DEF Clears, Lower
      <4>2. last.ok \in BOOLEAN
        BY <2>4 DEF Good, LoopState
      <4>3. QED
        BY <4>1, <4>2, <2>4, <2>5 DEF Good
    <3>2. ASSUME NEW r \in results, r.ok PROVE possible
      <4>1. ASSUME NEW i \in written PROVE data[i - at] \subseteq f[i]
        BY <2>6, <3>2 DEF Outcome, ByteIsAnOutcome
      <4>2. QED
        BY <4>1, <1>2
    <3>3. QED
      BY <3>1, <3>2
  <2>8. \A r \in results :
           /\ \A i \in Place \ written : r.flash[i] = f[i]
           /\ \A i \in written : ByteIsAnOutcome(r, f, at, data, n, i)
    BY <2>6 DEF Outcome
  <2>9. QED
    BY <2>7, <2>8 DEF ProgramIsAnOutcome, ByteIsAnOutcome, results
<1>3. QED
  BY <1>1, <1>2
=============================================================================
