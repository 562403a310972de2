---------------------------- MODULE ProgressProofs ----------------------------
(* Proofs about ProgressFormat, for an array of any number of bytes.       *)
EXTENDS ProgressFormat, TLAPS

-----------------------------------------------------------------------------
(* Bits.                                                                   *)

ByteShift == {0, 2, 4, 6}
At(byte, k) == (byte \div 2^k) % 4

LEMMA Powers ==
    /\ 2^0 = 1 /\ 2^1 = 2 /\ 2^2 = 4 /\ 2^3 = 8
    /\ 2^4 = 16 /\ 2^5 = 32 /\ 2^6 = 64 /\ 2^7 = 128
  OBVIOUS

\* The four pairs of a byte, without powers.
LEMMA Pairs ==
    ASSUME NEW c
    PROVE  /\ At(c, 0) = (c \div 1) % 4 /\ At(c, 2) = (c \div 4) % 4
           /\ At(c, 4) = (c \div 16) % 4 /\ At(c, 6) = (c \div 64) % 4
  BY Powers DEF At

\* Clearing the upper bit of a pair 11, or the lower one of a pair 01,
\* changes that pair and no other of its byte.
LEMMA ClearUpper ==
    ASSUME NEW b \in Byte, NEW k \in ByteShift, BitSet(b, k + 1), BitSet(b, k)
    PROVE  /\ b - 2^(k + 1) \in Byte
           /\ At(b, k) = 3 /\ At(b - 2^(k + 1), k) = 1
           /\ \A j \in ByteShift \ {k} : At(b - 2^(k + 1), j) = At(b, j)
  <1> USE DEF Byte
  <1>1. CASE k = 0
    <2>1. 2^k = 1 /\ 2^(k + 1) = 2
      BY <1>1, Powers
    <2>2. (b \div 1) % 2 = 1 /\ (b \div 2) % 2 = 1
      BY <2>1 DEF BitSet
    <2>3. b - 2 \in 0 .. 255 /\ (b \div 1) % 4 = 3 /\ ((b - 2) \div 1) % 4 = 1
      BY SMTT(30), <2>2
    <2>4. /\ ((b - 2) \div 4) % 4 = (b \div 4) % 4
          /\ ((b - 2) \div 16) % 4 = (b \div 16) % 4
          /\ ((b - 2) \div 64) % 4 = (b \div 64) % 4
      BY SMTT(30), <2>2
    <2>5. At(b, 0) = 3 /\ At(b - 2, 0) = 1
      BY <2>3, Pairs
    <2>6. \A j \in {2, 4, 6} : At(b - 2, j) = At(b, j)
      BY <2>4, Pairs
    <2> QED BY <1>1, <2>1, <2>3, <2>5, <2>6 DEF ByteShift
  <1>2. CASE k = 2
    <2>1. 2^k = 4 /\ 2^(k + 1) = 8
      BY <1>2, Powers
    <2>2. (b \div 4) % 2 = 1 /\ (b \div 8) % 2 = 1
      BY <2>1 DEF BitSet
    <2>3. b - 8 \in 0 .. 255 /\ (b \div 4) % 4 = 3 /\ ((b - 8) \div 4) % 4 = 1
      BY SMTT(30), <2>2
    <2>4. /\ ((b - 8) \div 1) % 4 = (b \div 1) % 4
          /\ ((b - 8) \div 16) % 4 = (b \div 16) % 4
          /\ ((b - 8) \div 64) % 4 = (b \div 64) % 4
      BY SMTT(30), <2>2
    <2>5. At(b, 2) = 3 /\ At(b - 8, 2) = 1
      BY <2>3, Pairs
    <2>6. \A j \in {0, 4, 6} : At(b - 8, j) = At(b, j)
      BY <2>4, Pairs
    <2> QED BY <1>2, <2>1, <2>3, <2>5, <2>6 DEF ByteShift
  <1>3. CASE k = 4
    <2>1. 2^k = 16 /\ 2^(k + 1) = 32
      BY <1>3, Powers
    <2>2. (b \div 16) % 2 = 1 /\ (b \div 32) % 2 = 1
      BY <2>1 DEF BitSet
    <2>3. b - 32 \in 0 .. 255 /\ (b \div 16) % 4 = 3 /\ ((b - 32) \div 16) % 4 = 1
      BY SMTT(30), <2>2
    <2>4. /\ ((b - 32) \div 1) % 4 = (b \div 1) % 4
          /\ ((b - 32) \div 4) % 4 = (b \div 4) % 4
          /\ ((b - 32) \div 64) % 4 = (b \div 64) % 4
      BY SMTT(30), <2>2
    <2>5. At(b, 4) = 3 /\ At(b - 32, 4) = 1
      BY <2>3, Pairs
    <2>6. \A j \in {0, 2, 6} : At(b - 32, j) = At(b, j)
      BY <2>4, Pairs
    <2> QED BY <1>3, <2>1, <2>3, <2>5, <2>6 DEF ByteShift
  <1>4. CASE k = 6
    <2>1. 2^k = 64 /\ 2^(k + 1) = 128
      BY <1>4, Powers
    <2>2. (b \div 64) % 2 = 1 /\ (b \div 128) % 2 = 1
      BY <2>1 DEF BitSet
    <2>3. b - 128 \in 0 .. 255 /\ (b \div 64) % 4 = 3 /\ ((b - 128) \div 64) % 4 = 1
      BY SMTT(30), <2>2
    <2>4. /\ ((b - 128) \div 1) % 4 = (b \div 1) % 4
          /\ ((b - 128) \div 4) % 4 = (b \div 4) % 4
          /\ ((b - 128) \div 16) % 4 = (b \div 16) % 4
      BY SMTT(30), <2>2
    <2>5. At(b, 6) = 3 /\ At(b - 128, 6) = 1
      BY <2>3, Pairs
    <2>6. \A j \in {0, 2, 4} : At(b - 128, j) = At(b, j)
      BY <2>4, Pairs
    <2> QED BY <1>4, <2>1, <2>3, <2>5, <2>6 DEF ByteShift
  <1> QED BY <1>1, <1>2, <1>3, <1>4 DEF ByteShift

LEMMA ClearLower ==
    ASSUME NEW b \in Byte, NEW k \in ByteShift, ~BitSet(b, k + 1), BitSet(b, k)
    PROVE  /\ b - 2^k \in Byte
           /\ At(b, k) = 1 /\ At(b - 2^k, k) = 0
           /\ \A j \in ByteShift \ {k} : At(b - 2^k, j) = At(b, j)
  <1> USE DEF Byte
  <1>1. CASE k = 0
    <2>1. 2^k = 1 /\ 2^(k + 1) = 2
      BY <1>1, Powers
    <2>2. (b \div 1) % 2 = 1 /\ (b \div 2) % 2 # 1
      BY <2>1 DEF BitSet
    <2>3. b - 1 \in 0 .. 255 /\ (b \div 1) % 4 = 1 /\ ((b - 1) \div 1) % 4 = 0
      BY SMTT(30), <2>2
    <2>4. /\ ((b - 1) \div 4) % 4 = (b \div 4) % 4
          /\ ((b - 1) \div 16) % 4 = (b \div 16) % 4
          /\ ((b - 1) \div 64) % 4 = (b \div 64) % 4
      BY SMTT(30), <2>2
    <2>5. At(b, 0) = 1 /\ At(b - 1, 0) = 0
      BY <2>3, Pairs
    <2>6. \A j \in {2, 4, 6} : At(b - 1, j) = At(b, j)
      BY <2>4, Pairs
    <2> QED BY <1>1, <2>1, <2>3, <2>5, <2>6 DEF ByteShift
  <1>2. CASE k = 2
    <2>1. 2^k = 4 /\ 2^(k + 1) = 8
      BY <1>2, Powers
    <2>2. (b \div 4) % 2 = 1 /\ (b \div 8) % 2 # 1
      BY <2>1 DEF BitSet
    <2>3. b - 4 \in 0 .. 255 /\ (b \div 4) % 4 = 1 /\ ((b - 4) \div 4) % 4 = 0
      BY SMTT(30), <2>2
    <2>4. /\ ((b - 4) \div 1) % 4 = (b \div 1) % 4
          /\ ((b - 4) \div 16) % 4 = (b \div 16) % 4
          /\ ((b - 4) \div 64) % 4 = (b \div 64) % 4
      BY SMTT(30), <2>2
    <2>5. At(b, 2) = 1 /\ At(b - 4, 2) = 0
      BY <2>3, Pairs
    <2>6. \A j \in {0, 4, 6} : At(b - 4, j) = At(b, j)
      BY <2>4, Pairs
    <2> QED BY <1>2, <2>1, <2>3, <2>5, <2>6 DEF ByteShift
  <1>3. CASE k = 4
    <2>1. 2^k = 16 /\ 2^(k + 1) = 32
      BY <1>3, Powers
    <2>2. (b \div 16) % 2 = 1 /\ (b \div 32) % 2 # 1
      BY <2>1 DEF BitSet
    <2>3. b - 16 \in 0 .. 255 /\ (b \div 16) % 4 = 1 /\ ((b - 16) \div 16) % 4 = 0
      BY SMTT(30), <2>2
    <2>4. /\ ((b - 16) \div 1) % 4 = (b \div 1) % 4
          /\ ((b - 16) \div 4) % 4 = (b \div 4) % 4
          /\ ((b - 16) \div 64) % 4 = (b \div 64) % 4
      BY SMTT(30), <2>2
    <2>5. At(b, 4) = 1 /\ At(b - 16, 4) = 0
      BY <2>3, Pairs
    <2>6. \A j \in {0, 2, 6} : At(b - 16, j) = At(b, j)
      BY <2>4, Pairs
    <2> QED BY <1>3, <2>1, <2>3, <2>5, <2>6 DEF ByteShift
  <1>4. CASE k = 6
    <2>1. 2^k = 64 /\ 2^(k + 1) = 128
      BY <1>4, Powers
    <2>2. (b \div 64) % 2 = 1 /\ (b \div 128) % 2 # 1
      BY <2>1 DEF BitSet
    <2>3. b - 64 \in 0 .. 255 /\ (b \div 64) % 4 = 1 /\ ((b - 64) \div 64) % 4 = 0
      BY SMTT(30), <2>2
    <2>4. /\ ((b - 64) \div 1) % 4 = (b \div 1) % 4
          /\ ((b - 64) \div 4) % 4 = (b \div 4) % 4
          /\ ((b - 64) \div 16) % 4 = (b \div 16) % 4
      BY SMTT(30), <2>2
    <2>5. At(b, 6) = 1 /\ At(b - 64, 6) = 0
      BY <2>3, Pairs
    <2>6. \A j \in {0, 2, 4} : At(b - 64, j) = At(b, j)
      BY <2>4, Pairs
    <2> QED BY <1>4, <2>1, <2>3, <2>5, <2>6 DEF ByteShift
  <1> QED BY <1>1, <1>2, <1>3, <1>4 DEF ByteShift

LEMMA SlotPlace ==
    ASSUME NEW s \in Slot
    PROVE  /\ s \div 4 \in 0 .. NBytes - 1 /\ Shift(s) \in ByteShift
           /\ \A t \in Slot \ {s} : s \div 4 = t \div 4 => Shift(s) # Shift(t)
  BY ProgressAssumption DEF Slot, NSlots, Shift, ByteShift

Progress == [0 .. NBytes - 1 -> Byte]

LEMMA PairIsPair ==
    ASSUME NEW p \in Progress, NEW s \in Slot
    PROVE  Pair(p, s) = At(p[s \div 4], Shift(s)) /\ Pair(p, s) \in 0 .. 3
  <1>1. p[s \div 4] \in Byte /\ Shift(s) \in ByteShift
    BY SlotPlace DEF Progress
  <1>2. \A b \in Byte, k \in ByteShift : At(b, k) \in 0 .. 3
    BY Powers DEF Byte, ByteShift, At
  <1> QED BY <1>1, <1>2 DEF Pair, At

LEMMA UpdatePairs ==
    ASSUME progress \in Progress, NEW s \in Slot, NEW done \in BOOLEAN,
           CanUpdate(progress[s \div 4], s, done),
           progress' = [progress EXCEPT ![s \div 4] = @ - 2^ClearedBit(s, done)]
    PROVE  /\ progress' \in Progress
           /\ \A t \in Slot \ {s} : Pair(progress', t) = Pair(progress, t)
           /\ Pair(progress, s) = IF done THEN 1 ELSE 3
           /\ Pair(progress', s) = IF done THEN 0 ELSE 1
  <1> DEFINE k == Shift(s)
             b == progress[s \div 4]
             c == b - 2^ClearedBit(s, done)
  <1>1. k \in ByteShift /\ b \in Byte /\ s \div 4 \in 0 .. NBytes - 1
    BY SlotPlace DEF Progress
  <1>2. ClearedBit(s, done) = IF done THEN k ELSE k + 1
    BY <1>1 DEF ClearedBit, ByteShift
  <1>3. /\ c \in Byte
        /\ At(b, k) = IF done THEN 1 ELSE 3
        /\ At(c, k) = IF done THEN 0 ELSE 1
        /\ \A j \in ByteShift \ {k} : At(c, j) = At(b, j)
    <2>1. CASE done
      <3>1. BitSet(b, k) /\ ~BitSet(b, k + 1)
        BY <1>2, <2>1 DEF CanUpdate
      <3> QED BY <1>1, <1>2, <2>1, <3>1, ClearLower
    <2>2. CASE ~done
      <3>1. BitSet(b, k) /\ BitSet(b, k + 1)
        BY <1>2, <2>2 DEF CanUpdate
      <3> QED BY <1>1, <1>2, <2>2, <3>1, ClearUpper
    <2> QED BY <2>1, <2>2
  <1> HIDE DEF c
  <1>4. progress' = [progress EXCEPT ![s \div 4] = c]
    BY DEF c
  <1>5. progress' \in Progress
    BY <1>1, <1>3, <1>4 DEF Progress
  <1>6. Pair(progress, s) = At(b, k) /\ Pair(progress', s) = At(c, k)
    BY <1>1, <1>4, <1>5, PairIsPair DEF Progress
  <1>7. ASSUME NEW t \in Slot \ {s} PROVE Pair(progress', t) = Pair(progress, t)
    <2>1. /\ Pair(progress, t) = At(progress[t \div 4], Shift(t))
          /\ Pair(progress', t) = At(progress'[t \div 4], Shift(t))
      BY <1>5, PairIsPair
    <2>2. t \div 4 \in 0 .. NBytes - 1 /\ Shift(t) \in ByteShift
      BY SlotPlace
    <2>3. CASE t \div 4 = s \div 4
      <3>1. Shift(t) \in ByteShift \ {k}
        BY <2>2, <2>3, SlotPlace
      <3> QED BY <1>1, <1>3, <1>4, <2>1, <2>3, <3>1 DEF Progress
    <2>4. CASE t \div 4 # s \div 4
      BY <1>4, <2>1, <2>2, <2>4 DEF Progress
    <2> QED BY <2>3, <2>4
  <1> QED BY <1>3, <1>5, <1>6, <1>7

-----------------------------------------------------------------------------
(* The loop.                                                               *)

P(s) == Pair(progress, s)

\* The slots passed are completed up to the count; then comes the one that
\* raised a flag, and behind it only unused ones.
Passed ==
    /\ \A i \in Slot : i < completed => P(i) = 0
    /\ ~unused /\ ~started => completed = slot
    /\ unused \/ started =>
          /\ completed < slot
          /\ P(completed) = IF started THEN 1 ELSE 3
          /\ \A i \in Slot : completed < i /\ i < slot => P(i) = 3

Finished ==
    /\ state = "dirty" =>
          /\ slot < NSlots
          /\ IF unused \/ started THEN P(slot) # 3 ELSE P(slot) = 2
    /\ state \notin {"scan", "dirty"} =>
          /\ slot = NSlots
          /\ state = IF started THEN "in_progress"
                     ELSE IF completed = 0 THEN "empty" ELSE "complete"

LoopInv == TypeOK /\ Passed /\ Finished

LEMMA LoopInit ==
    ASSUME Init PROVE LoopInv
  <1>1. NSlots \in Nat /\ progress \in [0 .. NBytes - 1 -> Byte]
    BY ProgressAssumption DEF NSlots, Init
  <1>2. slot = 0 /\ completed = 0 /\ unused = FALSE /\ started = FALSE /\ state = "scan"
    BY DEF Init
  <1>3. unused \in BOOLEAN /\ started \in BOOLEAN /\ ~(unused /\ started)
    BY <1>2, Zenon
  <1>4. slot \in 0 .. NSlots /\ completed \in 0 .. slot
    BY <1>1, <1>2
  <1>5. TypeOK
    BY <1>1, <1>2, <1>3, <1>4, Zenon DEF TypeOK
  <1> QED BY <1>2, <1>5 DEF LoopInv, Passed, Finished, Slot

LEMMA LoopStep ==
    ASSUME LoopInv, [Next]_vars PROVE LoopInv'
  <1>0. /\ NSlots \in Nat /\ slot \in 0 .. NSlots /\ completed \in 0 .. slot
        /\ progress \in Progress
    BY ProgressAssumption DEF NSlots, LoopInv, TypeOK, Progress
  <1>1. CASE AnalyzeSlot
    <2>0. slot \in Slot /\ P(slot) \in 0 .. 3 /\ progress' = progress /\ state = "scan"
      BY <1>0, <1>1, PairIsPair DEF AnalyzeSlot, Slot, P
    <2>1. \A i : P(i)' = P(i)
      BY <2>0 DEF P
    <2>2. CASE (started \/ unused) /\ Tail(P(slot))
      BY <1>0, <2>0, <2>1, <2>2 DEF Tail, Result, LoopInv, TypeOK, Passed, Finished, Slot
    <2>3. CASE ~(started \/ unused) /\ Head(P(slot))
      <3>0. ~started /\ ~unused /\ completed = slot /\ \A i \in Slot : i < slot => P(i) = 0
        BY <2>3 DEF LoopInv, Passed
      <3>1. CASE P(slot) = 2
        BY <1>0, <2>0, <2>1, <2>3, <3>0, <3>1 DEF Head, Result, LoopInv, TypeOK, Passed, Finished, Slot
      <3>2. CASE P(slot) # 2
        <4>1. /\ slot' = slot + 1 /\ state' = "scan"
              /\ completed' = IF P(slot) = 0 THEN completed + 1 ELSE completed
              /\ started' = (P(slot) = 1) /\ unused' = (P(slot) = 3)
          BY <2>0, <2>3, <3>2 DEF Head, Result
        <4>2. started' \in BOOLEAN /\ unused' \in BOOLEAN /\ ~(unused' /\ started')
          <5>1. ~(P(slot) = 1 /\ P(slot) = 3)
            OBVIOUS
          <5> QED BY <4>1, <5>1, Zenon
        <4>3. slot' \in 0 .. NSlots /\ completed' \in 0 .. slot'
          BY <1>0, <2>0, <3>0, <4>1 DEF Slot
        <4>4. TypeOK'
          BY <1>0, <2>0, <4>1, <4>2, <4>3 DEF TypeOK, Progress
        <4>5. Passed'
          <5>1. CASE P(slot) = 0
            <6>1. ~started' /\ ~unused'
              <7>1. ~(P(slot) = 1) /\ ~(P(slot) = 3)
                BY <5>1
              <7> QED BY <4>1, <7>1, Zenon
            <6> QED BY <1>0, <2>0, <2>1, <3>0, <4>1, <5>1, <6>1 DEF Passed, Slot
          <5>2. CASE P(slot) = 1
            <6>1. started' /\ ~unused'
              <7>1. P(slot) = 1 /\ ~(P(slot) = 3)
                BY <5>2
              <7> QED BY <4>1, <7>1, Zenon
            <6> QED BY <1>0, <2>0, <2>1, <3>0, <4>1, <5>2, <6>1 DEF Passed, Slot
          <5>3. CASE P(slot) = 3
            <6>1. ~started' /\ unused'
              <7>1. ~(P(slot) = 1) /\ P(slot) = 3
                BY <5>3
              <7> QED BY <4>1, <7>1, Zenon
            <6> QED BY <1>0, <2>0, <2>1, <3>0, <4>1, <5>3, <6>1 DEF Passed, Slot
          <5> QED BY <2>0, <3>2, <5>1, <5>2, <5>3
        <4> QED BY <4>1, <4>4, <4>5 DEF LoopInv, Finished
      <3> QED BY <3>1, <3>2
    <2> QED BY <1>1, <2>2, <2>3 DEF AnalyzeSlot, P
  <1>2. CASE AnalyzeEnd
    BY <1>0, <1>2 DEF AnalyzeEnd, Result, LoopInv, TypeOK, Passed, Finished, P
  <1>3. ASSUME NEW s \in Slot, NEW done \in BOOLEAN, Update(s, done) PROVE LoopInv'
    <2>1. progress' \in Progress
      BY <1>0, <1>3, UpdatePairs DEF Update
    <2>2. slot' = 0 /\ completed' = 0 /\ unused' = FALSE /\ started' = FALSE /\ state' = "scan"
      BY <1>3 DEF Update
    <2>3. TypeOK'
      <3>1. unused' \in BOOLEAN /\ started' \in BOOLEAN /\ ~(unused' /\ started')
        BY <2>2, Zenon
      <3>2. slot' \in 0 .. NSlots /\ completed' \in 0 .. slot'
        BY <1>0, <2>2
      <3> QED BY <2>1, <2>2, <3>1, <3>2, Zenon DEF TypeOK, Progress
    <2> QED BY <2>2, <2>3 DEF LoopInv, Passed, Finished, Slot
  <1>4. CASE UNCHANGED vars
    BY <1>4 DEF vars, LoopInv, TypeOK, Passed, Finished, P
  <1> QED BY <1>1, <1>2, <1>3, <1>4 DEF Next

LEMMA LoopInvariant == Spec => []LoopInv
  <1> QED BY LoopInit, LoopStep, PTL DEF Spec

\* The loop counts no slot it has not passed and never raises both flags:
\* persistence_format_progress_analyze.
THEOREM AnalysisTypeCorrect == Spec => []TypeOK
  <1>1. LoopInv => TypeOK
    BY DEF LoopInv
  <1> QED BY <1>1, LoopInvariant, PTL

-----------------------------------------------------------------------------
(* What the array means.                                                   *)

LEMMA NamesOfPairs ==
    ASSUME progress \in Progress, NEW s \in Slot
    PROVE  /\ Named[s] = "done" <=> P(s) = 0
           /\ Named[s] = "started" <=> P(s) = 1
           /\ Named[s] = "broken" <=> P(s) = 2
           /\ Named[s] = "unused" <=> P(s) = 3
  <1>1. P(s) \in 0 .. 3 /\ Named[s] = SlotName[P(s) + 1]
    BY PairIsPair DEF P, Named
  <1> QED BY <1>1 DEF SlotName

LEMMA NamesAfter ==
    ASSUME progress' \in Progress, NEW s \in Slot
    PROVE  /\ P(s)' = 0 => Named'[s] = "done"
           /\ P(s)' = 1 => Named'[s] = "started"
           /\ P(s)' = 3 => Named'[s] = "unused"
  <1>1. Named'[s] = SlotName[P(s)' + 1]
    BY DEF P, Named
  <1> QED BY <1>1 DEF SlotName

LEMMA CountIs ==
    ASSUME NEW p, NEW n \in 0 .. NSlots,
           \A i \in Slot : i < n => p[i] = "done",
           n < NSlots => p[n] # "done"
    PROVE  Slots!CompletedCount(p) = n
  <1> DEFINE Q(m) == /\ \A i \in Slot : i < m => p[i] = "done"
                     /\ m < NSlots => p[m] # "done"
  <1>1. Q(n)
    OBVIOUS
  <1>2. NSlots \in Nat
    BY ProgressAssumption DEF NSlots
  <1>3. ASSUME NEW m \in 0 .. NSlots, Q(m) PROVE m = n
    <2>1. ~(m < n)
      <3> SUFFICES ASSUME m < n PROVE FALSE
        OBVIOUS
      <3> QED BY <1>2, <1>3 DEF Slot
    <2>2. ~(n < m)
      <3> SUFFICES ASSUME n < m PROVE FALSE
        OBVIOUS
      <3> QED BY <1>2, <1>3 DEF Slot
    <2> QED BY <2>1, <2>2, <1>2
  <1>4. Slots!CompletedCount(p) = CHOOSE m \in 0 .. NSlots : Q(m)
    BY DEF Slots!CompletedCount, Slots!Slot, Slot
  <1> HIDE DEF Q
  <1> QED BY <1>1, <1>3, <1>4

LEMMA StateIs ==
    ASSUME NEW p, NEW n \in 0 .. NSlots, Slots!CompletedCount(p) = n
    PROVE  Slots!ProgressState(p) =
              IF n < NSlots /\ (p[n] = "broken" \/ \E i \in Slot : i > n /\ p[i] # "unused")
              THEN "dirty"
              ELSE IF n < NSlots /\ p[n] = "started" THEN "in_progress"
              ELSE IF n = 0 THEN "empty" ELSE "complete"
  BY DEF Slots!ProgressState, Slots!Slot, Slot

LEMMA ResultIsMeaning ==
    ASSUME LoopInv, state # "scan"
    PROVE  state = Slots!ProgressState(Named) /\ completed = Slots!CompletedCount(Named)
  <1>0. /\ NSlots \in Nat /\ slot \in 0 .. NSlots /\ completed \in 0 .. slot
        /\ progress \in Progress /\ state \in {"empty", "complete", "in_progress", "dirty"}
    BY ProgressAssumption DEF NSlots, LoopInv, TypeOK, Progress
  <1>1. \A i \in Slot : i < completed => Named[i] = "done"
    BY <1>0, NamesOfPairs DEF LoopInv, Passed
  <1>2. completed < NSlots => completed \in Slot /\ P(completed) # 0
    BY <1>0 DEF LoopInv, Passed, Finished, Slot
  <1>3. completed < NSlots => Named[completed] # "done"
    BY <1>0, <1>2, NamesOfPairs
  <1>4. completed = Slots!CompletedCount(Named)
    <2> HIDE DEF Named
    <2> QED BY <1>0, <1>1, <1>3, CountIs
  <1>5. /\ completed < NSlots => (Named[completed] = "broken" <=> P(completed) = 2)
        /\ completed < NSlots => (Named[completed] = "started" <=> P(completed) = 1)
        /\ \A i \in Slot : Named[i] = "unused" <=> P(i) = 3
    BY <1>0, <1>2, NamesOfPairs
  <1>6. state = "dirty" => completed < NSlots /\
           (P(completed) = 2 \/ \E i \in Slot : i > completed /\ P(i) # 3)
    BY <1>0 DEF LoopInv, Passed, Finished, Slot
  <1>7. state # "dirty" => /\ \A i \in Slot : i > completed => P(i) = 3
                           /\ completed < NSlots => P(completed) = IF started THEN 1 ELSE 3
                           /\ state = IF started THEN "in_progress"
                                      ELSE IF completed = 0 THEN "empty" ELSE "complete"
                           /\ started => completed < NSlots
    BY <1>0 DEF LoopInv, Passed, Finished, Slot
  <1> HIDE DEF Named
  <1>8. Slots!ProgressState(Named) =
            IF completed < NSlots
               /\ (Named[completed] = "broken" \/ \E i \in Slot : i > completed /\ Named[i] # "unused")
            THEN "dirty"
            ELSE IF completed < NSlots /\ Named[completed] = "started" THEN "in_progress"
            ELSE IF completed = 0 THEN "empty" ELSE "complete"
    BY <1>0, <1>4, StateIs
  <1> QED BY <1>0, <1>4, <1>5, <1>6, <1>7, <1>8

\* Whatever bytes the region holds, the loop with its two flags and three
\* early returns reports what the array means slot by slot.
THEOREM AnalysisIsRight == Spec => []AnalysisIsProgressState
  <1>1. LoopInv => AnalysisIsProgressState
    BY ResultIsMeaning DEF AnalysisIsProgressState
  <1> QED BY <1>1, LoopInvariant, PTL

\* An update moves its own slot one state on and leaves its neighbours in
\* the byte alone: persistence_format_progress_update_slot.
THEOREM UpdateIsLocal == Spec => UpdateMovesOneSlot
  <1>1. LoopInv /\ [Next]_vars =>
           [\A s \in Slot : Named[s] # Named'[s] =>
               /\ \A t \in Slot \ {s} : Named'[t] = Named[t]
               /\ <<Named[s], Named'[s]>> \in
                     {<<"unused", "started">>, <<"started", "done">>}]_vars
    <2> SUFFICES ASSUME LoopInv, Next, NEW s \in Slot, Named[s] # Named'[s]
                 PROVE  /\ \A t \in Slot \ {s} : Named'[t] = Named[t]
                        /\ <<Named[s], Named'[s]>> \in
                              {<<"unused", "started">>, <<"started", "done">>}
      OBVIOUS
    <2>0. progress \in Progress
      BY DEF LoopInv, TypeOK, Progress
    <2>1. CASE progress' = progress
      BY <2>1 DEF Named
    <2>2. ASSUME NEW u \in Slot, NEW done \in BOOLEAN, Update(u, done)
          PROVE  /\ \A t \in Slot \ {s} : Named'[t] = Named[t]
                 /\ <<Named[s], Named'[s]>> \in
                       {<<"unused", "started">>, <<"started", "done">>}
      <3>1. /\ \A t \in Slot \ {u} : Pair(progress', t) = Pair(progress, t)
            /\ Pair(progress, u) = IF done THEN 1 ELSE 3
            /\ Pair(progress', u) = IF done THEN 0 ELSE 1
        BY <2>0, <2>2, UpdatePairs DEF Update
      <3>2. \A t \in Slot : /\ Named[t] = SlotName[Pair(progress, t) + 1]
                            /\ Named'[t] = SlotName[Pair(progress', t) + 1]
        BY DEF Named
      <3>3. s = u
        BY <3>1, <3>2
      <3> QED BY <3>1, <3>2, <3>3 DEF SlotName
    <2> QED BY <2>1, <2>2 DEF Next, AnalyzeSlot, AnalyzeEnd
  <1> QED BY <1>1, LoopInvariant, PTL DEF Spec, UpdateMovesOneSlot

-----------------------------------------------------------------------------
(* One more save.                                                          *)

\* What the last update should have made of the array is what it means.
ExpectedInv ==
    expected # Unknown => /\ expected.state = Slots!ProgressState(Named)
                          /\ expected.completed = Slots!CompletedCount(Named)

\* Starting the next slot of a sound array is a save in progress, completing
\* it one save more.
LEMMA StartNext ==
    ASSUME LoopInv, state \in {"empty", "complete"}, completed \in Slot,
           Update(completed, FALSE)
    PROVE  /\ Slots!ProgressState(Named)' = "in_progress"
           /\ Slots!CompletedCount(Named)' = completed
  <1>0. NSlots \in Nat /\ progress \in Progress /\ completed \in 0 .. NSlots
    BY ProgressAssumption DEF NSlots, LoopInv, TypeOK, Progress, Slot
  <1>1. /\ progress' \in Progress
        /\ \A t \in Slot \ {completed} : Pair(progress', t) = Pair(progress, t)
        /\ Pair(progress', completed) = 1
    BY <1>0, UpdatePairs DEF Update
  <1>2. /\ \A i \in Slot : i < completed => P(i)' = 0
        /\ \A i \in Slot : i > completed => P(i)' = 3
        /\ \A i \in Slot : i = completed => P(i)' = 1
    <2>1. slot = NSlots
      BY DEF LoopInv, Finished
    <2> QED BY <1>0, <1>1, <2>1 DEF LoopInv, Passed, P, Slot
  <1>3. /\ \A i \in Slot : i < completed => Named'[i] = "done"
        /\ \A i \in Slot : i > completed => Named'[i] = "unused"
        /\ Named'[completed] = "started"
    <2>1. ASSUME NEW i \in Slot, i < completed PROVE Named'[i] = "done"
      BY <1>1, <1>2, <2>1, NamesAfter
    <2>2. ASSUME NEW i \in Slot, i > completed PROVE Named'[i] = "unused"
      BY <1>1, <1>2, <2>2, NamesAfter
    <2>3. Named'[completed] = "started"
      BY <1>1, <1>2, NamesAfter
    <2> QED BY <2>1, <2>2, <2>3
  <1>4. completed < NSlots
    BY <1>0 DEF Slot
  <1> HIDE DEF Named
  <1>5. Slots!CompletedCount(Named') = completed
    BY <1>0, <1>3, CountIs
  <1>6. Slots!ProgressState(Named') = "in_progress"
    BY <1>0, <1>3, <1>4, <1>5, StateIs
  <1> QED BY <1>5, <1>6

LEMMA CompleteNext ==
    ASSUME LoopInv, state = "in_progress", Update(completed, TRUE), completed \in Slot
    PROVE  /\ Slots!ProgressState(Named)' = "complete"
           /\ Slots!CompletedCount(Named)' = completed + 1
  <1>0. NSlots \in Nat /\ progress \in Progress /\ completed + 1 \in 0 .. NSlots
    BY ProgressAssumption DEF NSlots, LoopInv, TypeOK, Progress, Slot
  <1>1. /\ progress' \in Progress
        /\ \A t \in Slot \ {completed} : Pair(progress', t) = Pair(progress, t)
        /\ Pair(progress', completed) = 0
    BY <1>0, UpdatePairs DEF Update
  <1>2. /\ \A i \in Slot : i < completed + 1 => P(i)' = 0
        /\ \A i \in Slot : i >= completed + 1 => P(i)' = 3
    <2>1. slot = NSlots /\ started
      BY DEF LoopInv, Finished
    <2>2. ASSUME NEW i \in Slot, i < completed PROVE P(i)' = 0
      BY <1>1, <2>2 DEF LoopInv, Passed, P
    <2>3. ASSUME NEW i \in Slot, i > completed PROVE P(i)' = 3
      BY <1>0, <1>1, <2>1, <2>3 DEF LoopInv, Passed, P, Slot
    <2>4. \A i \in Slot : i = completed => P(i)' = 0
      BY <1>1 DEF P
    <2>5. \A i \in Slot : i < completed + 1 <=> i < completed \/ i = completed
      BY <1>0 DEF Slot
    <2>6. \A i \in Slot : i >= completed + 1 <=> i > completed
      BY <1>0 DEF Slot
    <2> QED BY <2>2, <2>3, <2>4, <2>5, <2>6
  <1>3. /\ \A i \in Slot : i < completed + 1 => Named'[i] = "done"
        /\ \A i \in Slot : i >= completed + 1 => Named'[i] = "unused"
    <2>1. ASSUME NEW i \in Slot, i < completed + 1 PROVE Named'[i] = "done"
      BY <1>1, <1>2, <2>1, NamesAfter
    <2>2. ASSUME NEW i \in Slot, i >= completed + 1 PROVE Named'[i] = "unused"
      BY <1>1, <1>2, <2>2, NamesAfter
    <2> QED BY <2>1, <2>2
  <1>4. completed + 1 < NSlots => completed + 1 \in Slot
    BY <1>0 DEF Slot
  <1> HIDE DEF Named
  <1>5. completed + 1 < NSlots => Named'[completed + 1] = "unused"
    BY <1>0, <1>3, <1>4
  <1>6. Slots!CompletedCount(Named') = completed + 1
    BY <1>0, <1>3, <1>5, CountIs
  <1>7. Slots!ProgressState(Named') = "complete"
    BY <1>0, <1>3, <1>5, <1>6, StateIs DEF Slot
  <1> QED BY <1>6, <1>7

LEMMA ExpectedStep ==
    ASSUME LoopInv, ExpectedInv, [Next]_vars PROVE ExpectedInv'
  <1>1. CASE UNCHANGED <<progress, expected>>
    <2>1. Named' = Named
      BY <1>1 DEF Named
    <2> HIDE DEF Named
    <2>2. /\ Slots!ProgressState(Named)' = Slots!ProgressState(Named')
          /\ Slots!CompletedCount(Named)' = Slots!CompletedCount(Named')
      BY DEF Slots!ProgressState, Slots!CompletedCount, Slots!Slot, NSlots
    <2> QED BY <1>1, <2>1, <2>2 DEF ExpectedInv, Unknown
  <1>2. ASSUME NEW s \in Slot, NEW done \in BOOLEAN, Update(s, done) PROVE ExpectedInv'
    <2>1. expected' = Expected(s, done)
      BY <1>2 DEF Update
    <2>2. CASE ~done /\ state \in {"empty", "complete"} /\ s = completed
      <3>1. expected'.state = "in_progress" /\ expected'.completed = completed
        BY <2>1, <2>2 DEF Expected
      <3> QED BY <1>2, <2>2, <3>1, StartNext DEF ExpectedInv
    <2>3. CASE done /\ state = "in_progress" /\ s = completed
      <3>1. expected'.state = "complete" /\ expected'.completed = completed + 1
        BY <2>1, <2>3 DEF Expected
      <3> QED BY <1>2, <2>3, <3>1, CompleteNext DEF ExpectedInv
    <2>4. CASE expected' = Unknown
      BY <2>4 DEF ExpectedInv, Unknown
    <2> QED BY <2>1, <2>2, <2>3, <2>4 DEF Expected
  <1> QED BY <1>1, <1>2 DEF Next, vars, AnalyzeSlot, AnalyzeEnd

\* Starting and completing the next slot of a sound array is reported as a
\* save in progress and then as one more save, across byte boundaries and up
\* to the last slot: _persistence_update_progress and what it reads back.
THEOREM OneMoreSave == Spec => []NextSaveIsCounted
  <1>1. Init => ExpectedInv
    BY DEF Init, ExpectedInv
  <1>2. LoopInv /\ ExpectedInv /\ [Next]_vars => ExpectedInv'
    BY ExpectedStep
  <1>3. LoopInv /\ ExpectedInv => NextSaveIsCounted
    BY ResultIsMeaning DEF ExpectedInv, NextSaveIsCounted
  <1> QED BY <1>1, <1>2, <1>3, LoopInvariant, PTL DEF Spec
=============================================================================
