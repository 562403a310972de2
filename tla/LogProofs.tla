------------------------------ MODULE LogProofs ------------------------------
(***************************************************************************)
(* Proofs about the write log: for every size of a byte, a record, an      *)
(* image and a log area, what commit writes is what restore reads back.    *)
(*                                                                         *)
(* Replay is defined by recursion on the number of records.  What it gives *)
(* is proved with least counterexamples.                                   *)
(***************************************************************************)
EXTENDS LogFormat, NaturalSets, SequenceTheorems

-----------------------------------------------------------------------------
(* Numbers.                                                                *)

\* The two bytes of an offset give it back, and the high one is a byte.
LEMMA TwoBytes ==
  ASSUME NEW o \in Nat, o < B * B
  PROVE  /\ o \div B \in Byte /\ o % B \in Byte
         /\ (o \div B) * B + (o % B) = o
  <1>1. B \in Nat \ {0}
    BY LogAssumption
  <1>2. /\ o \div B \in Nat /\ o % B \in 0 .. B - 1
        /\ (o \div B) * B + (o % B) = o
    BY <1>1
  <1>3. ASSUME o \div B >= B PROVE FALSE
    <2>1. \A d \in Nat : d >= B => d * B \in Nat /\ B * B \in Nat /\ d * B >= B * B
      BY <1>1
    <2> DEFINE high == (o \div B) * B
               low == o % B
               square == B * B
    <2>2. high \in Nat /\ square \in Nat /\ high >= square
      BY <1>2, <1>3, <2>1
    <2>3. low \in Nat /\ high + low = o /\ o < square
      BY <1>1, <1>2
    <2> HIDE DEF high, low, square
    <2> QED BY <2>2, <2>3
  <1> QED BY <1>1, <1>2, <1>3 DEF Byte

-----------------------------------------------------------------------------
(* Replay, record by record.                                               *)

\* The recursion of After has a solution, so After is one.
LEMMA AfterIs ==
  ASSUME NEW size, NEW b, NEW l
  PROVE  /\ After(size, b, l)[0] = Start(b)
         /\ \A i \in 1 .. MaxSaves :
               After(size, b, l)[i] = ReplayRecord(size, l, After(size, b, l)[i - 1])
  <1> DEFINE Turn(f, n) == [i \in 0 .. n |-> IF i = 0 THEN Start(b)
                                             ELSE ReplayRecord(size, l, f[i - 1])]
             Unsolved == {n \in Nat : ~\E f : f = Turn(f, n)}
  <1>1. Unsolved = {}
    <2> SUFFICES ASSUME Unsolved # {} PROVE FALSE
      OBVIOUS
    <2>1. Unsolved \subseteq Nat
      OBVIOUS
    <2>2. PICK n \in Unsolved : \A m \in Unsolved : n <= m
      BY <2>1, Least
    <2>3. n # 0
      <3>1. [i \in 0 .. 0 |-> Start(b)] = Turn([i \in 0 .. 0 |-> Start(b)], 0)
        OBVIOUS
      <3> QED BY <3>1
    <2>4. n - 1 \in Nat /\ n - 1 \notin Unsolved
      <3> HIDE DEF Unsolved
      <3>1. n \in Nat /\ ~(n <= n - 1)
        BY <2>1
      <3> QED BY <2>2, <2>3, <3>1
    <2>5. PICK f : f = Turn(f, n - 1)
      BY <2>4
    <2> DEFINE g == [i \in 0 .. n |-> IF i = n THEN ReplayRecord(size, l, f[n - 1])
                                      ELSE f[i]]
    <2>6. ASSUME NEW i \in 0 .. n
          PROVE g[i] = IF i = 0 THEN Start(b) ELSE ReplayRecord(size, l, g[i - 1])
      <3>1. CASE i = 0
        BY <3>1, <2>3, <2>4, <2>5
      <3>2. CASE i # 0 /\ i # n
        <4>1. i - 1 \in 0 .. n /\ i - 1 # n /\ i \in 0 .. n - 1
          BY <3>2, <2>4
        <4>2. g[i] = f[i] /\ g[i - 1] = f[i - 1]
          BY <3>2, <4>1
        <4>3. f[i] = ReplayRecord(size, l, f[i - 1])
          BY <2>5, <3>2, <4>1
        <4> QED BY <3>2, <4>2, <4>3
      <3>3. CASE i = n
        <4>1. n - 1 \in 0 .. n /\ n - 1 # n
          BY <2>3, <2>4
        <4> QED BY <3>3, <2>3, <4>1
      <3> QED BY <3>1, <3>2, <3>3
    <2>7. g = Turn(g, n)
      BY <2>6
    <2> QED BY <2>7
  <1>2. MaxSaves \in Nat
    BY LogAssumption
  <1>3. PICK f : f = Turn(f, MaxSaves)
    BY <1>1, <1>2
  <1>4. After(size, b, l) = Turn(After(size, b, l), MaxSaves)
    BY <1>3 DEF After
  <1>5. 0 \in 0 .. MaxSaves
    BY <1>2
  <1>6. After(size, b, l)[0] = Start(b)
    BY <1>4, <1>5
  <1>7. ASSUME NEW i \in 1 .. MaxSaves
        PROVE After(size, b, l)[i] = ReplayRecord(size, l, After(size, b, l)[i - 1])
    <2>1. i \in 0 .. MaxSaves /\ i # 0
      BY <1>2
    <2> QED BY <2>1, <1>4
  <1> QED BY <1>6, <1>7

LogArea == [Place -> Byte]

\* A log agrees with another below place p.
Agree(l, m, p) == \A i \in Place : i < p => l[i] = m[i]

\* A record that is accepted starts with bytes that are not erased, ends in
\* the log area, and is read from the bytes between.
LEMMA RecordRead ==
  ASSUME NEW size, NEW l \in LogArea, NEW so, so.used \in 0 .. LogSize,
         ReplayRecord(size, l, so).ok
  PROVE  LET next == ReplayRecord(size, l, so) IN
         /\ so.ok
         /\ next.used \in 0 .. LogSize /\ so.used < next.used
         /\ ~AllErased(l, so.used, LogSize - so.used)
         /\ \A m \in LogArea : Agree(l, m, next.used) => ReplayRecord(size, m, so) = next
  <1> DEFINE r == Decoded(l, so.used)
             next == ReplayRecord(size, l, so)
             p == so.used
  <1> USE LogAssumption
  <1>1. so.ok /\ Valid(r, size)
    BY DEF ReplayRecord, Failed
  <1>2. next = [ok |-> TRUE, used |-> r.from + r.size,
                image |-> Overwrite(so.image, r.at, r.size, l, r.from)]
    BY <1>1 DEF ReplayRecord
  <1>a. r # NoRecord
    BY <1>1 DEF Valid, NoRecord
  <1>3. p \in Place /\ l[p] \in Byte
    BY <1>a DEF Decoded, Place, LogArea
  <1>4. CASE l[p] # FF
    <2>1. /\ LogSize - p >= FixedSize
          /\ r = [from |-> p + 2, size |-> FixedData, at |-> l[p] * B + l[p + 1]]
      BY <1>a, <1>3, <1>4 DEF Decoded, Place, FixedSize
    <2>2. next.used = p + 2 + FixedData /\ p + 2 + FixedData <= LogSize
      BY <2>1, <1>2, <1>1, <1>3 DEF Valid, Place
    <2>3. ~AllErased(l, p, LogSize - p)
      BY <1>3, <1>4 DEF AllErased, Place
    <2>4. ASSUME NEW m \in LogArea, Agree(l, m, next.used)
          PROVE ReplayRecord(size, m, so) = next
      <3>1. m[p] = l[p] /\ m[p + 1] = l[p + 1]
        BY <2>4, <2>2, <1>3 DEF Agree, Place
      <3>2. Decoded(m, p) = r
        BY <3>1, <2>1, <1>4, <1>3 DEF Decoded, Place
      <3>3. Overwrite(so.image, r.at, r.size, m, r.from)
              = Overwrite(so.image, r.at, r.size, l, r.from)
        <4>1. \A k \in 0 .. FixedData - 1 : m[p + 2 + k] = l[p + 2 + k]
          BY <2>4, <2>2, <1>3 DEF Agree, Place
        <4>2. \A i \in Int : i \in r.at .. r.at + r.size - 1 =>
                 m[r.from + i - r.at] = l[r.from + i - r.at]
          <5>1. l[p + 1] \in Byte /\ l[p] \in Byte
            BY <2>2, <1>3 DEF LogArea, Place
          <5>2. r.at \in Int
            BY <5>1, <2>1 DEF Byte
          <5>3. ASSUME NEW i \in Int, i \in r.at .. r.at + r.size - 1
                PROVE m[r.from + i - r.at] = l[r.from + i - r.at]
            <6>1. i - r.at \in 0 .. FixedData - 1
                  /\ r.from + i - r.at = p + 2 + (i - r.at)
              BY <5>2, <5>3, <2>1, <1>3 DEF Place
            <6> QED BY <6>1, <4>1
          <5> QED BY <5>3
        <4> QED BY <4>2 DEF Overwrite
      <3> QED BY <3>2, <3>3, <1>1, <1>2 DEF ReplayRecord
    <2> QED BY <1>1, <1>2, <1>3, <2>1, <2>2, <2>3, <2>4 DEF Place
  <1>5. CASE l[p] = FF
    <2>1. /\ LogSize - p >= HeaderSize
          /\ ~AllErased(l, p, HeaderSize)
          /\ r = [from |-> p + HeaderSize, size |-> l[p + 1],
                  at |-> l[p + 2] * B + l[p + 3]]
      BY <1>a, <1>3, <1>5 DEF Decoded, Place, HeaderSize
    <2>2. l[p + 1] \in Byte /\ l[p + 2] \in Byte /\ l[p + 3] \in Byte
      <3>1. p + 1 \in Place /\ p + 2 \in Place /\ p + 3 \in Place
        BY <2>1, <1>3 DEF Place, HeaderSize
      <3> QED BY <3>1 DEF LogArea
    <2>3. /\ next.used = p + HeaderSize + l[p + 1]
          /\ next.used <= LogSize /\ l[p + 1] > 0
      BY <2>1, <2>2, <1>2, <1>1, <1>3 DEF Valid, Place, Byte
    <2>4. ~AllErased(l, p, LogSize - p)
      BY <2>1, <1>3 DEF AllErased, Place, HeaderSize
    <2>5. ASSUME NEW m \in LogArea, Agree(l, m, next.used)
          PROVE ReplayRecord(size, m, so) = next
      <3>1. \A k \in 0 .. HeaderSize + l[p + 1] - 1 : m[p + k] = l[p + k]
        BY <2>5, <2>2, <2>3, <1>3 DEF Agree, Place, HeaderSize, Byte
      <3>2. /\ m[p] = l[p] /\ m[p + 1] = l[p + 1]
            /\ m[p + 2] = l[p + 2] /\ m[p + 3] = l[p + 3]
        BY <2>5, <2>2, <2>3, <1>3 DEF Agree, Place, HeaderSize, Byte
      <3>3. ~AllErased(m, p, HeaderSize)
        BY <2>1, <3>2, <1>3 DEF AllErased, HeaderSize, Place
      <3>4. Decoded(m, p) = r
        BY <3>2, <3>3, <2>1, <1>5, <1>3 DEF Decoded, Place
      <3>5. Overwrite(so.image, r.at, r.size, m, r.from)
              = Overwrite(so.image, r.at, r.size, l, r.from)
        <4>1. r.at \in Int
          BY <2>1, <2>2 DEF Byte
        <4>2. ASSUME NEW i \in Int, i \in r.at .. r.at + r.size - 1
              PROVE m[r.from + i - r.at] = l[r.from + i - r.at]
          <5>1. HeaderSize + (i - r.at) \in 0 .. HeaderSize + l[p + 1] - 1
                /\ r.from + i - r.at = p + (HeaderSize + (i - r.at))
            BY <4>1, <4>2, <2>1, <2>2, <1>3 DEF Place, Byte, HeaderSize
          <5> QED BY <5>1, <3>1
        <4> QED BY <4>2 DEF Overwrite
      <3> QED BY <3>4, <3>5, <1>1, <1>2 DEF ReplayRecord
    <2> QED BY <1>1, <1>2, <1>3, <2>2, <2>3, <2>4, <2>5 DEF Place, HeaderSize, Byte
  <1> QED BY <1>4, <1>5

\* Where the rest of the log is erased no record is found.
LEMMA ErasedEndsReplay ==
  ASSUME NEW size, NEW l \in LogArea, NEW so, so.used \in 0 .. LogSize,
         AllErased(l, so.used, LogSize - so.used)
  PROVE  ReplayRecord(size, l, so) = Failed
  <1>1. CASE so.used = LogSize
    BY <1>1, LogAssumption DEF ReplayRecord, Decoded, NoRecord, Valid
  <1>2. CASE so.used < LogSize
    <2>1. l[so.used] = FF
      BY <1>2, LogAssumption DEF AllErased
    <2>2. LogSize - so.used < HeaderSize \/ AllErased(l, so.used, HeaderSize)
      BY LogAssumption DEF AllErased, HeaderSize
    <2>3. Decoded(l, so.used) = NoRecord
      BY <1>2, <2>1, <2>2, LogAssumption DEF Decoded
    <2> QED BY <2>3 DEF ReplayRecord, Valid, NoRecord
  <1> QED BY <1>1, <1>2, LogAssumption

\* The state after n records is a failure or a place in the log area; a
\* record read means that all before it were, each ending before the next.
LEMMA AfterOrder ==
  ASSUME NEW size, NEW b, NEW l \in LogArea
  PROVE  /\ \A i \in 0 .. MaxSaves : After(size, b, l)[i].used \in 0 .. LogSize
         /\ \A i \in 1 .. MaxSaves :
               LET so == After(size, b, l)[i - 1]  next == After(size, b, l)[i] IN
               next.ok => /\ so.ok /\ so.used < next.used
                          /\ ~AllErased(l, so.used, LogSize - so.used)
  <1> DEFINE A(i) == After(size, b, l)[i]
             Odd == {i \in 0 .. MaxSaves : A(i).used \notin 0 .. LogSize}
  <1>m. MaxSaves \in Nat /\ LogSize \in Nat
    BY LogAssumption
  <1>1. Odd = {}
    <2>s. SUFFICES ASSUME Odd # {} PROVE FALSE
      OBVIOUS
    <2>1. PICK n \in Odd : \A m \in Odd : n <= m
      <3>1. Odd \subseteq Nat
        BY <1>m
      <3> HIDE DEF Odd
      <3> QED BY <3>1, Least, <2>s
    <2>2. n # 0
      <3>1. A(0).used = 0
        <4>1. A(0) = Start(b)
          BY AfterIs
        <4> QED BY <4>1 DEF Start
      <3>2. A(n).used \notin 0 .. LogSize
        BY <2>1
      <3> QED BY <3>1, <3>2, <1>m
    <2>3. n - 1 \in 0 .. MaxSaves /\ n - 1 \notin Odd /\ n \in 1 .. MaxSaves
      <3> HIDE DEF Odd
      <3>1. n \in 0 .. MaxSaves
        BY DEF Odd
      <3>2. ~(n <= n - 1)
        BY <3>1, <1>m
      <3> QED BY <2>1, <2>2, <3>1, <3>2, <1>m
    <2>4. A(n - 1).used \in 0 .. LogSize
      BY <2>3
    <2>5. A(n) = ReplayRecord(size, l, A(n - 1))
      BY <2>3, AfterIs
    <2>6. CASE A(n).ok
      <3>1. A(n).used \in 0 .. LogSize
        BY <2>4, <2>5, <2>6, RecordRead
      <3> QED BY <3>1, <2>1
    <2>7. CASE ~A(n).ok
      <3>1. A(n) = Failed
        BY <2>5, <2>7 DEF ReplayRecord
      <3> QED BY <3>1, <2>1, <1>m DEF Failed
    <2> QED BY <2>6, <2>7
  <1>2. ASSUME NEW i \in 1 .. MaxSaves, A(i).ok
        PROVE  /\ A(i - 1).ok /\ A(i - 1).used < A(i).used
               /\ ~AllErased(l, A(i - 1).used, LogSize - A(i - 1).used)
    <2>1. i - 1 \in 0 .. MaxSaves
      BY <1>m
    <2>2. A(i - 1).used \in 0 .. LogSize
      BY <1>1, <2>1
    <2>3. A(i) = ReplayRecord(size, l, A(i - 1))
      BY AfterIs
    <2> QED BY <2>2, <2>3, <1>2, RecordRead
  <1> QED BY <1>1, <1>2

\* Replaying n records looks only at the bytes they take.
LEMMA AfterIsLocal ==
  ASSUME NEW size, NEW b, NEW l \in LogArea, NEW m \in LogArea, NEW n \in 0 .. MaxSaves,
         After(size, b, l)[n].ok, Agree(l, m, After(size, b, l)[n].used)
  PROVE  After(size, b, m)[n] = After(size, b, l)[n]
  <1> DEFINE A(i) == After(size, b, l)[i]
             C(i) == After(size, b, m)[i]
             Odd == {i \in 0 .. n : A(i).ok /\ Agree(l, m, A(i).used) /\ A(i) # C(i)}
  <1>m. MaxSaves \in Nat /\ LogSize \in Nat
    BY LogAssumption
  <1>1. Odd = {}
    <2>s. SUFFICES ASSUME Odd # {} PROVE FALSE
      OBVIOUS
    <2>1. PICK i \in Odd : \A j \in Odd : i <= j
      <3>1. Odd \subseteq Nat
        BY <1>m
      <3> HIDE DEF Odd
      <3> QED BY <3>1, Least, <2>s
    <2>2. i # 0
      BY AfterIs, <1>m
    <2>3. i - 1 \in 0 .. n /\ i - 1 \notin Odd /\ i \in 1 .. MaxSaves
      <3> HIDE DEF Odd
      <3>1. i \in 0 .. n
        BY DEF Odd
      <3>2. ~(i <= i - 1)
        BY <3>1, <1>m
      <3> QED BY <2>1, <2>2, <3>1, <3>2, <1>m
    <2>4. A(i).ok /\ Agree(l, m, A(i).used) /\ A(i) # C(i)
      BY <2>1
    <2>5. A(i - 1).used \in 0 .. LogSize /\ A(i).used \in 0 .. LogSize
          /\ A(i - 1).ok /\ A(i - 1).used < A(i).used
      BY <2>3, <2>4, AfterOrder, <1>m
    <2>6. Agree(l, m, A(i - 1).used)
      BY <2>4, <2>5, <1>m DEF Agree, Place
    <2>7. A(i - 1) = C(i - 1)
      BY <2>3, <2>5, <2>6
    <2>8. A(i) = ReplayRecord(size, l, A(i - 1)) /\ C(i) = ReplayRecord(size, m, C(i - 1))
      BY <2>3, AfterIs
    <2>9. ReplayRecord(size, m, A(i - 1)) = ReplayRecord(size, l, A(i - 1))
      BY <2>4, <2>5, <2>8, RecordRead
    <2> QED BY <2>4, <2>7, <2>8, <2>9
  <1> QED BY <1>1

\* Once a record is not found none is, however many are asked for.
LEMMA FailureStays ==
  ASSUME NEW size, NEW b, NEW l \in LogArea, NEW n \in 0 .. MaxSaves,
         ~After(size, b, l)[n].ok
  PROVE  \A k \in n .. MaxSaves : ~After(size, b, l)[k].ok
  <1> DEFINE A(i) == After(size, b, l)[i]
             Odd == {k \in n .. MaxSaves : A(k).ok}
  <1>m. MaxSaves \in Nat
    BY LogAssumption
  <1>s. SUFFICES ASSUME Odd # {} PROVE FALSE
    OBVIOUS
  <1>1. PICK k \in Odd : \A j \in Odd : k <= j
    <2>1. Odd \subseteq Nat
      BY <1>m
    <2> HIDE DEF Odd
    <2> QED BY <2>1, Least, <1>s
  <1>2. k # n /\ k \in n .. MaxSaves /\ A(k).ok
    OBVIOUS
  <1>3. k \in 1 .. MaxSaves /\ k - 1 \in n .. MaxSaves /\ ~(k <= k - 1)
    BY <1>2, <1>m
  <1>4. A(k - 1).ok
    BY <1>2, <1>3, AfterOrder
  <1>5. k - 1 \in Odd
    BY <1>3, <1>4
  <1> QED
    <2> HIDE DEF Odd
    <2> QED BY <1>1, <1>3, <1>5

-----------------------------------------------------------------------------
(* One record, written and read.                                           *)

\* A function on 1 .. n is a sequence of length n.
LEMMA IsSequence ==
  ASSUME NEW n \in Nat, NEW f \in [1 .. n -> Byte]
  PROVE  f \in Seq(Byte) /\ Len(f) = n
  <1>1. f \in Seq(Byte)
    <2>1. [1 .. n -> Byte] \in {[1 .. k -> Byte] : k \in Nat}
      OBVIOUS
    <2>2. f \in UNION {[1 .. k -> Byte] : k \in Nat}
      BY <2>1
    <2> QED BY <2>2, SeqDef
  <1>2. Len(f) \in Nat /\ 1 .. Len(f) = 1 .. n
    BY <1>1, LenProperties
  <1>3. \A m \in Nat : 1 .. m = 1 .. n => m <= n /\ n <= m
    <2> SUFFICES ASSUME NEW m \in Nat, 1 .. m = 1 .. n PROVE m <= n /\ n <= m
      OBVIOUS
    <2>1. m \in 1 .. m \/ m = 0
      OBVIOUS
    <2>2. n \in 1 .. n \/ n = 0
      OBVIOUS
    <2> QED BY <2>1, <2>2
  <1> QED BY <1>1, <1>2, <1>3

\* The length of a record, and the bytes of its header and of its data.
LEMMA FixedRecord ==
  ASSUME NEW size \in ImageSizes, NEW old \in Image(size), NEW new \in Image(size),
         NEW at \in Nat, NEW n \in 1 .. MaxData, at + n <= size,
         FixedFits(size, at, n)
  PROVE  LET rec == Encode(size, old, new, at, n) IN
         /\ rec \in Seq(Byte) /\ Len(rec) = FixedSize
         /\ rec[1] = at \div B /\ rec[2] = at % B
         /\ \A k \in 0 .. FixedData - 1 :
               rec[3 + k] = IF k < n THEN new[at + k] ELSE old[at + k]
  <1> USE LogAssumption
  <1> DEFINE head == <<at \div B, at % B>>
             data == [i \in 1 .. FixedData |-> IF i <= n THEN new[at + i - 1]
                                               ELSE old[at + i - 1]]
             rec == Encode(size, old, new, at, n)
  <1>1. rec = head \o data
    BY DEF Encode
  <1>2. size \in Nat /\ size <= B * B /\ B * B \in Nat
    OBVIOUS
  <1>3. at \div B \in Byte /\ at % B \in Byte
    BY <1>2, TwoBytes
  <1>4. head \in Seq(Byte) /\ Len(head) = 2
    BY <1>3
  <1>5. \A i \in 1 .. FixedData : data[i] \in Byte
    BY <1>2 DEF FixedFits, Image
  <1>6. data \in Seq(Byte) /\ Len(data) = FixedData
    <2>1. FixedData \in Nat
      OBVIOUS
    <2>2. data \in [1 .. FixedData -> Byte]
      BY <1>5
    <2> QED BY <2>1, <2>2, IsSequence
  <1> HIDE DEF data, head, rec
  <1>7. /\ rec \in Seq(Byte) /\ Len(rec) = 2 + FixedData
        /\ \A i \in 1 .. 2 + FixedData :
              rec[i] = IF i <= 2 THEN head[i] ELSE data[i - 2]
    <2>1. /\ head \o data \in Seq(Byte)
          /\ Len(head \o data) = Len(head) + Len(data)
          /\ \A i \in 1 .. Len(head) + Len(data) :
                (head \o data)[i] = IF i <= Len(head) THEN head[i] ELSE data[i - Len(head)]
      BY <1>4, <1>6, ConcatProperties
    <2> QED BY <2>1, <1>1, <1>4, <1>6
  <1>8. rec[1] = at \div B /\ rec[2] = at % B
    <2>1. rec[1] = head[1] /\ rec[2] = head[2]
      BY <1>7
    <2> QED BY <2>1 DEF head
  <1>9. ASSUME NEW k \in 0 .. FixedData - 1
        PROVE rec[3 + k] = IF k < n THEN new[at + k] ELSE old[at + k]
    <2>1. 3 + k \in 1 .. 2 + FixedData /\ ~(3 + k <= 2) /\ (3 + k) - 2 = k + 1
      OBVIOUS
    <2>2. rec[3 + k] = data[k + 1]
      BY <1>7, <2>1
    <2>3. k + 1 \in 1 .. FixedData /\ at + (k + 1) - 1 = at + k
      OBVIOUS
    <2> QED BY <2>2, <2>3 DEF data
  <1> QED BY <1>7, <1>8, <1>9 DEF rec, FixedSize

LEMMA VariableRecord ==
  ASSUME NEW size \in ImageSizes, NEW old \in Image(size), NEW new \in Image(size),
         NEW at \in Nat, NEW n \in 1 .. MaxData, at + n <= size,
         ~FixedFits(size, at, n)
  PROVE  LET rec == Encode(size, old, new, at, n) IN
         /\ rec \in Seq(Byte) /\ Len(rec) = HeaderSize + n
         /\ rec[1] = FF /\ rec[2] = n /\ rec[3] = at \div B /\ rec[4] = at % B
         /\ \A k \in 0 .. n - 1 : rec[5 + k] = new[at + k]
  <1> USE LogAssumption
  <1> DEFINE head == <<FF, n, at \div B, at % B>>
             data == [i \in 1 .. n |-> new[at + i - 1]]
             rec == Encode(size, old, new, at, n)
  <1>1. rec = head \o data
    BY DEF Encode
  <1>2. size \in Nat /\ size <= B * B /\ B * B \in Nat
    OBVIOUS
  <1>3. at \div B \in Byte /\ at % B \in Byte
    BY <1>2, TwoBytes
  <1>4. head \in Seq(Byte) /\ Len(head) = 4
    <2>1. FF \in Byte /\ n \in Byte
      BY DEF FF, Byte
    <2> QED BY <1>3, <2>1
  <1>5. \A i \in 1 .. n : data[i] \in Byte
    BY <1>2 DEF Image
  <1>6. data \in Seq(Byte) /\ Len(data) = n
    <2>1. n \in Nat
      OBVIOUS
    <2>2. data \in [1 .. n -> Byte]
      BY <1>5
    <2> QED BY <2>1, <2>2, IsSequence
  <1> HIDE DEF data, head, rec
  <1>7. /\ rec \in Seq(Byte) /\ Len(rec) = 4 + n
        /\ \A i \in 1 .. 4 + n : rec[i] = IF i <= 4 THEN head[i] ELSE data[i - 4]
    <2>1. /\ head \o data \in Seq(Byte)
          /\ Len(head \o data) = Len(head) + Len(data)
          /\ \A i \in 1 .. Len(head) + Len(data) :
                (head \o data)[i] = IF i <= Len(head) THEN head[i] ELSE data[i - Len(head)]
      BY <1>4, <1>6, ConcatProperties
    <2> QED BY <2>1, <1>1, <1>4, <1>6
  <1>8. rec[1] = FF /\ rec[2] = n /\ rec[3] = at \div B /\ rec[4] = at % B
    <2>1. rec[1] = head[1] /\ rec[2] = head[2] /\ rec[3] = head[3] /\ rec[4] = head[4]
      <3>1. 1 \in 1 .. 4 + n /\ 2 \in 1 .. 4 + n /\ 3 \in 1 .. 4 + n /\ 4 \in 1 .. 4 + n
        OBVIOUS
      <3> QED BY <3>1, <1>7
    <2> QED BY <2>1 DEF head
  <1>9. ASSUME NEW k \in 0 .. n - 1 PROVE rec[5 + k] = new[at + k]
    <2>1. 5 + k \in 1 .. 4 + n /\ ~(5 + k <= 4) /\ (5 + k) - 4 = k + 1
      OBVIOUS
    <2>2. rec[5 + k] = data[k + 1]
      BY <1>7, <2>1
    <2>3. k + 1 \in 1 .. n /\ at + (k + 1) - 1 = at + k
      OBVIOUS
    <2> QED BY <2>2, <2>3 DEF data
  <1> QED BY <1>7, <1>8, <1>9 DEF rec, HeaderSize

\* Bytes written behind the used part of a log: the part before stays, and
\* what follows them is erased as it was.
LEMMA LogWritten ==
  ASSUME NEW l \in LogArea, NEW p \in 0 .. LogSize, NEW rec \in Seq(Byte),
         Len(rec) <= LogSize - p, AllErased(l, p, LogSize - p)
  PROVE  LET m == Overwrite(l, p, Len(rec), rec, 1) IN
         /\ m \in LogArea
         /\ Agree(l, m, p)
         /\ \A k \in 0 .. Len(rec) - 1 : m[p + k] = rec[1 + k]
         /\ AllErased(m, p + Len(rec), LogSize - (p + Len(rec)))
  <1> DEFINE m == Overwrite(l, p, Len(rec), rec, 1)
  <1>1. Len(rec) \in Nat /\ LogSize \in Nat
    BY LogAssumption
  <1>2. DOMAIN l = Place
    BY DEF LogArea
  <1>3. \A i \in Place : m[i] = IF i \in p .. p + Len(rec) - 1 THEN rec[1 + i - p] ELSE l[i]
    BY <1>2 DEF Overwrite
  <1>4. m \in LogArea
    <2>1. \A i \in Place : i \in p .. p + Len(rec) - 1 => rec[1 + i - p] \in Byte
      <3> SUFFICES ASSUME NEW i \in Place, i \in p .. p + Len(rec) - 1
                   PROVE  rec[1 + i - p] \in Byte
        OBVIOUS
      <3>1. 1 + i - p \in 1 .. Len(rec)
        BY <1>1 DEF Place
      <3> QED BY <3>1, ElementOfSeq
    <2>2. \A i \in Place : l[i] \in Byte
      BY DEF LogArea
    <2> QED BY <1>2, <2>1, <2>2 DEF Overwrite, LogArea
  <1>5. Agree(l, m, p)
    BY <1>1, <1>3 DEF Agree, Place
  <1>6. ASSUME NEW k \in 0 .. Len(rec) - 1 PROVE m[p + k] = rec[1 + k]
    <2>1. p + k \in Place /\ p + k \in p .. p + Len(rec) - 1 /\ 1 + (p + k) - p = 1 + k
      BY <1>1 DEF Place
    <2> QED BY <1>3, <2>1
  <1>7. AllErased(m, p + Len(rec), LogSize - (p + Len(rec)))
    <2> SUFFICES ASSUME NEW i \in p + Len(rec) .. LogSize - 1 PROVE m[i] = FF
      BY <1>1 DEF AllErased
    <2>1. i \in Place /\ i \in p .. p + (LogSize - p) - 1 /\ i \notin p .. p + Len(rec) - 1
      BY <1>1 DEF Place
    <2>2. l[i] = FF
      BY <2>1 DEF AllErased
    <2> QED BY <1>3, <2>1, <2>2
  <1> QED BY <1>4, <1>5, <1>6, <1>7

\* The two forms of a record, found at a place of the log.
LEMMA FixedIsRead ==
  ASSUME NEW m, NEW p \in Nat, p + 2 + FixedData <= LogSize, m[p] # FF
  PROVE  Decoded(m, p) = [from |-> p + 2, size |-> FixedData, at |-> m[p] * B + m[p + 1]]
  <1>1. FixedData \in Nat /\ LogSize \in Nat
    BY LogAssumption
  <1>2. ~(p >= LogSize) /\ ~(LogSize - p < 2 + FixedData)
    BY <1>1
  <1> QED BY <1>2 DEF Decoded, FixedSize

LEMMA VariableIsRead ==
  ASSUME NEW m, NEW p \in Nat, p + 4 <= LogSize, m[p] = FF, ~AllErased(m, p, 4)
  PROVE  Decoded(m, p) = [from |-> p + 4, size |-> m[p + 1], at |-> m[p + 2] * B + m[p + 3]]
  <1>1. LogSize \in Nat
    BY LogAssumption
  <1>2. ~(p >= LogSize) /\ ~(LogSize - p < 4)
    BY <1>1
  <1> QED BY <1>2 DEF Decoded, HeaderSize

\* Bytes copied into an image: the others stay.
LEMMA OverwrittenType ==
  ASSUME NEW size \in Nat, NEW f \in Image(size), NEW m, NEW from \in Nat, NEW at \in Nat,
         NEW n \in Nat, \A k \in 0 .. n - 1 : m[from + k] \in Byte
  PROVE  Overwrite(f, at, n, m, from) \in Image(size)
  <1> DEFINE image == Overwrite(f, at, n, m, from)
  <1>1. ASSUME NEW i \in 0 .. size - 1 PROVE image[i] \in Byte
    <2>3. image[i] = IF i \in at .. at + n - 1 THEN m[from + (i - at)] ELSE f[i]
      <3>1. image[i] = IF i \in at .. at + n - 1 THEN m[from + i - at] ELSE f[i]
        BY DEF Overwrite, Image
      <3>2. from + i - at = from + (i - at)
        OBVIOUS
      <3> QED BY <3>1, <3>2
    <2>1. CASE i \in at .. at + n - 1
      <3>1. i - at \in 0 .. n - 1
        BY <2>1
      <3> QED BY <2>3, <2>1, <3>1
    <2>2. CASE i \notin at .. at + n - 1
      <3>1. f[i] \in Byte
        BY DEF Image
      <3> QED BY <2>3, <2>2, <3>1
    <2> QED BY <2>1, <2>2
  <1>2. image = [i \in 0 .. size - 1 |-> image[i]]
    BY DEF Overwrite, Image
  <1> HIDE DEF image
  <1>3. image \in Image(size)
    BY <1>1, <1>2 DEF Image
  <1> QED BY <1>3 DEF image

\* A record that is found and fits is replayed.
LEMMA RecordReplayed ==
  ASSUME NEW size \in Nat, NEW m, NEW so, so.ok,
         NEW from \in Nat, NEW n \in Nat, NEW at \in Nat,
         n > 0, from + n <= LogSize, at + n <= size,
         Decoded(m, so.used) = [from |-> from, size |-> n, at |-> at]
  PROVE  ReplayRecord(size, m, so)
           = [ok |-> TRUE, used |-> from + n, image |-> Overwrite(so.image, at, n, m, from)]
  BY DEF ReplayRecord, Valid

\* The record at a place is the one that Encode gave: replay finds its
\* length, its offset and its data, and leaves the rest of the image alone
\* but for the padding, which rewrites bytes of the old image behind it.
RecordIsIn(size, old, new, at, n, m, so, rec) ==
    \E image \in Image(size) :
       /\ ReplayRecord(size, m, so)
            = [ok |-> TRUE, used |-> so.used + Len(rec), image |-> image]
       /\ \A i \in at .. at + n - 1 : image[i] = new[i]
       /\ \A i \in 0 .. size - 1 \ at .. at + n - 1 :
             image[i] = so.image[i] \/ (i >= at + n /\ image[i] = old[i])

LEMMA RecordWritten ==
  ASSUME NEW size, NEW old, NEW new, NEW at, NEW n, NEW m, NEW so, NEW rec,
         size \in ImageSizes, old \in Image(size), new \in Image(size),
         at \in Nat, n \in 1 .. MaxData, at + n <= size,
         m \in LogArea, so.ok, so.used \in 0 .. LogSize, so.image \in Image(size),
         rec = Encode(size, old, new, at, n), Len(rec) <= LogSize - so.used,
         \A k \in 0 .. Len(rec) - 1 : m[so.used + k] = rec[1 + k]
  PROVE  RecordIsIn(size, old, new, at, n, m, so, rec)
  <1> DEFINE p == so.used
             written == Encode(size, old, new, at, n)
  <1>1. /\ LogSize \in Nat /\ p \in Nat /\ B \in Nat /\ B > 2
        /\ FixedData \in Nat /\ FixedData > 0
    BY LogAssumption
  <1>2. size \in Nat /\ size <= B * B
    BY LogAssumption
  <1>3. n \in Nat /\ n > 0 /\ n <= B - 1
    <2>1. MaxData \in Nat /\ MaxData <= B - 1
      BY LogAssumption DEF FF
    <2> QED BY <2>1, <1>1
  <1>4. PICK square \in Nat : square = B * B
    BY <1>1
  <1>5. at < square
    BY <1>2, <1>3, <1>4
  <1>6. PICK hi \in Byte, lo \in Byte :
           hi = at \div B /\ lo = at % B /\ hi * B + lo = at
    BY <1>4, <1>5, TwoBytes
  <1>7. CASE FixedFits(size, at, n)
    <2>1. /\ Len(written) = FixedSize /\ written[1] = at \div B /\ written[2] = at % B
          /\ \A k \in 0 .. FixedData - 1 :
                written[3 + k] = IF k < n THEN new[at + k] ELSE old[at + k]
      BY <1>7, FixedRecord
    <2> HIDE DEF written, p
    <2>2. n <= FixedData /\ hi # FF /\ at + FixedData <= size
      BY <1>6, <1>7 DEF FixedFits
    <2>3. Len(rec) = 2 + FixedData
      BY <2>1 DEF FixedSize, written
    <2>4. \A k \in 0 .. 1 + FixedData : m[p + k] = rec[1 + k]
      BY <2>3, <1>1 DEF p
    <2>5. m[p] = hi /\ m[p + 1] = lo
      <3>1. m[p + 0] = rec[1 + 0] /\ m[p + 1] = rec[1 + 1]
        BY <2>4, <1>1
      <3>2. rec[1] = hi /\ rec[2] = lo
        BY <2>1, <1>6 DEF written
      <3> QED BY <3>1, <3>2, <1>1
    <2>6. ASSUME NEW k \in 0 .. FixedData - 1
          PROVE m[p + 2 + k] = IF k < n THEN new[at + k] ELSE old[at + k]
      <3>1. 2 + k \in 0 .. 1 + FixedData /\ p + (2 + k) = p + 2 + k /\ 1 + (2 + k) = 3 + k
        BY <1>1
      <3>2. m[p + (2 + k)] = rec[1 + (2 + k)]
        BY <2>4, <3>1
      <3>3. rec[3 + k] = IF k < n THEN new[at + k] ELSE old[at + k]
        BY <2>1 DEF written
      <3> QED BY <3>1, <3>2, <3>3
    <2>7. p + 2 + FixedData <= LogSize
      BY <2>3, <1>1 DEF p
    <2>8. Decoded(m, p) = [from |-> p + 2, size |-> FixedData, at |-> at]
      <3>1. Decoded(m, p) = [from |-> p + 2, size |-> FixedData, at |-> m[p] * B + m[p + 1]]
        BY <2>5, <2>2, <2>7, <1>1, FixedIsRead
      <3> QED BY <3>1, <2>5, <1>6
    <2>9. ASSUME NEW k \in 0 .. FixedData - 1 PROVE m[p + 2 + k] \in Byte
      <3>1. at + k \in 0 .. size - 1
        BY <2>2, <1>1, <1>2
      <3>2. new[at + k] \in Byte /\ old[at + k] \in Byte
        BY <3>1 DEF Image
      <3> QED BY <2>6, <3>2
    <2> DEFINE from == p + 2
               image == Overwrite(so.image, at, FixedData, m, from)
    <2>10. /\ from \in Nat /\ FixedData \in Nat /\ FixedData > 0
           /\ from + FixedData <= LogSize /\ at + FixedData <= size
      BY <2>7, <1>1, <2>2
    <2>15. ReplayRecord(size, m, so) = [ok |-> TRUE, used |-> from + FixedData, image |-> image]
      <3>1. Decoded(m, so.used) = [from |-> from, size |-> FixedData, at |-> at]
        BY <2>8 DEF p
      <3> HIDE DEF from
      <3> QED BY <3>1, <2>10, <1>2, RecordReplayed
    <2>16. /\ image \in Image(size)
           /\ \A i \in 0 .. size - 1 :
                 image[i] = IF i \in at .. at + FixedData - 1 THEN m[from + (i - at)]
                            ELSE so.image[i]
      <3> HIDE DEF from
      <3>1. \A k \in 0 .. FixedData - 1 : m[from + k] \in Byte
        BY <2>9 DEF from
      <3>2. image \in Image(size)
        BY <3>1, <2>10, <1>2, OverwrittenType
      <3>3. ASSUME NEW i \in 0 .. size - 1
            PROVE image[i] = IF i \in at .. at + FixedData - 1 THEN m[from + (i - at)]
                             ELSE so.image[i]
        <4>1. image[i] = IF i \in at .. at + FixedData - 1 THEN m[from + i - at]
                         ELSE so.image[i]
          BY DEF Overwrite, Image
        <4>2. from + i - at = from + (i - at)
          BY <2>10, <1>2
        <4> QED BY <4>1, <4>2
      <3> QED BY <3>2, <3>3
    <2> HIDE DEF image
    <2>11. ASSUME NEW i \in at .. at + FixedData - 1
           PROVE image[i] = IF i < at + n THEN new[i] ELSE old[i]
      <3>1. /\ i - at \in 0 .. FixedData - 1 /\ at + (i - at) = i /\ i \in 0 .. size - 1
            /\ (i - at < n <=> i < at + n)
        BY <2>2, <1>1, <1>2, <1>3
      <3>2. m[p + 2 + (i - at)] = IF i - at < n THEN new[at + (i - at)] ELSE old[at + (i - at)]
        BY <2>6, <3>1
      <3> QED BY <2>16, <3>1, <3>2
    <2>12. \A i \in at .. at + n - 1 : image[i] = new[i]
      <3> SUFFICES ASSUME NEW i \in at .. at + n - 1 PROVE image[i] = new[i]
        OBVIOUS
      <3>1. i \in at .. at + FixedData - 1 /\ i < at + n
        BY <2>2, <1>1, <1>3
      <3> QED BY <2>11, <3>1
    <2>13. ASSUME NEW i \in 0 .. size - 1, i \notin at .. at + n - 1
           PROVE image[i] = so.image[i] \/ (i >= at + n /\ image[i] = old[i])
      <3>1. CASE i \in at .. at + FixedData - 1
        <4>1. i >= at + n
          BY <2>13, <3>1, <1>3
        <4> QED BY <2>11, <3>1, <4>1, <1>3
      <3>2. CASE i \notin at .. at + FixedData - 1
        BY <2>16, <3>2
      <3> QED BY <3>1, <3>2
    <2>14. (p + 2) + FixedData = so.used + Len(rec)
      BY <2>3, <1>1 DEF p
    <2> QED BY <2>15, <2>16, <2>12, <2>13, <2>14 DEF RecordIsIn
  <1>8. CASE ~FixedFits(size, at, n)
    <2>1. /\ Len(written) = HeaderSize + n
          /\ written[1] = FF /\ written[2] = n
          /\ written[3] = at \div B /\ written[4] = at % B
          /\ \A k \in 0 .. n - 1 : written[5 + k] = new[at + k]
      BY <1>8, VariableRecord
    <2> HIDE DEF written, p
    <2>2. Len(rec) = 4 + n
      BY <2>1 DEF HeaderSize, written
    <2>3. \A k \in 0 .. 3 + n : m[p + k] = rec[1 + k]
      BY <2>2, <1>3 DEF p
    <2>4. m[p] = FF /\ m[p + 1] = n /\ m[p + 2] = hi /\ m[p + 3] = lo
      <3>1. /\ m[p + 0] = rec[1 + 0] /\ m[p + 1] = rec[1 + 1]
            /\ m[p + 2] = rec[1 + 2] /\ m[p + 3] = rec[1 + 3]
        BY <2>3, <1>3
      <3>2. rec[1] = FF /\ rec[2] = n /\ rec[3] = hi /\ rec[4] = lo
        BY <2>1, <1>6 DEF written
      <3> QED BY <3>1, <3>2, <1>1
    <2>5. ~AllErased(m, p, 4)
      <3> SUFFICES ASSUME AllErased(m, p, 4) PROVE FALSE
        OBVIOUS
      <3>1. n = FF /\ hi = FF /\ lo = FF
        BY <2>4, <1>1 DEF AllErased
      <3>2. n = B - 1 /\ at = (B - 1) * B + (B - 1)
        BY <3>1, <1>6 DEF FF
      <3>3. (B - 1) * B + (B - 1) = square - 1
        BY <1>1, <1>4
      <3> QED BY <3>2, <3>3, <1>1, <1>2, <1>4
    <2>6. ASSUME NEW k \in 0 .. n - 1 PROVE m[p + 4 + k] = new[at + k]
      <3>1. 4 + k \in 0 .. 3 + n /\ p + (4 + k) = p + 4 + k /\ 1 + (4 + k) = 5 + k
        BY <1>1, <1>3
      <3>2. m[p + (4 + k)] = rec[1 + (4 + k)]
        BY <2>3, <3>1
      <3>3. rec[5 + k] = new[at + k]
        BY <2>1 DEF written
      <3> QED BY <3>1, <3>2, <3>3
    <2>7. p + 4 + n <= LogSize /\ p + 4 <= LogSize
      BY <2>2, <1>1, <1>3 DEF p
    <2>8. Decoded(m, p) = [from |-> p + 4, size |-> n, at |-> at]
      BY <2>4, <2>5, <2>7, <1>1, <1>6, VariableIsRead
    <2>9. ASSUME NEW k \in 0 .. n - 1 PROVE m[p + 4 + k] \in Byte
      <3>1. at + k \in 0 .. size - 1
        BY <1>2, <1>3
      <3>2. new[at + k] \in Byte
        BY <3>1 DEF Image
      <3> QED BY <2>6, <3>2
    <2> DEFINE from == p + 4
               image == Overwrite(so.image, at, n, m, from)
    <2>10. /\ from \in Nat /\ n \in Nat /\ n > 0
           /\ from + n <= LogSize /\ at + n <= size
      BY <2>7, <1>1, <1>3
    <2>15. ReplayRecord(size, m, so) = [ok |-> TRUE, used |-> from + n, image |-> image]
      <3>1. Decoded(m, so.used) = [from |-> from, size |-> n, at |-> at]
        BY <2>8 DEF p
      <3> HIDE DEF from
      <3> QED BY <3>1, <2>10, <1>2, RecordReplayed
    <2>16. /\ image \in Image(size)
           /\ \A i \in 0 .. size - 1 :
                 image[i] = IF i \in at .. at + n - 1 THEN m[from + (i - at)]
                            ELSE so.image[i]
      <3> HIDE DEF from
      <3>1. \A k \in 0 .. n - 1 : m[from + k] \in Byte
        BY <2>9 DEF from
      <3>2. image \in Image(size)
        BY <3>1, <2>10, <1>2, OverwrittenType
      <3>3. ASSUME NEW i \in 0 .. size - 1
            PROVE image[i] = IF i \in at .. at + n - 1 THEN m[from + (i - at)]
                             ELSE so.image[i]
        <4>1. image[i] = IF i \in at .. at + n - 1 THEN m[from + i - at]
                         ELSE so.image[i]
          BY DEF Overwrite, Image
        <4>2. from + i - at = from + (i - at)
          BY <2>10, <1>2
        <4> QED BY <4>1, <4>2
      <3> QED BY <3>2, <3>3
    <2> HIDE DEF image
    <2>11. ASSUME NEW i \in at .. at + n - 1 PROVE image[i] = new[i]
      <3>1. i - at \in 0 .. n - 1 /\ at + (i - at) = i /\ i \in 0 .. size - 1
        BY <1>2, <1>3
      <3>2. m[p + 4 + (i - at)] = new[at + (i - at)]
        BY <2>6, <3>1
      <3> QED BY <2>16, <3>1, <3>2
    <2>12. \A i \in 0 .. size - 1 \ at .. at + n - 1 : image[i] = so.image[i]
      BY <2>16
    <2>13. (p + 4) + n = so.used + Len(rec)
      BY <2>2, <1>1, <1>3 DEF p
    <2> QED BY <2>15, <2>16, <2>11, <2>12, <2>13 DEF RecordIsIn
  <1> QED BY <1>7, <1>8

-----------------------------------------------------------------------------
(* The invariant: what the log holds, at every turn of the loop.           *)

\* The image that the records so far describe.
Shown == [i \in 0 .. imageSize - 1 |->
             IF Idle \/ i < offset THEN target[i] ELSE saved[i]]

Read ==
    After(imageSize, base, log)[count - 1] = [ok |-> TRUE, used |-> used, image |-> Shown]

RestErased == AllErased(log, used, LogSize - used)

\* Behind the bytes the loop has left to write the two images are the same.
TailSaved ==
    ~Idle => \A i \in 0 .. imageSize - 1 : i >= offset + remaining => saved[i] = target[i]

LogInv == TypeOK /\ Read /\ RestErased /\ TailSaved

\* Facts of the constants that the steps use.
LEMMA LogConstants ==
    /\ MaxSaves \in Nat /\ MaxSaves > 0 /\ LogSize \in Nat
    /\ MaxData \in Nat /\ MaxData > 0
    /\ \A size \in ImageSizes : size \in Nat /\ size > 0
  <1>1. B * B \in Int
    BY LogAssumption
  <1>2. \A size \in ImageSizes : size \in 1 .. B * B
    BY LogAssumption
  <1>3. \A size \in ImageSizes : size \in Nat /\ size > 0
    BY <1>1, <1>2
  <1>4. MaxData \in Nat /\ MaxData > 0
    BY LogAssumption
  <1> QED BY <1>3, <1>4, LogAssumption

\* An image is the function of its bytes.
LEMMA ImageIs ==
  ASSUME NEW size, NEW f \in Image(size), NEW g \in Image(size),
         \A i \in 0 .. size - 1 : f[i] = g[i]
  PROVE  f = g
  <1>1. f = [i \in 0 .. size - 1 |-> f[i]] /\ g = [i \in 0 .. size - 1 |-> g[i]]
    BY DEF Image
  <1>2. [i \in 0 .. size - 1 |-> f[i]] = [i \in 0 .. size - 1 |-> g[i]]
    OBVIOUS
  <1> QED BY <1>1, <1>2

\* An empty log behind a base image.
LEMMA EmptyLog ==
  ASSUME NEW size, NEW b \in Image(size)
  PROVE  /\ Erased \in LogArea
         /\ AllErased(Erased, 0, LogSize - 0)
         /\ After(size, b, Erased)[0] = [ok |-> TRUE, used |-> 0, image |-> b]
  <1>1. Erased \in LogArea
    BY LogAssumption DEF Erased, LogArea, FF, Byte
  <1>2. AllErased(Erased, 0, LogSize - 0)
    BY LogAssumption DEF Erased, AllErased, Place
  <1>3. After(size, b, Erased)[0] = Start(b)
    BY AfterIs
  <1> QED BY <1>1, <1>2, <1>3 DEF Start

\* What the invariant says of a replay.
LEMMA ReplayRead ==
  ASSUME LogInv
  PROVE  Replay(imageSize, base, log, count - 1)
           = [ok |-> TRUE, used |-> used, image |-> Shown]
  BY DEF LogInv, Read, RestErased, Replay

LEMMA ShownWhenIdle ==
  ASSUME LogInv, Idle
  PROVE  Shown = target
  BY DEF LogInv, TypeOK, Shown, Image

LEMMA LogInvInit == Init => LogInv
  <1> SUFFICES ASSUME Init PROVE LogInv
    OBVIOUS
  <1> USE LogConstants
  <1>1. /\ imageSize \in ImageSizes /\ base \in Image(imageSize)
        /\ log = Erased /\ count = 1 /\ used = 0 /\ target = base /\ saved = base
        /\ offset = 0 /\ remaining = 0
    BY DEF Init
  <1>2. imageSize \in Nat
    BY <1>1
  <1>3. log \in LogArea /\ RestErased
    BY <1>1, EmptyLog DEF RestErased
  <1>4. TypeOK
    BY <1>1, <1>2, <1>3 DEF TypeOK, LogArea
  <1>5. TailSaved
    BY <1>1 DEF TailSaved
  <1>6. Read
    <2>1. After(imageSize, base, log)[0] = [ok |-> TRUE, used |-> 0, image |-> base]
      BY <1>1, EmptyLog
    <2>2. Shown = base
      BY <1>1 DEF Shown, Idle, Image
    <2>3. count - 1 = 0
      BY <1>1
    <2> QED BY <1>1, <2>1, <2>2, <2>3 DEF Read
  <1> QED BY <1>3, <1>4, <1>5, <1>6 DEF LogInv

LEMMA RebuildKeepsLogInv ==
  ASSUME LogInv, Rebuild
  PROVE  LogInv'
  <1> USE LogConstants
  <1>1. /\ base' = target /\ log' = Erased /\ count' = 1 /\ used' = 0 /\ remaining' = 0
        /\ imageSize' = imageSize /\ target' = target /\ saved' = saved /\ offset' = offset
    BY DEF Rebuild
  <1>2. imageSize \in Nat /\ target \in Image(imageSize) /\ saved \in Image(imageSize)
        /\ imageSize \in ImageSizes /\ offset \in 0 .. imageSize
    BY DEF LogInv, TypeOK
  <1>3. log' \in LogArea /\ RestErased'
    BY <1>1, <1>2, EmptyLog DEF RestErased
  <1>4. TypeOK'
    BY <1>1, <1>2, <1>3 DEF TypeOK, LogArea, Idle
  <1>5. TailSaved'
    BY <1>1 DEF TailSaved, Idle
  <1>6. Read'
    <2>1. After(imageSize, target, Erased)[0] = [ok |-> TRUE, used |-> 0, image |-> target]
      BY <1>2, EmptyLog
    <2>2. Shown' = target
      BY <1>1, <1>2 DEF Shown, Idle, Image
    <2>3. count' - 1 = 0
      BY <1>1
    <2> QED BY <1>1, <2>1, <2>2, <2>3 DEF Read
  <1> QED BY <1>3, <1>4, <1>5, <1>6 DEF LogInv

\* The first and the last difference are differences, and none lies outside.
LEMMA FirstAndLast ==
  ASSUME NEW n \in Nat, NEW D, D \subseteq 0 .. n - 1, D # {}
  PROVE  /\ First(D) \in D /\ Last(D) \in D
         /\ \A i \in D : First(D) <= i /\ i <= Last(D)
  <1>1. D \subseteq Nat
    OBVIOUS
  <1>2. \E x \in D : \A y \in D : x <= y
    BY <1>1, Least
  <1>3. \E x \in D : \A y \in D : x >= y
    <2>1. \A y \in D : y <= n
      OBVIOUS
    <2> QED BY <1>1, <2>1, Greatest
  <1>4. First(D) \in D /\ \A y \in D : First(D) <= y
    BY <1>2 DEF First
  <1>5. Last(D) \in D /\ \A y \in D : Last(D) >= y
    BY <1>3 DEF Last
  <1> QED BY <1>1, <1>4, <1>5

LEMMA CommitKeepsLogInv ==
  ASSUME LogInv, NEW image \in Images \cap Image(imageSize), Commit(image)
  PROVE  LogInv'
  <1> USE LogConstants
  <1> DEFINE D == Differences(target, image)
  <1>1. /\ imageSize \in Nat /\ imageSize \in ImageSizes
        /\ base \in Image(imageSize) /\ target \in Image(imageSize)
        /\ log \in LogArea /\ count \in 1 .. MaxSaves /\ used \in 0 .. LogSize
        /\ offset \in 0 .. imageSize /\ image \in Image(imageSize)
    BY DEF LogInv, TypeOK, LogArea
  <1>2. Idle /\ Shown = target
    BY ShownWhenIdle DEF Commit
  <1>3. Replay(imageSize, base, log, count - 1) = [ok |-> TRUE, used |-> used, image |-> target]
    BY <1>2, ReplayRead
  <1>4. /\ saved' = target /\ used' = used /\ target' = image
        /\ imageSize' = imageSize /\ base' = base /\ log' = log /\ count' = count
        /\ offset' = IF D = {} THEN offset ELSE First(D)
        /\ remaining' = IF D = {} THEN 0 ELSE Last(D) - First(D) + 1
    BY <1>3 DEF Commit
  <1>5. D \subseteq 0 .. imageSize - 1
        /\ \A i \in 0 .. imageSize - 1 : i \in D <=> target[i] # image[i]
    BY <1>1 DEF Differences, Image
  <1> HIDE DEF D
  <1>6. RestErased'
    BY <1>4 DEF LogInv, RestErased
  <1>7. After(imageSize, base, log)[count - 1] = [ok |-> TRUE, used |-> used, image |-> target]
    BY <1>2 DEF LogInv, Read
  <1>8. CASE D = {}
    <2>1. image = target
      <3>1. \A i \in 0 .. imageSize - 1 : image[i] = target[i]
        BY <1>5, <1>8
      <3> QED BY <1>1, <3>1, ImageIs
    <2>2. offset' = offset /\ remaining' = 0
      BY <1>4, <1>8
    <2>3. Shown' = target
      BY <2>1, <2>2, <1>1, <1>4 DEF Shown, Idle, Image
    <2>4. TypeOK'
      BY <2>2, <1>1, <1>4 DEF TypeOK, Idle, LogArea
    <2>5. Read'
      BY <1>4, <1>7, <2>3 DEF Read
    <2>6. TailSaved'
      BY <2>2 DEF TailSaved, Idle
    <2> QED BY <2>4, <2>5, <2>6, <1>6 DEF LogInv
  <1>9. CASE D # {}
    <2>1. /\ First(D) \in D /\ Last(D) \in D
          /\ \A i \in D : First(D) <= i /\ i <= Last(D)
      BY <1>1, <1>5, <1>9, FirstAndLast
    <2> DEFINE first == First(D)
               last == Last(D)
    <2>2. /\ first \in 0 .. imageSize - 1 /\ last \in 0 .. imageSize - 1 /\ first <= last
          /\ offset' = first /\ remaining' = last - first + 1
      BY <2>1, <1>4, <1>5, <1>9
    <2> HIDE DEF first, last
    <2>3. \A i \in 0 .. imageSize - 1 : (i < first \/ i > last) => target[i] = image[i]
      BY <2>1, <2>2, <1>1, <1>5 DEF first, last
    <2>4. ~Idle'
      BY <2>2 DEF Idle
    <2>5. Shown' = target
      <3>1. Shown' = [i \in 0 .. imageSize - 1 |-> IF i < first THEN image[i] ELSE target[i]]
        BY <2>2, <2>4, <1>4 DEF Shown
      <3>2. \A i \in 0 .. imageSize - 1 : (IF i < first THEN image[i] ELSE target[i]) = target[i]
        BY <2>3
      <3>3. target = [i \in 0 .. imageSize - 1 |-> target[i]]
        BY <1>1 DEF Image
      <3> QED BY <3>1, <3>2, <3>3
    <2>6. TypeOK'
      <3>1. offset' + remaining' <= imageSize' /\ offset' \in 0 .. imageSize'
            /\ remaining' \in 0 .. imageSize'
        BY <2>2, <1>1, <1>4
      <3>2. {base', target', saved'} \subseteq Image(imageSize')
        BY <1>1, <1>4
      <3> QED BY <3>1, <3>2, <1>1, <1>4 DEF TypeOK, LogArea
    <2>7. Read'
      BY <1>4, <1>7, <2>5 DEF Read
    <2>8. TailSaved'
      <3> SUFFICES ASSUME NEW i \in 0 .. imageSize - 1, i >= offset' + remaining'
                   PROVE  saved'[i] = target'[i]
        BY <1>4 DEF TailSaved
      <3>1. i > last
        BY <2>2
      <3> QED BY <3>1, <2>3, <1>4
    <2> QED BY <2>6, <2>7, <2>8, <1>6 DEF LogInv
  <1> QED BY <1>8, <1>9

LEMMA ChunkKeepsLogInv ==
  ASSUME LogInv, WriteChunk
  PROVE  LogInv'
  <1> USE LogConstants
  <1> DEFINE n == ChunkSize
             rec == Encode(imageSize, saved, target, offset, n)
             so == After(imageSize, base, log)[count - 1]
  <1>1. /\ imageSize \in ImageSizes /\ imageSize \in Nat
        /\ base \in Image(imageSize) /\ target \in Image(imageSize)
        /\ saved \in Image(imageSize) /\ log \in LogArea
        /\ count \in 1 .. MaxSaves /\ used \in 0 .. LogSize
        /\ offset \in 0 .. imageSize /\ remaining \in 0 .. imageSize
    BY DEF LogInv, TypeOK, LogArea
  <1>2. remaining > 0 /\ offset + remaining <= imageSize
    BY <1>1 DEF LogInv, TypeOK, WriteChunk, Idle
  <1>3. n \in 1 .. MaxData /\ n <= remaining /\ offset + n <= imageSize
    BY <1>1, <1>2 DEF ChunkSize
  <1>4. /\ \A i \in 0 .. imageSize - 1 : i >= offset + remaining => saved[i] = target[i]
        /\ AllErased(log, used, LogSize - used)
        /\ so = [ok |-> TRUE, used |-> used, image |-> Shown]
    BY DEF LogInv, TailSaved, RestErased, Read, WriteChunk
  <1>5. Shown = [i \in 0 .. imageSize - 1 |-> IF i < offset THEN target[i] ELSE saved[i]]
    BY DEF Shown, WriteChunk
  <1>6. Shown \in Image(imageSize)
    BY <1>1, <1>5 DEF Image
  <1>7. rec \in Seq(Byte)
    <2>1. CASE FixedFits(imageSize, offset, n)
      BY <2>1, <1>1, <1>3, FixedRecord
    <2>2. CASE ~FixedFits(imageSize, offset, n)
      BY <2>2, <1>1, <1>3, VariableRecord
    <2> QED BY <2>1, <2>2
  <1>8. Len(rec) \in Nat
    BY <1>7, LenProperties
  <1>9. CASE ~(count < MaxSaves /\ Len(rec) <= LogSize - used)
    <2>1. Rebuild
      BY <1>9 DEF WriteChunk
    <2> QED BY <2>1, RebuildKeepsLogInv
  <1>10. CASE count < MaxSaves /\ Len(rec) <= LogSize - used
    <2> DEFINE m == Overwrite(log, used, Len(rec), rec, 1)
    <2>1. /\ log' = m /\ count' = count + 1 /\ used' = used + Len(rec)
          /\ offset' = offset + n /\ remaining' = remaining - n
          /\ imageSize' = imageSize /\ base' = base /\ target' = target /\ saved' = saved
      BY <1>10 DEF WriteChunk
    <2> HIDE DEF rec, n
    <2>2. /\ m \in LogArea /\ Agree(log, m, used)
          /\ \A k \in 0 .. Len(rec) - 1 : m[used + k] = rec[1 + k]
          /\ AllErased(m, used + Len(rec), LogSize - (used + Len(rec)))
      BY <1>1, <1>4, <1>7, <1>10, LogWritten
    <2> HIDE DEF m, so
    <2>3. After(imageSize, base, m)[count - 1] = so
      <3>1. count - 1 \in 0 .. MaxSaves
        BY <1>1
      <3>2. so.ok /\ Agree(log, m, so.used)
        BY <1>4, <2>2
      <3> QED BY <3>1, <3>2, <1>1, <2>2, AfterIsLocal DEF so
    <2>4. PICK image \in Image(imageSize) :
             /\ ReplayRecord(imageSize, m, so)
                  = [ok |-> TRUE, used |-> so.used + Len(rec), image |-> image]
             /\ \A i \in offset .. offset + n - 1 : image[i] = target[i]
             /\ \A i \in 0 .. imageSize - 1 \ offset .. offset + n - 1 :
                   image[i] = so.image[i] \/ (i >= offset + n /\ image[i] = saved[i])
      <3>1. offset \in Nat /\ so.ok /\ so.used = used /\ so.image = Shown
        BY <1>1, <1>4
      <3>2. so.used \in 0 .. LogSize /\ so.image \in Image(imageSize)
            /\ Len(rec) <= LogSize - so.used
            /\ \A k \in 0 .. Len(rec) - 1 : m[so.used + k] = rec[1 + k]
        BY <3>1, <1>1, <1>6, <1>10, <2>2
      <3>3. rec = Encode(imageSize, saved, target, offset, n)
        BY DEF rec
      <3>4. RecordIsIn(imageSize, saved, target, offset, n, m, so, rec)
        BY <3>1, <3>2, <3>3, <1>1, <1>3, <2>2, RecordWritten
      <3> QED BY <3>4 DEF RecordIsIn
    <2>5. After(imageSize, base, m)[count]
            = [ok |-> TRUE, used |-> used + Len(rec), image |-> image]
      <3>1. count \in 1 .. MaxSaves
        BY <1>1
      <3>2. After(imageSize, base, m)[count]
              = ReplayRecord(imageSize, m, After(imageSize, base, m)[count - 1])
        BY <3>1, AfterIs
      <3> QED BY <3>2, <2>3, <2>4, <1>4
    <2>6. Shown' = image
      <3>1. Shown' = [i \in 0 .. imageSize - 1 |->
                        IF remaining - n = 0 \/ i < offset + n THEN target[i] ELSE saved[i]]
        BY <2>1 DEF Shown, Idle
      <3>2. ASSUME NEW i \in 0 .. imageSize - 1
            PROVE image[i] = IF remaining - n = 0 \/ i < offset + n THEN target[i] ELSE saved[i]
        <4>1. so.image[i] = IF i < offset THEN target[i] ELSE saved[i]
          BY <1>4, <1>5
        <4>2. CASE i < offset
          BY <4>1, <4>2, <2>4, <1>1, <1>3
        <4>3. CASE i \in offset .. offset + n - 1
          BY <4>3, <2>4, <1>1, <1>3
        <4>4. CASE i >= offset + n
          <5>1. image[i] = saved[i]
            BY <4>1, <4>4, <2>4, <1>1, <1>3
          <5>2. remaining - n = 0 => saved[i] = target[i]
            BY <4>4, <1>1, <1>3, <1>4
          <5> QED BY <5>1, <5>2, <4>4, <1>1, <1>3
        <4> QED BY <4>2, <4>3, <4>4, <1>1, <1>3
      <3>3. image = [i \in 0 .. imageSize - 1 |-> image[i]]
        BY DEF Image
      <3> QED BY <3>1, <3>2, <3>3
    <2>7. Read'
      <3>1. count' - 1 = count
        BY <2>1, <1>1
      <3> QED BY <3>1, <2>1, <2>5, <2>6 DEF Read
    <2>8. RestErased'
      BY <2>1, <2>2 DEF RestErased
    <2>9. TailSaved'
      <3>1. offset' + remaining' = offset + remaining
        BY <2>1, <1>1, <1>3
      <3> QED BY <3>1, <2>1, <1>4 DEF TailSaved
    <2>10. TypeOK'
      <3>1. /\ count' \in 1 .. MaxSaves /\ used' \in 0 .. LogSize
            /\ offset' \in 0 .. imageSize /\ remaining' \in 0 .. imageSize
            /\ offset' + remaining' <= imageSize
        BY <2>1, <1>1, <1>2, <1>3, <1>8, <1>10
      <3> QED BY <3>1, <2>1, <2>2, <1>1 DEF TypeOK, LogArea
    <2> QED BY <2>7, <2>8, <2>9, <2>10 DEF LogInv
  <1> QED BY <1>9, <1>10

THEOREM LogInvariant == Spec => []LogInv
  <1>1. LogInv /\ [Next]_vars => LogInv'
    <2> SUFFICES ASSUME LogInv, [Next]_vars PROVE LogInv'
      OBVIOUS
    <2>1. CASE WriteChunk
      BY <2>1, ChunkKeepsLogInv
    <2>2. ASSUME NEW image \in Images \cap Image(imageSize), Commit(image)
          PROVE LogInv'
      BY <2>2, CommitKeepsLogInv
    <2>3. CASE UNCHANGED vars
      BY <2>3 DEF vars, LogInv, TypeOK, Read, RestErased, TailSaved, Shown, Idle
    <2> QED BY <2>1, <2>2, <2>3 DEF Next
  <1> QED BY <1>1, LogInvInit, PTL DEF Spec

-----------------------------------------------------------------------------
(* The properties.                                                         *)

\* Types, and the bounds of the log area and of the chunk loop
\* (persistence_commit), for all sizes.
THEOREM LogTypeCorrect == Spec => []TypeOK
  BY LogInvariant, PTL DEF LogInv

\* What persistence_commit wrote is what persistence_restore reads back:
\* persistence_format_log_encode and _log_replay agree on every record.
THEOREM CommitReadsBack == Spec => []CommitIsReadBack
  <1>1. LogInv => CommitIsReadBack
    BY ReplayRead, ShownWhenIdle DEF CommitIsReadBack
  <1> QED BY <1>1, LogInvariant, PTL

\* Between two chunks the log holds the new image up to the loop's offset
\* and the saved one behind it.
THEOREM PaddingStaysBehind == Spec => []ChunksAdvance
  <1>1. LogInv => ChunksAdvance
    <2> SUFFICES ASSUME LogInv, ~Idle PROVE
            LET now == Replay(imageSize, base, log, count - 1) IN
            /\ now.ok /\ now.used = used
            /\ \A i \in DOMAIN target :
                  now.image[i] = IF i < offset THEN target[i] ELSE saved[i]
      BY DEF ChunksAdvance
    <2>1. Replay(imageSize, base, log, count - 1)
            = [ok |-> TRUE, used |-> used, image |-> Shown]
      BY ReplayRead
    <2>2. DOMAIN target = 0 .. imageSize - 1
      BY DEF LogInv, TypeOK, Image
    <2>3. \A i \in DOMAIN target : Shown[i] = IF i < offset THEN target[i] ELSE saved[i]
      BY <2>2 DEF Shown
    <2> QED BY <2>1, <2>3
  <1> QED BY <1>1, LogInvariant, PTL

\* A log is accepted with the number of records it was written with and no
\* other, whatever bytes the records hold.
THEOREM OnlyItsCountIsAccepted == Spec => []CountIdentifiesLog
  <1>1. LogInv => CountIdentifiesLog
    <2> SUFFICES ASSUME LogInv, NEW n \in 0 .. MaxSaves, n # count - 1
                 PROVE  ~Replay(imageSize, base, log, n).ok
      BY DEF CountIdentifiesLog
    <2> DEFINE A(i) == After(imageSize, base, log)[i]
    <2>1. /\ log \in LogArea /\ count \in 1 .. MaxSaves /\ MaxSaves \in Nat
          /\ used \in 0 .. LogSize /\ LogSize \in Nat
      BY LogConstants DEF LogInv, TypeOK, LogArea
    <2>2. A(count - 1).ok /\ A(count - 1).used = used /\ AllErased(log, used, LogSize - used)
      BY DEF LogInv, Read, RestErased
    <2>3. CASE n < count - 1
      <3>1. n + 1 \in 0 .. MaxSaves /\ n + 1 \in 1 .. MaxSaves /\ (n + 1) - 1 = n
            /\ count - 1 \in n + 1 .. MaxSaves
        BY <2>1, <2>3
      <3>2. A(n + 1).ok
        BY <2>1, <2>2, <3>1, FailureStays
      <3>3. ~AllErased(log, A(n).used, LogSize - A(n).used)
        BY <2>1, <3>1, <3>2, AfterOrder
      <3> QED BY <3>3 DEF Replay, Failed
    <2>4. CASE n > count - 1
      <3>1. count \in 1 .. MaxSaves /\ n \in count .. MaxSaves
        BY <2>1, <2>4
      <3>2. A(count) = ReplayRecord(imageSize, log, A(count - 1))
        BY <2>1, AfterIs
      <3>3. ReplayRecord(imageSize, log, A(count - 1)) = Failed
        BY <2>1, <2>2, ErasedEndsReplay
      <3>4. ~A(count).ok
        BY <3>2, <3>3 DEF Failed
      <3>5. ~A(n).ok
        BY <2>1, <3>1, <3>4, FailureStays
      <3> QED BY <3>5 DEF Replay, Failed
    <2> QED BY <2>1, <2>3, <2>4
  <1> QED BY <1>1, LogInvariant, PTL

-----------------------------------------------------------------------------
(* What a save does to the log that is there.                              *)

\* No record of the log is written over, however commits and rebuilds follow
\* each other: persistence_commit programs at log_used_size, which the replay
\* found, and nothing behind it is in use.
THEOREM RecordsAreNotOverwritten == Spec => RecordsGoOnErased
  <1> DEFINE Kept == \/ log' = Erased
                     \/ \A p \in Place : log'[p] # log[p] => p >= used /\ log[p] = FF
  <1>1. ASSUME LogInv, [Next]_vars PROVE [Kept]_vars
    <2>1. UNCHANGED log => Kept
      OBVIOUS
    <2>2. ASSUME NEW image, Commit(image) PROVE UNCHANGED log
      BY <2>2 DEF Commit
    <2>3. CASE WriteChunk
      <3> DEFINE rec == Encode(imageSize, saved, target, offset, ChunkSize)
      <3>1. CASE Rebuild
        BY <3>1 DEF Rebuild
      <3>2. CASE log' = Overwrite(log, used, Len(rec), rec, 1)
        <4>1. /\ DOMAIN log = Place /\ used \in Nat /\ used <= LogSize /\ LogSize \in Nat
              /\ \A i \in used .. used + (LogSize - used) - 1 : log[i] = FF
          BY <1>1, LogConstants DEF LogInv, TypeOK, RestErased, AllErased
        <4>2. \A p \in Place : log'[p] # log[p] => p \in used .. used + Len(rec) - 1
          BY <3>2, <4>1 DEF Overwrite
        <4>3. \A p \in Place : p \in used .. used + Len(rec) - 1 => p >= used /\ log[p] = FF
          BY <4>1 DEF Place
        <4> QED BY <4>2, <4>3
      <3> HIDE DEF rec
      <3> QED BY <2>3, <3>1, <3>2 DEF WriteChunk, rec
    <2> HIDE DEF Kept
    <2>4. CASE UNCHANGED vars
      BY <2>4
    <2> QED BY <1>1, <2>1, <2>2, <2>3, <2>4 DEF Next
  <1>2. LogInv /\ [Next]_vars => [Kept]_vars
    BY <1>1
  <1> QED BY <1>2, LogInvariant, PTL DEF Spec, RecordsGoOnErased

\* f and g differ in so few neighbouring bytes that one record holds them.
FitsOneRecord(f, g) ==
    \E at \in Nat : \A i \in Differences(f, g) : i \in at .. at + MaxData - 1

\* A commit of such an image leaves one chunk to write, and one chunk is one
\* record or a rebuild.
SmallSavesAreOneRecord ==
    [][/\ \A image \in Images \cap Image(imageSize) :
              Commit(image) /\ FitsOneRecord(target, image) => remaining' <= MaxData
       /\ WriteChunk /\ remaining <= MaxData =>
              Idle' /\ (count' = count + 1 \/ (count' = 1 /\ log' = Erased))]_vars

\* Changing one key, two bytes of the image, takes one record and one slot of
\* the progress or a rebuild, never half a change: persistence_commit.  This
\* is what the saves of module Persistence, a record each, rest on.
THEOREM OneKeyOneRecord == Spec => SmallSavesAreOneRecord
  <1> USE LogConstants
  <1>1. ASSUME LogInv, NEW image \in Images \cap Image(imageSize),
               Commit(image), FitsOneRecord(target, image)
        PROVE  remaining' <= MaxData
    <2> DEFINE D == Differences(target, image)
    <2>1. Replay(imageSize, base, log, count - 1).image = target
      BY <1>1, ReplayRead, ShownWhenIdle DEF Commit
    <2>2. remaining' = IF D = {} THEN 0 ELSE Last(D) - First(D) + 1
      BY <1>1, <2>1 DEF Commit
    <2>3. imageSize \in Nat /\ D \subseteq 0 .. imageSize - 1
      BY <1>1 DEF LogInv, TypeOK, Image, Differences
    <2>4. PICK at \in Nat : \A i \in D : i \in at .. at + MaxData - 1
      BY <1>1 DEF FitsOneRecord
    <2> HIDE DEF D
    <2>5. CASE D = {}
      BY <2>2, <2>5
    <2>6. CASE D # {}
      <3>1. First(D) \in D /\ Last(D) \in D
        BY <2>3, <2>6, FirstAndLast
      <3>2. First(D) \in at .. at + MaxData - 1 /\ Last(D) \in at .. at + MaxData - 1
        BY <2>4, <3>1
      <3> QED BY <2>2, <2>6, <3>2
    <2> QED BY <2>5, <2>6
  <1>2. ASSUME LogInv, WriteChunk, remaining <= MaxData
        PROVE  Idle' /\ (count' = count + 1 \/ (count' = 1 /\ log' = Erased))
    <2>1. remaining \in Nat
      BY <1>2 DEF LogInv, TypeOK
    <2>2. ChunkSize = remaining
      BY <1>2, <2>1 DEF ChunkSize
    <2>3. CASE Rebuild
      BY <2>3 DEF Rebuild, Idle
    <2>4. CASE count' = count + 1 /\ remaining' = remaining - ChunkSize
      BY <2>1, <2>2, <2>4 DEF Idle
    <2> QED BY <1>2, <2>3, <2>4 DEF WriteChunk
  <1> DEFINE Small ==
        /\ \A image \in Images \cap Image(imageSize) :
               Commit(image) /\ FitsOneRecord(target, image) => remaining' <= MaxData
        /\ WriteChunk /\ remaining <= MaxData =>
               Idle' /\ (count' = count + 1 \/ (count' = 1 /\ log' = Erased))
  <1>3. LogInv => Small
    BY <1>1, <1>2
  <1> HIDE DEF Small
  <1>4. LogInv => [Small]_vars
    BY <1>3
  <1>5. [][Small]_vars <=> SmallSavesAreOneRecord
    BY DEF Small, SmallSavesAreOneRecord
  <1> QED BY <1>4, <1>5, LogInvariant, PTL
=============================================================================
