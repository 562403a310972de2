------------------------------ MODULE HidProofs ------------------------------
(* Proofs about HidReports, for every matrix, keymap, build, trackpad and  *)
(* configuration of the mouse keys.                                        *)
EXTENDS HidReports, SequenceTheorems, TLAPS

-----------------------------------------------------------------------------
(* What the arithmetic of Pointing guarantees, whatever widths, thresholds *)
(* and speeds a build has.                                                 *)

\* A conversion to a narrower integer lands in its range.
LEMMA WrappedInRange ==
    ASSUME NEW half \in Nat \ {0}, NEW v \in Int
    PROVE  Wrapped(v, half) \in -half .. half - 1
  <1>1. (v + half) % (2 * half) \in 0 .. 2 * half - 1
    <2>1. 2 * half \in Int /\ 2 * half > 0
      OBVIOUS
    <2> QED BY <2>1
  <1> QED BY <1>1 DEF Wrapped

\* What fits is converted to itself.
LEMMA WrappedExact ==
    ASSUME NEW half \in Nat \ {0}, NEW v \in -half .. half - 1
    PROVE  Wrapped(v, half) = v
  <1>1. v + half \in 0 .. 2 * half - 1
    OBVIOUS
  <1>2. (v + half) % (2 * half) = v + half
    BY <1>1
  <1> QED BY <1>2 DEF Wrapped

\* hid_mouse_to_report_and_consume leaves less than a threshold, on the same
\* side of zero: a report never takes out more than was moved, and nothing
\* that is due stays behind.
THEOREM QuotientRest ==
    ASSUME NEW v \in Int, NEW n \in Nat \ {0}
    PROVE  /\ Quotient(v, n) \in Int
           /\ ~Reached(v - n * Quotient(v, n), n)
           /\ v >= 0 => v - n * Quotient(v, n) \in 0 .. v
           /\ v <= 0 => v - n * Quotient(v, n) \in v .. 0
  <1>1. ASSUME NEW u \in Nat
        PROVE  /\ u \div n \in Nat
               /\ u - n * (u \div n) \in 0 .. n - 1
               /\ n * (u \div n) >= 0
    OBVIOUS
  <1>2. CASE v >= 0
    BY <1>1, <1>2 DEF Quotient, Reached
  <1>3. CASE v < 0
    BY <1>1, <1>3 DEF Quotient, Reached
  <1> QED BY <1>2, <1>3

\* The speed table holds 7-bit values.
LEMMA SpeedInRange ==
    ASSUME NEW i \in 0 .. Narrow
    PROVE  Speed(i) \in 0 .. Narrow - 1
  BY PointingAssumption DEF Speed

LEMMA SpedInRange ==
    ASSUME NEW v \in Byte
    PROVE  /\ Sped(v) \in Byte
           /\ v > 0 => Sped(v) >= 0
           /\ v < 0 => Sped(v) <= 0
  <1>1. CASE v < 0
    <2>1. -v \in 0 .. Narrow
      BY <1>1, PointingAssumption DEF Byte
    <2>2. Speed(-v) \in 0 .. Narrow - 1
      BY <2>1, SpeedInRange
    <2> QED BY <1>1, <2>2, PointingAssumption DEF Sped, Byte
  <1>2. CASE v >= 0
    <2>1. v \in 0 .. Narrow
      BY <1>2, PointingAssumption DEF Byte
    <2>2. Speed(v) \in 0 .. Narrow - 1
      BY <2>1, SpeedInRange
    <2> QED BY <1>2, <2>2, PointingAssumption DEF Sped, Byte
  <1> QED BY <1>1, <1>2, PointingAssumption DEF Byte

\* A scaled packet still fits the int8_t parameters of event_accumulate_mouse.
LEMMA DecodedInRange ==
    ASSUME NEW packet, packet.x \in Byte, packet.y \in Byte, packet.w \in Byte
    PROVE  Decoded(packet) \in [Axes -> Byte]
  <1>1. \A v \in Int : Int8(v) \in Byte
    BY PointingAssumption, WrappedInRange DEF Int8, Byte
  <1> DEFINE dx == packet.x
             dy == Int8(-packet.y)
  <1>2. \A v \in Byte : v \in Int /\ -v \in Int
    BY PointingAssumption DEF Byte
  <1>3. {dx, dy, Int8(-dx), Int8(-dy)} \subseteq Byte
    BY <1>1, <1>2
  <1>4. \A v \in {dx, dy, Int8(-dx), Int8(-dy)} : Sped(v) \in Byte
    BY <1>3, SpedInRange
  <1> QED BY <1>3, <1>4, PointingAssumption DEF Decoded, Axes

\* A scaled movement points where the finger did.
LEMMA SpedPointsAlong ==
    ASSUME NEW v \in Byte, v # 0, Narrow > 1
    PROVE  /\ v > 0 => Sped(v) > 0
           /\ v < 0 => Sped(v) < 0
  <1>1. \A i \in 1 .. Narrow : Speed(i) \in 1 .. Narrow - 1
    BY PointingAssumption DEF Speed
  <1>2. v > 0 => v \in 1 .. Narrow
    BY PointingAssumption DEF Byte
  <1>3. v < 0 => -v \in 1 .. Narrow
    BY PointingAssumption DEF Byte
  <1>4. CASE v > 0
    <2>1. Speed(v) \in 1 .. Narrow - 1 /\ v \in Int
      BY <1>1, <1>2, <1>4
    <2> QED BY <1>4, <2>1 DEF Sped
  <1>5. CASE v < 0
    <2>1. Speed(-v) \in 1 .. Narrow - 1 /\ v \in Int /\ Narrow \in Int
      BY <1>1, <1>3, <1>5, PointingAssumption DEF Byte
    <2> QED BY <1>5, <2>1 DEF Sped
  <1> QED BY <1>4, <1>5, PointingAssumption DEF Byte

\* The two axes of a movement, the second turned over, as a quarter turn after
\* the other leaves them: without widths.
Turned(x, y) ==
    CASE Rotation = 0 -> <<x, -y>> [] Rotation = 90 -> <<y, x>>
      [] Rotation = 180 -> <<-x, y>> [] Rotation = 270 -> <<-y, -x>>

\* pinnacle_read_data turns every packet as its rotation says, and scales it
\* without turning it back, but one that holds -128 in a byte: that has no
\* negative in eight bits and keeps its sign.
THEOREM PacketsAreTurned ==
    /\ \A packet \in [x : Byte \ {-Narrow}, y : Byte \ {-Narrow}, w : Byte, buttons : SUBSET Nat] :
          LET turned == Turned(packet.x, packet.y)
          IN  /\ Decoded(packet)["x"] = Sped(turned[1])
              /\ Decoded(packet)["y"] = Sped(turned[2])
              /\ {turned[1], turned[2]} \subseteq Byte
    /\ Narrow > 1 => \A v \in Byte \ {0} : (v > 0 <=> Sped(v) > 0) /\ (v < 0 <=> Sped(v) < 0)
    /\ Int8(-(-Narrow)) = -Narrow
  <1>1. ASSUME NEW v \in Byte \ {-Narrow}
        PROVE  -v \in Byte \ {-Narrow} /\ Int8(-v) = -v /\ -(-v) = v
    <2>1. v \in Int /\ -v \in -Narrow .. Narrow - 1 /\ -v # -Narrow
      BY PointingAssumption DEF Byte
    <2> QED BY <2>1, WrappedExact, PointingAssumption DEF Int8, Byte
  <1>2. ASSUME NEW packet \in [x : Byte \ {-Narrow}, y : Byte \ {-Narrow}, w : Byte,
                               buttons : SUBSET Nat]
        PROVE  LET turned == Turned(packet.x, packet.y)
               IN  /\ Decoded(packet)["x"] = Sped(turned[1])
                   /\ Decoded(packet)["y"] = Sped(turned[2])
                   /\ {turned[1], turned[2]} \subseteq Byte
    <2> DEFINE x == packet.x
               y == packet.y
    <2>1. x \in Byte \ {-Narrow} /\ y \in Byte \ {-Narrow}
      OBVIOUS
    <2>2. Int8(-x) = -x /\ Int8(-y) = -y /\ Int8(-(-y)) = y /\ {-x, -y} \subseteq Byte
      <3>1. -y \in Byte \ {-Narrow}
        BY <2>1, <1>1
      <3> QED BY <3>1, <2>1, <1>1
    <2>3. /\ Decoded(packet)["x"] = Sped(Turned(x, y)[1])
          /\ Decoded(packet)["y"] = Sped(Turned(x, y)[2])
          /\ {Turned(x, y)[1], Turned(x, y)[2]} \subseteq Byte
      <3>1. CASE Rotation = 0
        BY <3>1, <2>1, <2>2 DEF Decoded, Turned, Axes
      <3>2. CASE Rotation = 90
        BY <3>2, <2>1, <2>2 DEF Decoded, Turned, Axes
      <3>3. CASE Rotation = 180
        BY <3>3, <2>1, <2>2 DEF Decoded, Turned, Axes
      <3>4. CASE Rotation = 270
        BY <3>4, <2>1, <2>2 DEF Decoded, Turned, Axes
      <3> QED BY <3>1, <3>2, <3>3, <3>4, PointingAssumption
    <2> QED BY <2>3
  <1>3. Narrow > 1 => \A v \in Byte \ {0} : (v > 0 <=> Sped(v) > 0) /\ (v < 0 <=> Sped(v) < 0)
    <2> SUFFICES ASSUME Narrow > 1, NEW v \in Byte \ {0}
                 PROVE  (v > 0 <=> Sped(v) > 0) /\ (v < 0 <=> Sped(v) < 0)
      OBVIOUS
    <2>1. Sped(v) \in Int /\ v \in Int
      BY SpedInRange, PointingAssumption DEF Byte
    <2>2. (v > 0 => Sped(v) > 0) /\ (v < 0 => Sped(v) < 0)
      BY SpedPointsAlong
    <2> QED BY <2>1, <2>2
  <1>4. Int8(-(-Narrow)) = -Narrow
    <2>1. Narrow \in Int /\ Narrow > 0 /\ -(-Narrow) = Narrow
      BY PointingAssumption
    <2>2. (Narrow + Narrow) % (2 * Narrow) = 0
      BY <2>1
    <2> QED BY <2>1, <2>2 DEF Int8, Wrapped
  <1> QED BY <1>2, <1>3, <1>4

-----------------------------------------------------------------------------
(* Movement.                                                               *)

\* The types movement is computed in.
MotionTypes ==
    /\ delta \in [Devices -> [Axes -> Word]]
    /\ sample \in {{}} \cup {{p} : p \in Packets}
    /\ owed \in Motions
    /\ exact \in BOOLEAN

MotionInv == MotionTypes /\ MotionKept

LEMMA MotionOperators ==
    /\ \A a \in Axes : Threshold(a) \in 1 .. Wide - 1
    /\ NoMotion \in Motions
    /\ Asked \in Motions /\ KeyMotion \in Motions
    /\ \A p \in Packets : Decoded(p) \in Motions
    /\ \A v \in Int : Int16(v) \in Word
  <1>1. \A a \in Axes : Threshold(a) \in 1 .. Wide - 1
    BY MouseAssumption DEF Threshold
  <1>2. NoMotion \in Motions
    BY DEF NoMotion, Motions
  <1>3. Asked \in Motions
    BY MouseAssumption DEF Asked, Motions, Word, Axes
  <1>4. KeyMotion \in Motions
    BY <1>3, PointingAssumption, WrappedInRange DEF KeyMotion, Motions, Int8
  <1>5. ASSUME NEW p \in Packets PROVE Decoded(p) \in Motions
    <2>1. p.x \in Byte /\ p.y \in Byte /\ p.w \in Byte
      BY MouseAssumption
    <2> QED BY <2>1, DecodedInRange DEF Motions, Byte
  <1>6. \A v \in Int : Int16(v) \in Word
    BY PointingAssumption, WrappedInRange DEF Int16, Word
  <1> QED BY <1>1, <1>2, <1>3, <1>4, <1>5, <1>6

\* An action that leaves movement alone keeps the invariant.
LEMMA MotionUnchanged ==
    ASSUME MotionInv, UNCHANGED <<delta, owed, exact, sample>>
    PROVE  MotionInv'
  BY DEF MotionInv, MotionTypes, MotionKept

\* A report takes out as many thresholds as it says, or is no longer exact.
LEMMA ConsumeKeepsMotion ==
    ASSUME MotionInv, ConsumeMotion, UNCHANGED sample
    PROVE  MotionInv'
  <1> USE DEF MotionInv
  <1>1. \A d \in Devices, a \in Axes :
           /\ delta[d][a] \in Word
           /\ Steps(d)[a] \in Int
           /\ Rest(d)[a] \in Word
           /\ Rest(d)[a] = delta[d][a] - Steps(d)[a] * Threshold(a)
    <2> SUFFICES ASSUME NEW d \in Devices, NEW a \in Axes
                 PROVE  /\ delta[d][a] \in Word
                        /\ Steps(d)[a] \in Int
                        /\ Rest(d)[a] \in Word
                        /\ Rest(d)[a] = delta[d][a] - Steps(d)[a] * Threshold(a)
      OBVIOUS
    <2> DEFINE v == delta[d][a]
               n == Threshold(a)
    <2>0. v \in Word
      BY DEF MotionTypes
    <2>1. v \in Word /\ v \in Int /\ n \in Nat \ {0}
      <3>1. n \in 1 .. Wide - 1
        BY MotionOperators
      <3> HIDE DEF n, v
      <3> QED BY <2>0, <3>1, PointingAssumption DEF Word
    <2>2. Steps(d)[a] = Quotient(v, n) /\ Rest(d)[a] = v - Steps(d)[a] * n
      BY DEF Steps, Rest
    <2>3. /\ Quotient(v, n) \in Int
          /\ v >= 0 => v - n * Quotient(v, n) \in 0 .. v
          /\ v <= 0 => v - n * Quotient(v, n) \in v .. 0
      BY <2>1, QuotientRest
    <2>4. Quotient(v, n) * n = n * Quotient(v, n)
      BY <2>1, <2>3
    <2>5. v - n * Quotient(v, n) \in Word
      BY <2>1, <2>3, PointingAssumption DEF Word
    <2> QED BY <2>1, <2>2, <2>3, <2>4, <2>5
  <1>2. \A a \in Axes : Moved[a] \in Int
    <2>1. \A a \in Axes : Int16(Steps("keys")[a] + Steps("pad")[a]) \in Int
      BY <1>1, MotionOperators DEF Devices, Word
    <2> QED BY <2>1, PointingAssumption DEF Moved, Clamped
  <1>3. delta' \in [Devices -> [Axes -> Word]]
    BY <1>1 DEF ConsumeMotion, Rest
  <1>4. owed' \in Motions /\ exact' \in BOOLEAN
    BY <1>2, MotionOperators DEF ConsumeMotion, Account, Motions, MotionTypes
  <1>5. MotionTypes'
    BY <1>3, <1>4 DEF MotionTypes
  <1>6. ASSUME exact', NEW a \in Axes
        PROVE  owed'[a] = delta'["keys"][a] + delta'["pad"][a] + (owed[a] - delta["keys"][a] - delta["pad"][a])
    <2> DEFINE t == Threshold(a)
               k == Steps("keys")[a]
               p == Steps("pad")[a]
    <2>1. t \in Int /\ k \in Int /\ p \in Int
      BY <1>1, MotionOperators DEF Devices
    <2>2. Moved[a] = k + p /\ owed'[a] = owed[a] + 0 - t * Moved[a]
      BY <1>6 DEF ConsumeMotion, Account, NoMotion
    <2>3. t * (k + p) = k * t + p * t
      BY <2>1
    <2>4. /\ delta'["keys"][a] = delta["keys"][a] - k * t
          /\ delta'["pad"][a] = delta["pad"][a] - p * t
      BY <1>1 DEF ConsumeMotion, Devices
    <2>5. owed[a] \in Int /\ delta["keys"][a] \in Int /\ delta["pad"][a] \in Int
      BY <1>1 DEF MotionTypes, Motions, Devices, Word
    <2>6. k * t \in Int /\ p * t \in Int
      BY <2>1
    <2> QED BY <2>2, <2>3, <2>4, <2>5, <2>6
  <1>7. exact' => exact
    BY DEF ConsumeMotion, Account
  <1>8. \A a \in Axes :
           /\ owed[a] \in Int /\ delta["keys"][a] \in Int /\ delta["pad"][a] \in Int
           /\ delta'["keys"][a] \in Int /\ delta'["pad"][a] \in Int
           /\ owed'[a] \in Int
           /\ sample # {} => Decoded(CHOOSE p \in sample : TRUE)[a] \in Int
    BY <1>1, <1>5, MotionOperators DEF MotionTypes, Motions, Devices, Word
  <1>9. MotionKept'
    BY <1>6, <1>7, <1>8 DEF MotionKept
  <1> QED BY <1>5, <1>9

\* Keys change no movement; the mouse keys only set the flags of the next tick.
LEMMA ProcessKeepsMotion ==
    ASSUME MotionInv, NEW c, NEW pressed, Process(c, pressed)
    PROVE  MotionInv'
  <1>1. UNCHANGED <<delta, owed, exact, sample>>
    BY DEF Process, KeyboardKey, ModifierKey, ConsumerKey, ButtonKey, MoveKey, hid, mouse
  <1> QED BY <1>1, MotionUnchanged

LEMMA TakeKeepsMotion ==
    ASSUME MotionInv, NEW kinds, Take(kinds)
    PROVE  MotionInv'
  <1>1. CASE "mouse" \in kinds
    BY <1>1, ConsumeKeepsMotion DEF Take
  <1>2. CASE "mouse" \notin kinds
    <2>1. UNCHANGED <<delta, owed, exact, sample>>
      BY <1>2 DEF Take
    <2> QED BY <2>1, MotionUnchanged
  <1> QED BY <1>1, <1>2

LEMMA SendNextKeepsMotion ==
    ASSUME MotionInv, SendNext
    PROVE  MotionInv'
  <1>1. CASE HasEvent /\ Pop
    BY <1>1, TakeKeepsMotion DEF Pop
  <1>2. CASE UNCHANGED hid
    <2>1. UNCHANGED <<delta, owed, exact, sample>>
      BY <1>2 DEF hid, mouse
    <2> QED BY <2>1, MotionUnchanged
  <1> QED BY <1>1, <1>2 DEF SendNext

\* Adding a motion to one device, in 16 bits.
LEMMA AccumulatedTypes ==
    ASSUME MotionTypes, NEW d \in Devices, NEW motion \in Motions
    PROVE  /\ Accumulated(d, motion) \in [Devices -> [Axes -> Word]]
           /\ \A e \in Devices \ {d} : Accumulated(d, motion)[e] = delta[e]
  <1>1. \A a \in Axes : delta[d][a] + motion[a] \in Int
    BY DEF MotionTypes, Motions, Word
  <1>2. \A a \in Axes : Int16(delta[d][a] + motion[a]) \in Word
    BY <1>1, MotionOperators
  <1> QED BY <1>2 DEF Accumulated, MotionTypes

\* The repetition of the mouse keys: what is asked for is counted, or wraps.
LEMMA DecideKeepsMotion ==
    ASSUME MotionInv, Decide
    PROVE  MotionInv'
  <1>1. /\ delta' = Accumulated("keys", KeyMotion)
        /\ Account(Asked, NoMotion, \A a \in Axes : delta'["keys"][a] = delta["keys"][a] + Asked[a])
        /\ sample' = sample
    BY DEF Decide
  <1>2. /\ delta' \in [Devices -> [Axes -> Word]]
        /\ delta'["pad"] = delta["pad"]
    BY <1>1, AccumulatedTypes, MotionOperators DEF MotionInv, Devices
  <1>3. \A a \in Axes : Threshold(a) * NoMotion[a] = 0
    BY MotionOperators DEF NoMotion
  <1>4. \A a \in Axes : Asked[a] \in Int /\ owed[a] \in Int
    BY MotionOperators DEF MotionInv, MotionTypes, Motions
  <1>5. exact' => \A a \in Axes : owed'[a] = owed[a] + Asked[a]
    BY <1>1, <1>3, <1>4 DEF Account
  <1>6. owed' \in Motions /\ exact' \in BOOLEAN
    BY <1>1, <1>3, <1>4, MotionOperators DEF Account, Motions, MotionInv, MotionTypes
  <1>7. MotionTypes'
    BY <1>1, <1>2, <1>6 DEF MotionInv, MotionTypes
  <1>8. \A a \in Axes : delta["keys"][a] \in Int /\ delta["pad"][a] \in Int
    BY DEF MotionInv, MotionTypes, Devices, Word
  <1>9. sample # {} => \A a \in Axes : Decoded(CHOOSE p \in sample : TRUE)[a] \in Int
    BY MotionOperators DEF MotionInv, MotionTypes, Motions
  <1> DEFINE latched(a) == IF sample = {} THEN 0 ELSE Decoded(CHOOSE p \in sample : TRUE)[a]
  <1>10. exact => \A a \in Axes : owed[a] = delta["keys"][a] + delta["pad"][a] + latched(a)
    BY DEF MotionInv, MotionKept
  <1>11. \A a \in Axes : latched(a) \in Int
    BY <1>9
  <1> HIDE DEF latched
  <1>12. exact' => exact /\ \A a \in Axes : delta'["keys"][a] = delta["keys"][a] + Asked[a]
    BY <1>1 DEF Account
  <1>13. ASSUME exact', NEW a \in Axes
         PROVE  owed'[a] = delta'["keys"][a] + delta'["pad"][a] + latched(a)
    BY <1>2, <1>4, <1>5, <1>8, <1>10, <1>11, <1>12, <1>13
  <1>14. MotionKept'
    BY <1>1, <1>13 DEF MotionKept, latched
  <1> QED BY <1>7, <1>14 DEF MotionInv

LEMMA TouchKeepsMotion ==
    ASSUME MotionInv, NEW p \in Packets, TouchArrives(p)
    PROVE  MotionInv'
  <1>1. /\ sample = {} /\ sample' = {p} /\ UNCHANGED delta
        /\ Account(Decoded(p), NoMotion, TRUE)
    BY DEF TouchArrives
  <1>2. \A a \in Axes : Threshold(a) * NoMotion[a] = 0
    BY MotionOperators DEF NoMotion
  <1>3. \A a \in Axes : Decoded(p)[a] \in Int /\ owed[a] \in Int
    BY MotionOperators DEF MotionInv, MotionTypes, Motions
  <1>4. exact' => \A a \in Axes : owed'[a] = owed[a] + Decoded(p)[a]
    BY <1>1, <1>2, <1>3 DEF Account
  <1>5. owed' \in Motions /\ exact' \in BOOLEAN
    BY <1>1, <1>2, <1>3, MotionOperators DEF Account, Motions, MotionInv, MotionTypes
  <1>6. MotionTypes'
    BY <1>1, <1>5 DEF MotionInv, MotionTypes
  <1>7. \A a \in Axes : delta["keys"][a] \in Int /\ delta["pad"][a] \in Int
    BY DEF MotionInv, MotionTypes, Devices, Word
  <1>8. (CHOOSE q \in {p} : TRUE) = p
    OBVIOUS
  <1>9. ASSUME exact', NEW a \in Axes
        PROVE  owed'[a] = delta["keys"][a] + delta["pad"][a] + Decoded(p)[a]
    <2>1. exact
      BY <1>1, <1>9 DEF Account
    <2>2. owed[a] = delta["keys"][a] + delta["pad"][a] + 0
      BY <1>1, <2>1 DEF MotionInv, MotionKept
    <2> QED BY <1>4, <1>7, <1>9, <2>2
  <1>10. MotionKept'
    BY <1>1, <1>8, <1>9 DEF MotionKept
  <1> QED BY <1>6, <1>10 DEF MotionInv

\* A read packet moves from the chip to the counter; one that was lost, or
\* that wraps the counter, ends exactness; one still held is read again.
LEMMA TrackpadKeepsMotion ==
    ASSUME MotionInv, TrackpadEvents
    PROVE  MotionInv'
  <1> DEFINE p == CHOOSE q \in sample : TRUE
  <1>1. sample = {p} /\ p \in Packets
    BY DEF TrackpadEvents, MotionInv, MotionTypes
  <1>2. \A a \in Axes : owed[a] + NoMotion[a] - Threshold(a) * NoMotion[a] = owed[a]
    BY MotionOperators DEF NoMotion, MotionInv, MotionTypes, Motions
  <1>3. \A a \in Axes :
           /\ Decoded(p)[a] \in Int /\ owed[a] \in Int
           /\ delta["keys"][a] \in Int /\ delta["pad"][a] \in Int
    <2>1. Decoded(p) \in Motions
      BY <1>1, MotionOperators
    <2> HIDE DEF p
    <2> QED BY <2>1 DEF MotionInv, MotionTypes, Motions, Devices, Word
  <1>4. exact => \A a \in Axes :
           owed[a] = delta["keys"][a] + delta["pad"][a] + Decoded(p)[a]
    BY <1>1 DEF MotionInv, MotionKept
  <1> HIDE DEF p
  <1>5. CASE ReadTrackpad
    <2>1. /\ sample' = {}
          /\ delta' = Accumulated("pad", Decoded(p))
          /\ Account(NoMotion, NoMotion,
                     \A a \in Axes : delta'["pad"][a] = delta["pad"][a] + Decoded(p)[a])
      BY <1>1, <1>5 DEF ReadTrackpad, TakeSample
    <2>2. /\ delta' \in [Devices -> [Axes -> Word]]
          /\ delta'["keys"] = delta["keys"]
      BY <2>1, <1>1, AccumulatedTypes, MotionOperators DEF MotionInv, Devices
    <2>3. exact' => exact /\ \A a \in Axes : owed'[a] = owed[a]
      BY <2>1, <1>2 DEF Account
    <2>4. owed' \in Motions /\ exact' \in BOOLEAN
      BY <2>1, <1>2, <1>3, MotionOperators DEF Account, Motions, MotionInv, MotionTypes
    <2>5. MotionTypes'
      BY <2>1, <2>2, <2>4 DEF MotionTypes
    <2>6. exact' => \A a \in Axes : delta'["pad"][a] = delta["pad"][a] + Decoded(p)[a]
      BY <2>1 DEF Account
    <2>7. \A a \in Axes : delta'["pad"][a] \in Int
      BY <2>2 DEF Devices, Word
    <2>8. ASSUME exact', NEW a \in Axes
          PROVE  owed'[a] = delta'["keys"][a] + delta'["pad"][a] + 0
      BY <1>3, <1>4, <2>2, <2>3, <2>6, <2>7, <2>8
    <2>9. MotionKept'
      BY <2>1, <2>8 DEF MotionKept
    <2> QED BY <2>5, <2>9 DEF MotionInv
  <1>6. CASE TrackpadFails
    <2>1. /\ sample' \in {{}, sample} /\ UNCHANGED delta
          /\ Account(NoMotion, NoMotion, sample' = sample)
      BY <1>6 DEF TrackpadFails
    <2>2. exact' => exact /\ sample' = sample /\ \A a \in Axes : owed'[a] = owed[a]
      BY <2>1, <1>2 DEF Account
    <2>3. owed' \in Motions /\ exact' \in BOOLEAN
      BY <2>1, <1>2, <1>3, MotionOperators DEF Account, Motions, MotionInv, MotionTypes
    <2>4. MotionTypes'
      BY <2>1, <2>3 DEF MotionInv, MotionTypes
    <2>5. MotionKept'
      BY <2>1, <2>2 DEF MotionInv, MotionKept
    <2> QED BY <2>4, <2>5 DEF MotionInv
  <1> QED BY <1>5, <1>6 DEF TrackpadEvents

LEMMA MotionNext == MotionInv /\ [Next]_vars => MotionInv'
  <1> SUFFICES ASSUME MotionInv, [Next]_vars PROVE MotionInv'
    OBVIOUS
  <1> USE DEF hid, mouse
  <1>1. CASE TickStart
    BY <1>1, MotionUnchanged DEF TickStart
  <1>2. ASSUME NEW k \in Keys, PressKey(k) \/ ReleaseKey(k) PROVE MotionInv'
    BY <1>2, ProcessKeepsMotion DEF PressKey, ReleaseKey
  <1>3. CASE Decide
    BY <1>3, DecideKeepsMotion
  <1>4. CASE TickEnd
    <2>1. CASE UNCHANGED hid
      BY <2>1, MotionUnchanged
    <2>2. CASE SendNext
      BY <2>2, SendNextKeepsMotion
    <2> QED BY <1>4, <2>1, <2>2 DEF TickEnd, SendUsb
  <1>5. ASSUME NEW k \in Keys, NEW c \in Codes, Remap(k, c) PROVE MotionInv'
    BY <1>5, MotionUnchanged DEF Remap
  <1>6. CASE UsbComplete
    <2>1. CASE UNCHANGED hid
      BY <2>1, MotionUnchanged
    <2>2. CASE SendNext
      BY <2>2, SendNextKeepsMotion
    <2> QED BY <1>6, <2>1, <2>2 DEF UsbComplete
  <1>7. CASE UsbMount
    BY <1>7, MotionUnchanged DEF UsbMount
  <1>8. CASE BleConnect \/ BleDisconnect
    BY <1>8, MotionUnchanged DEF BleConnect, BleDisconnect
  <1>9. CASE BleCanSend
    BY <1>9, TakeKeepsMotion DEF BleCanSend
  <1>10. CASE TrackpadEvents
    BY <1>10, TrackpadKeepsMotion
  <1>11. ASSUME NEW p \in Packets, TouchArrives(p) PROVE MotionInv'
    BY <1>11, TouchKeepsMotion
  <1>12. CASE UNCHANGED vars
    BY <1>12, MotionUnchanged DEF vars
  <1> QED BY <1>1, <1>2, <1>3, <1>4, <1>5, <1>6, <1>7, <1>8, <1>9, <1>10, <1>11, <1>12 DEF Next

LEMMA MotionInit == Init => MotionInv
  <1>1. \A a \in Axes : NoMotion[a] = 0
    BY DEF NoMotion
  <1>2. 0 \in Word
    BY PointingAssumption DEF Word
  <1>3. NoMotion \in [Axes -> Word] /\ NoMotion \in Motions
    BY <1>2 DEF NoMotion, Motions
  <1> QED BY <1>1, <1>3 DEF Init, MotionInv, MotionTypes, MotionKept, Devices

\* No movement is lost or made twice (MotionKept), whatever the widths, the
\* thresholds and the scaling of the trackpad.
THEOREM MovementIsKept == Spec => []MotionKept
  <1>1. MotionInv => MotionKept
    BY DEF MotionInv
  <1> QED BY <1>1, MotionInit, MotionNext, PTL DEF Spec

-----------------------------------------------------------------------------
(* Changes are reported.                                                   *)

ReportedInv ==
    /\ pending \in [Kinds -> BOOLEAN]
    /\ NothingForgotten

\* What a report shows.
shown == <<real, virtual, slots, consumer, buttons>>

LEMMA ReportUnchanged ==
    ASSUME ReportedInv, UNCHANGED <<shown, sent, pending>>
    PROVE  ReportedInv'
  BY DEF ReportedInv, NothingForgotten, Report, shown

\* A kind keeps its promise if its flag was set or its part did not change.
LEMMA KindReported ==
    ASSUME ReportedInv, UNCHANGED sent, NEW kind \in Kinds, ~pending'[kind],
           ~pending[kind], Report(kind)' = Report(kind)
    PROVE  sent'[kind] = Report(kind)'
  BY DEF ReportedInv, NothingForgotten

\* Every handler of a key flags the kind whose report it changes.
LEMMA ProcessReports ==
    ASSUME ReportedInv, UNCHANGED sent, NEW c, NEW pressed, Process(c, pressed)
    PROVE  ReportedInv'
  <1> USE DEF ReportedInv, Kinds
  <1> SUFFICES /\ pending' \in [Kinds -> BOOLEAN]
               /\ \A kind \in Kinds : ~pending'[kind] =>
                     ~pending[kind] /\ Report(kind)' = Report(kind)
    BY KindReported DEF NothingForgotten
  <1>1. CASE KeyboardKey(c, pressed)
    <2>1. /\ pending' = [pending EXCEPT !["keyboard"] =
                            @ \/ virtual' # virtual \/ slots' # slots]
          /\ UNCHANGED <<real, consumer, buttons>>
      BY <1>1 DEF KeyboardKey, mouse
    <2>2. ~pending'["keyboard"] => ~pending["keyboard"] /\ virtual' = virtual /\ slots' = slots
      BY <2>1
    <2> QED BY <2>1, <2>2 DEF Report
  <1>2. CASE ModifierKey(c, pressed)
    <2>1. /\ pending' = [pending EXCEPT !["keyboard"] =
                            @ \/ real \cup virtual # real' \cup virtual]
          /\ UNCHANGED <<virtual, slots, consumer, buttons>>
      BY <1>2 DEF ModifierKey, mouse
    <2>2. ~pending'["keyboard"] =>
             ~pending["keyboard"] /\ real' \cup virtual' = real \cup virtual
      BY <2>1
    <2> QED BY <2>1, <2>2 DEF Report
  <1>3. CASE ConsumerKey(c, pressed)
    <2>1. /\ pending' = [pending EXCEPT !["consumer"] = @ \/ consumer' # consumer]
          /\ UNCHANGED <<real, virtual, slots, buttons>>
      BY <1>3 DEF ConsumerKey, mouse
    <2> QED BY <2>1 DEF Report
  <1>4. CASE ButtonKey(c, pressed)
    <2>1. /\ pending' = [pending EXCEPT !["mouse"] = @ \/ buttons' # buttons]
          /\ UNCHANGED <<real, virtual, slots, consumer>>
      BY <1>4 DEF ButtonKey
    <2> QED BY <2>1 DEF Report
  <1>5. CASE MoveKey(c, pressed) \/ UNCHANGED hid
    <2>1. UNCHANGED <<shown, pending>>
      BY <1>5 DEF MoveKey, hid, mouse, shown
    <2> QED BY <2>1 DEF Report, shown
  <1> QED BY <1>1, <1>2, <1>3, <1>4, <1>5 DEF Process

\* A report taken out is the state of the moment.
LEMMA TakeReports ==
    ASSUME ReportedInv, NEW kinds, Take(kinds)
    PROVE  ReportedInv'
  <1>1. pending' \in [Kinds -> BOOLEAN]
    BY DEF Take, ReportedInv
  <1>2. \A kind \in Kinds : Report(kind)' = Report(kind)
    BY DEF Take, Report
  <1>3. \A kind \in Kinds : sent'[kind] = IF kind \in kinds THEN Report(kind) ELSE sent[kind]
    BY DEF Take
  <1>4. \A kind \in Kinds : ~pending'[kind] => kind \in kinds \/ ~pending[kind]
    BY DEF Take
  <1> QED BY <1>1, <1>2, <1>3, <1>4 DEF ReportedInv, NothingForgotten

LEMMA SendNextReports ==
    ASSUME ReportedInv, SendNext
    PROVE  ReportedInv'
  <1>1. CASE HasEvent /\ Pop
    BY <1>1, TakeReports DEF Pop
  <1>2. CASE UNCHANGED <<hid, sent>>
    BY <1>2, ReportUnchanged DEF hid, mouse, shown
  <1> QED BY <1>1, <1>2 DEF SendNext

\* Only the movement, whose flag may be raised.
LEMMA FlagRaised ==
    ASSUME ReportedInv, UNCHANGED <<shown, sent>>,
           \/ pending' = pending
           \/ pending' = [pending EXCEPT !["mouse"] = @ \/ MotionReady(delta')]
    PROVE  ReportedInv'
  <1>1. pending' \in [Kinds -> BOOLEAN]
    BY DEF ReportedInv, Kinds
  <1>2. \A kind \in Kinds : ~pending'[kind] => ~pending[kind]
    BY DEF ReportedInv, Kinds
  <1>3. \A kind \in Kinds : Report(kind)' = Report(kind)
    BY DEF Report, shown
  <1> QED BY <1>1, <1>2, <1>3 DEF ReportedInv, NothingForgotten

LEMMA TrackpadReports ==
    ASSUME ReportedInv, TrackpadEvents
    PROVE  ReportedInv'
  <1>1. UNCHANGED <<real, virtual, slots, consumer, sent>>
    BY DEF TrackpadEvents
  <1>2. CASE ReadTrackpad
    <2>1. pending' = [pending EXCEPT !["mouse"] = @ \/ buttons' # buttons]
      BY <1>2 DEF ReadTrackpad, TakeSample
    <2>2. pending' \in [Kinds -> BOOLEAN]
      BY <2>1 DEF ReportedInv, Kinds
    <2>3. \A kind \in Kinds : ~pending'[kind] => ~pending[kind] /\ Report(kind)' = Report(kind)
      BY <1>1, <2>1 DEF ReportedInv, Kinds, Report
    <2> QED BY <1>1, <2>2, <2>3 DEF ReportedInv, NothingForgotten
  <1>3. CASE TrackpadFails
    BY <1>1, <1>3, ReportUnchanged DEF TrackpadFails, shown
  <1> QED BY <1>2, <1>3 DEF TrackpadEvents

LEMMA ReportedNext == ReportedInv /\ [Next]_vars => ReportedInv'
  <1> SUFFICES ASSUME ReportedInv, [Next]_vars PROVE ReportedInv'
    OBVIOUS
  <1> USE DEF hid, mouse, shown
  <1>1. CASE TickStart
    BY <1>1, ReportUnchanged DEF TickStart
  <1>2. ASSUME NEW k \in Keys, PressKey(k) \/ ReleaseKey(k) PROVE ReportedInv'
    BY <1>2, ProcessReports DEF PressKey, ReleaseKey
  <1>3. CASE Decide
    BY <1>3, FlagRaised DEF Decide
  <1>4. CASE TickEnd
    <2>1. CASE UNCHANGED <<hid, sent>>
      BY <2>1, ReportUnchanged
    <2>2. CASE SendNext
      BY <2>2, SendNextReports
    <2> QED BY <1>4, <2>1, <2>2 DEF TickEnd, SendUsb
  <1>5. ASSUME NEW k \in Keys, NEW c \in Codes, Remap(k, c) PROVE ReportedInv'
    BY <1>5, ReportUnchanged DEF Remap
  <1>6. CASE UsbComplete
    <2>1. CASE UNCHANGED <<hid, sent>>
      BY <2>1, ReportUnchanged
    <2>2. CASE SendNext
      BY <2>2, SendNextReports
    <2> QED BY <1>6, <2>1, <2>2 DEF UsbComplete
  <1>7. CASE UsbMount
    BY <1>7, ReportUnchanged DEF UsbMount
  <1>8. CASE BleConnect \/ BleDisconnect
    BY <1>8, ReportUnchanged DEF BleConnect, BleDisconnect
  <1>9. CASE BleCanSend
    BY <1>9, TakeReports DEF BleCanSend
  <1>10. CASE TrackpadEvents
    BY <1>10, TrackpadReports
  <1>11. ASSUME NEW p \in Packets, TouchArrives(p) PROVE ReportedInv'
    BY <1>11, ReportUnchanged DEF TouchArrives
  <1>12. CASE UNCHANGED vars
    BY <1>12, ReportUnchanged DEF vars
  <1> QED BY <1>1, <1>2, <1>3, <1>4, <1>5, <1>6, <1>7, <1>8, <1>9, <1>10, <1>11, <1>12 DEF Next

\* No change is forgotten (NothingForgotten): a kind without a pending event
\* was last reported as it is, over whichever transport.
THEOREM ChangesAreReported == Spec => []NothingForgotten
  <1>1. Init => ReportedInv
    BY DEF Init, ReportedInv, NothingForgotten, None
  <1>2. ReportedInv => NothingForgotten
    BY DEF ReportedInv
  <1> QED BY <1>1, <1>2, ReportedNext, PTL DEF Spec

-----------------------------------------------------------------------------
(* The entries of a report.                                                *)

\* What both reports with entries keep: no usage twice, no more than fit.
Entries(seq) == seq \in Seq(Usages) /\ Len(seq) <= MaxSlots /\ Distinct(seq)

LEMMA FilledEntries ==
    ASSUME NEW seq, Entries(seq), NEW x \in Usages
    PROVE  /\ Entries(Filled(seq, x))
           /\ \A i \in 1 .. Len(Filled(seq, x)) :
                 Filled(seq, x)[i] = x \/ \E j \in 1 .. Len(seq) : Filled(seq, x)[i] = seq[j]
  <1> USE DEF Entries
  <1>1. CASE Has(seq, x) \/ Len(seq) >= MaxSlots
    <2>1. Filled(seq, x) = seq
      BY <1>1 DEF Filled
    <2> QED BY <2>1
  <1>2. CASE ~Has(seq, x) /\ ~(Len(seq) >= MaxSlots)
    <2> DEFINE new == Append(seq, x)
    <2>1. Filled(seq, x) = new
      BY <1>2 DEF Filled
    <2>2. Len(seq) \in Nat
      BY LenProperties
    <2>3. /\ new \in Seq(Usages) /\ Len(new) = Len(seq) + 1
          /\ \A i \in 1 .. Len(seq) : new[i] = seq[i]
          /\ new[Len(seq) + 1] = x
      OBVIOUS
    <2>4. Len(new) <= MaxSlots
      BY <1>2, <2>2, <2>3, KeyAssumption
    <2>5. Distinct(new)
      <3>1. \A i \in 1 .. Len(seq) : seq[i] # x
        BY <1>2 DEF Has
      <3> HIDE DEF new
      <3> QED BY <2>2, <2>3, <3>1 DEF Distinct
    <2>6. ASSUME NEW i \in 1 .. Len(new)
          PROVE  new[i] = x \/ \E j \in 1 .. Len(seq) : new[i] = seq[j]
      <3> HIDE DEF new
      <3> QED BY <2>2, <2>3, <2>6
    <2> QED BY <2>1, <2>3, <2>4, <2>5, <2>6
  <1> QED BY <1>1, <1>2

LEMMA EmptiedEntries ==
    ASSUME NEW seq, Entries(seq), NEW x
    PROVE  /\ Entries(Emptied(seq, x))
           /\ \A i \in 1 .. Len(Emptied(seq, x)) :
                 /\ Emptied(seq, x)[i] # x
                 /\ \E j \in 1 .. Len(seq) : Emptied(seq, x)[i] = seq[j]
  <1> USE DEF Entries
  <1>1. CASE ~Has(seq, x)
    <2>1. Emptied(seq, x) = seq
      BY <1>1 DEF Emptied
    <2> QED BY <1>1, <2>1 DEF Has
  <1>2. CASE Has(seq, x)
    <2> DEFINE at == CHOOSE i \in 1 .. Len(seq) : seq[i] = x
               from(i) == IF i < at THEN i ELSE i + 1
               new == [i \in 1 .. Len(seq) - 1 |-> IF i < at THEN seq[i] ELSE seq[i + 1]]
    <2>1. Emptied(seq, x) = new
      BY <1>2 DEF Emptied
    <2>2. at \in 1 .. Len(seq) /\ seq[at] = x
      BY <1>2 DEF Has
    <2>3. Len(seq) \in Nat /\ \A i \in 1 .. Len(seq) : seq[i] \in Usages
      BY LenProperties, ElementOfSeq
    <2> HIDE DEF at
    <2>4. \A i \in 1 .. Len(seq) - 1 :
             /\ from(i) \in 1 .. Len(seq) /\ from(i) # at
             /\ new[i] = seq[from(i)]
      BY <2>2, <2>3
    <2>5. \A i, j \in 1 .. Len(seq) - 1 : from(i) = from(j) => i = j
      BY <2>2, <2>3
    <2> HIDE DEF from
    <2>6. new \in [1 .. Len(seq) - 1 -> Usages]
      BY <2>3, <2>4
    <2>7. new \in Seq(Usages) /\ Len(new) = Len(seq) - 1
      <3>1. Len(seq) - 1 \in Nat
        BY <2>2, <2>3
      <3>2. new \in Seq(Usages)
        BY <2>6, <3>1, SeqDef
      <3>3. DOMAIN new = 1 .. Len(seq) - 1
        OBVIOUS
      <3> HIDE DEF new
      <3>4. DOMAIN new = 1 .. Len(new) /\ Len(new) \in Nat
        BY <3>2, LenProperties
      <3> QED BY <3>1, <3>2, <3>3, <3>4
    <2> HIDE DEF new
    <2>8. Distinct(new)
      BY <2>4, <2>5, <2>7 DEF Distinct
    <2>9. Len(new) <= MaxSlots
      BY <2>3, <2>7, KeyAssumption
    <2>10. \A i \in 1 .. Len(new) : new[i] # x /\ \E j \in 1 .. Len(seq) : new[i] = seq[j]
      BY <2>2, <2>4, <2>7 DEF Distinct
    <2> QED BY <2>1, <2>7, <2>8, <2>9, <2>10
  <1> QED BY <1>1, <1>2

-----------------------------------------------------------------------------
(* Types, and no key without a finger.                                     *)

KeyTypes ==
    /\ pc \in {"wait", "scan", "io", "read"} /\ use \in {"none", "usb", "ble"}
    /\ setup \in Setups /\ keymap \in [DOMAIN setup.keymap -> Codes]
    /\ held \subseteq DOMAIN keymap
    /\ real \subseteq Bits /\ virtual \subseteq Bits /\ moving \subseteq MoveKeys
    /\ buttons \in [Devices -> SUBSET Nat]
    /\ Entries(slots) /\ Entries(consumer)
    /\ pref \in {"usb", "ble"}
    /\ mounted \in BOOLEAN /\ busy \in BOOLEAN /\ chain \in BOOLEAN /\ bleOn \in BOOLEAN
    /\ connected \in BOOLEAN /\ canSend \in BOOLEAN
    /\ crowded \in BOOLEAN /\ remapped \in BOOLEAN

KeyInv == KeyTypes /\ NoPhantomKey

LEMMA PhantomUnchanged ==
    ASSUME NoPhantomKey, UNCHANGED <<keymap, held, real, virtual, slots, consumer, moving, remapped>>,
           buttons'["keys"] = buttons["keys"]
    PROVE  NoPhantomKey'
  BY DEF NoPhantomKey, HeldWith

LEMMA CodeTypes ==
    ASSUME NEW c \in Codes
    PROVE  /\ c.usage \in Usages /\ c.bits \subseteq Bits /\ c.bits \subseteq Nat
           /\ c.op = "move" => c.usage \in MoveKeys
  BY KeyAssumption DEF Usages, Bits, Code

LEMMA ProcessTypes ==
    ASSUME KeyTypes, NEW c \in Codes, NEW pressed \in BOOLEAN, Process(c, pressed)
    PROVE  /\ real' \subseteq Bits /\ virtual' \subseteq Bits /\ moving' \subseteq MoveKeys
           /\ buttons' \in [Devices -> SUBSET Nat]
           /\ Entries(slots)' /\ Entries(consumer)'
           /\ pref' \in {"usb", "ble"} /\ bleOn' \in BOOLEAN
           /\ UNCHANGED <<mounted, busy, chain, connected, canSend>>
  <1> USE DEF KeyTypes
  <1>1. /\ real' \subseteq Bits /\ virtual' \subseteq Bits /\ moving' \subseteq MoveKeys
        /\ buttons' \in [Devices -> SUBSET Nat]
        /\ Entries(slots)' /\ Entries(consumer)'
    <2>1. CASE KeyboardKey(c, pressed)
      <3>1. Entries(slots')
        BY <2>1, CodeTypes, FilledEntries, EmptiedEntries DEF KeyboardKey
      <3>2. Entries(slots)'
        BY <3>1 DEF Entries, Distinct
      <3> QED BY <2>1, <3>2, CodeTypes DEF KeyboardKey, mouse, Entries, Distinct
    <2>2. CASE ModifierKey(c, pressed)
      BY <2>2, CodeTypes DEF ModifierKey, mouse, Entries, Distinct
    <2>3. CASE ConsumerKey(c, pressed)
      <3>1. Entries(consumer')
        BY <2>3, CodeTypes, FilledEntries, EmptiedEntries DEF ConsumerKey
      <3>2. Entries(consumer)'
        BY <3>1 DEF Entries, Distinct
      <3> QED BY <2>3, <3>2 DEF ConsumerKey, mouse, Entries, Distinct
    <2>4. CASE ButtonKey(c, pressed)
      BY <2>4, CodeTypes DEF ButtonKey, Entries, Distinct
    <2>5. CASE c.op = "move" /\ MoveKey(c, pressed)
      BY <2>5, CodeTypes DEF MoveKey, Entries, Distinct
    <2>6. CASE UNCHANGED hid
      BY <2>6 DEF hid, mouse, Entries, Distinct
    <2> QED BY <2>1, <2>2, <2>3, <2>4, <2>5, <2>6 DEF Process
  <1>2. pref' \in {"usb", "ble"} /\ bleOn' \in BOOLEAN
    <2>1. setup.ble \in BOOLEAN
      BY KeyAssumption
    <2> QED BY <2>1 DEF Process, TogglePreference
  <1> QED BY <1>1, <1>2 DEF Process

\* A press adds to the report what the pressed key stands for.
LEMMA PressKeepsKeys ==
    ASSUME KeyInv, NEW k \in Keys, PressKey(k)
    PROVE  KeyInv'
  <1> USE DEF KeyInv
  <1> DEFINE c == keymap[k]
  <1>1. /\ k \in DOMAIN keymap /\ c \in Codes /\ held' = held \cup {k}
        /\ UNCHANGED <<keymap, setup, remapped, pc, use>> /\ Process(c, TRUE)
        /\ crowded' \in BOOLEAN
    BY DEF PressKey, KeyTypes
  <1>2. KeyTypes'
    BY <1>1, ProcessTypes DEF KeyTypes
  <1>3. ASSUME ~remapped PROVE NoPhantomKey'
    <2>1. CASE c.op = "keyboard" /\ KeyboardKey(c, TRUE)
      <3>1. \A i \in 1 .. Len(slots') :
               slots'[i] = c.usage \/ \E j \in 1 .. Len(slots) : slots'[i] = slots[j]
        BY <1>1, <2>1, CodeTypes, FilledEntries DEF KeyboardKey, KeyTypes
      <3>2. virtual' = virtual \cup c.bits /\ UNCHANGED <<real, consumer, buttons, moving>>
        BY <2>1 DEF KeyboardKey, mouse
      <3> QED BY <1>1, <1>3, <2>1, <3>1, <3>2 DEF NoPhantomKey, HeldWith
    <2>2. CASE c.op = "modifier" /\ ModifierKey(c, TRUE)
      BY <1>1, <1>3, <2>2 DEF ModifierKey, mouse, NoPhantomKey, HeldWith
    <2>3. CASE c.op = "consumer" /\ ConsumerKey(c, TRUE)
      <3>1. \A i \in 1 .. Len(consumer') :
               consumer'[i] = c.usage \/ \E j \in 1 .. Len(consumer) : consumer'[i] = consumer[j]
        BY <1>1, <2>3, CodeTypes, FilledEntries DEF ConsumerKey, KeyTypes
      <3>2. UNCHANGED <<real, virtual, slots, buttons, moving>>
        BY <2>3 DEF ConsumerKey, mouse
      <3> QED BY <1>1, <1>3, <2>3, <3>1, <3>2 DEF NoPhantomKey, HeldWith
    <2>4. CASE c.op = "button" /\ ButtonKey(c, TRUE)
      <3>1. buttons'["keys"] = buttons["keys"] \cup c.bits
        BY <2>4 DEF ButtonKey, KeyTypes, Devices
      <3> QED BY <1>1, <1>3, <2>4, <3>1 DEF ButtonKey, NoPhantomKey, HeldWith
    <2>5. CASE c.op = "move" /\ MoveKey(c, TRUE)
      BY <1>1, <1>3, <2>5 DEF MoveKey, NoPhantomKey, HeldWith
    <2>6. CASE UNCHANGED hid
      BY <1>1, <1>3, <2>6 DEF hid, mouse, NoPhantomKey, HeldWith
    <2> QED BY <1>1, <2>1, <2>2, <2>3, <2>4, <2>5, <2>6 DEF Process
  <1>4. ASSUME remapped PROVE NoPhantomKey'
    BY <1>1, <1>4 DEF NoPhantomKey
  <1> QED BY <1>2, <1>3, <1>4 DEF KeyTypes

\* A release takes out of the report all that the key stood for; what stays
\* is held by another key.
LEMMA ReleaseKeepsKeys ==
    ASSUME KeyInv, NEW k \in Keys, ReleaseKey(k)
    PROVE  KeyInv'
  <1> USE DEF KeyInv
  <1> DEFINE c == keymap[k]
  <1>1. /\ k \in held /\ c \in Codes /\ held' = held \ {k}
        /\ UNCHANGED <<keymap, setup, remapped, pc, use>> /\ Process(c, FALSE)
        /\ crowded' \in BOOLEAN
    BY DEF ReleaseKey, KeyTypes
  <1>2. KeyTypes'
    BY <1>1, ProcessTypes DEF KeyTypes
  <1>3. ASSUME ~remapped PROVE NoPhantomKey'
    <2>1. CASE c.op = "keyboard" /\ KeyboardKey(c, FALSE)
      <3>1. \A i \in 1 .. Len(slots') :
               slots'[i] # c.usage /\ \E j \in 1 .. Len(slots) : slots'[i] = slots[j]
        BY <1>1, <2>1, EmptiedEntries DEF KeyboardKey, KeyTypes
      <3>2. virtual' = virtual \ c.bits /\ UNCHANGED <<real, consumer, buttons, moving>>
        BY <2>1 DEF KeyboardKey, mouse
      <3> QED BY <1>1, <1>3, <2>1, <3>1, <3>2 DEF NoPhantomKey, HeldWith
    <2>2. CASE c.op = "modifier" /\ ModifierKey(c, FALSE)
      BY <1>1, <1>3, <2>2 DEF ModifierKey, mouse, NoPhantomKey, HeldWith
    <2>3. CASE c.op = "consumer" /\ ConsumerKey(c, FALSE)
      <3>1. \A i \in 1 .. Len(consumer') :
               consumer'[i] # c.usage /\ \E j \in 1 .. Len(consumer) : consumer'[i] = consumer[j]
        BY <1>1, <2>3, EmptiedEntries DEF ConsumerKey, KeyTypes
      <3>2. UNCHANGED <<real, virtual, slots, buttons, moving>>
        BY <2>3 DEF ConsumerKey, mouse
      <3> QED BY <1>1, <1>3, <2>3, <3>1, <3>2 DEF NoPhantomKey, HeldWith
    <2>4. CASE c.op = "button" /\ ButtonKey(c, FALSE)
      <3>1. buttons'["keys"] = buttons["keys"] \ c.bits
        BY <2>4 DEF ButtonKey, KeyTypes, Devices
      <3> QED BY <1>1, <1>3, <2>4, <3>1 DEF ButtonKey, NoPhantomKey, HeldWith
    <2>5. CASE c.op = "move" /\ MoveKey(c, FALSE)
      BY <1>1, <1>3, <2>5 DEF MoveKey, NoPhantomKey, HeldWith
    <2>6. CASE c.op \in {"system", "other"} /\ UNCHANGED hid
      BY <1>1, <1>3, <2>6 DEF hid, mouse, NoPhantomKey, HeldWith
    <2> QED BY <1>1, <2>1, <2>2, <2>3, <2>4, <2>5, <2>6 DEF Process
  <1>4. ASSUME remapped PROVE NoPhantomKey'
    BY <1>1, <1>4 DEF NoPhantomKey
  <1> QED BY <1>2, <1>3, <1>4 DEF KeyTypes

\* Between the scans only the links, the pads' buttons and a keymap that is
\* then marked as remapped change.
LEMMA OthersKeepKeys ==
    ASSUME KeyInv, MotionTypes,
           UNCHANGED <<setup, keymap, held, crowded, remapped,
                       real, virtual, slots, consumer, moving>>,
           \/ UNCHANGED buttons
           \/ \E p \in Packets : buttons' = [buttons EXCEPT !["pad"] = p.buttons],
           pc' \in {"wait", "scan", "io", "read"}, use' \in {"none", "usb", "ble"},
           pref' \in {"usb", "ble"},
           mounted' \in BOOLEAN, busy' \in BOOLEAN, chain' \in BOOLEAN, bleOn' \in BOOLEAN,
           connected' \in BOOLEAN, canSend' \in BOOLEAN
    PROVE  KeyInv'
  <1>1. buttons' \in [Devices -> SUBSET Nat] /\ buttons'["keys"] = buttons["keys"]
    BY MouseAssumption DEF KeyInv, KeyTypes, Devices
  <1>2. KeyTypes'
    BY <1>1 DEF KeyInv, KeyTypes, Entries, Distinct
  <1>3. NoPhantomKey'
    BY <1>1, PhantomUnchanged DEF KeyInv
  <1> QED BY <1>2, <1>3 DEF KeyInv

LEMMA SendNextKeepsKeys ==
    ASSUME SendNext, busy \in BOOLEAN, chain \in BOOLEAN
    PROVE  /\ UNCHANGED <<real, virtual, slots, consumer, buttons, moving>>
           /\ busy' \in BOOLEAN /\ chain' \in BOOLEAN
  BY DEF SendNext, Pop, Take, hid, mouse

LEMMA KeyNext == KeyInv /\ MotionTypes /\ [Next]_vars => KeyInv'
  <1> SUFFICES ASSUME KeyInv, MotionTypes, [Next]_vars PROVE KeyInv'
    OBVIOUS
  <1> USE DEF hid, mouse, keys, link
  <1>1. CASE TickStart
    BY <1>1, OthersKeepKeys DEF TickStart, KeyInv, KeyTypes
  <1>2. ASSUME NEW k \in Keys, PressKey(k) PROVE KeyInv'
    BY <1>2, PressKeepsKeys
  <1>3. ASSUME NEW k \in Keys, ReleaseKey(k) PROVE KeyInv'
    BY <1>3, ReleaseKeepsKeys
  <1>4. CASE Decide
    <2>1. connected' \in BOOLEAN /\ canSend' \in BOOLEAN /\ bleOn' \in BOOLEAN
      BY <1>4 DEF Decide, KeyInv, KeyTypes
    <2> QED BY <1>4, <2>1, OthersKeepKeys DEF Decide, KeyInv, KeyTypes
  <1>5. CASE TickEnd
    <2>1. /\ UNCHANGED <<real, virtual, slots, consumer, buttons, moving>>
          /\ busy' \in BOOLEAN /\ chain' \in BOOLEAN /\ canSend' \in BOOLEAN
      BY <1>5, SendNextKeepsKeys DEF TickEnd, SendUsb, KeyInv, KeyTypes
    <2> QED BY <1>5, <2>1, OthersKeepKeys DEF TickEnd, KeyInv, KeyTypes
  <1>6. ASSUME NEW k \in Keys, NEW c \in Codes, Remap(k, c) PROVE KeyInv'
    <2>1. /\ keymap' = [keymap EXCEPT ![k] = c] /\ remapped' = (remapped \/ k \in held)
          /\ UNCHANGED <<pc, use, setup, held, order, crowded, hid, link>>
      BY <1>6 DEF Remap
    <2>2. KeyTypes'
      <3>1. keymap' \in [DOMAIN setup'.keymap -> Codes] /\ DOMAIN keymap' = DOMAIN keymap
        BY <2>1 DEF KeyInv, KeyTypes
      <3>2. remapped' \in BOOLEAN
        BY <2>1 DEF KeyInv, KeyTypes
      <3> QED BY <2>1, <3>1, <3>2 DEF KeyInv, KeyTypes, Entries, Distinct
    <2>3. CASE k \notin held
      <3>1. \A j \in held : keymap'[j] = keymap[j]
        BY <2>1, <2>3 DEF KeyInv, KeyTypes
      <3>2. \A op : HeldWith(op)' = HeldWith(op)
        BY <2>1, <3>1 DEF HeldWith
      <3> QED BY <2>1, <2>2, <2>3, <3>1, <3>2 DEF KeyInv, KeyTypes, NoPhantomKey, HeldWith
    <2>4. CASE k \in held
      BY <2>1, <2>2, <2>4 DEF KeyInv, NoPhantomKey
    <2> QED BY <2>3, <2>4
  <1>7. CASE UsbComplete
    <2>1. /\ UNCHANGED <<real, virtual, slots, consumer, buttons, moving>>
          /\ busy' \in BOOLEAN /\ chain' \in BOOLEAN
      BY <1>7, SendNextKeepsKeys DEF UsbComplete, KeyInv, KeyTypes
    <2> QED BY <1>7, <2>1, OthersKeepKeys DEF UsbComplete, KeyInv, KeyTypes
  <1>8. CASE UsbMount
    BY <1>8, OthersKeepKeys DEF UsbMount, KeyInv, KeyTypes
  <1>9. CASE BleConnect \/ BleDisconnect
    <2>1. /\ UNCHANGED <<pc, use, keys, hid, pref, mounted, busy, chain, bleOn>>
          /\ connected' \in BOOLEAN /\ canSend' \in BOOLEAN
      BY <1>9 DEF BleConnect, BleDisconnect, KeyInv, KeyTypes
    <2> QED BY <2>1, OthersKeepKeys DEF KeyInv, KeyTypes
  <1>10. CASE BleCanSend
    <2>1. UNCHANGED <<real, virtual, slots, consumer, buttons, moving>> /\ canSend' = FALSE
      BY <1>10 DEF BleCanSend, Take
    <2> QED BY <1>10, <2>1, OthersKeepKeys DEF BleCanSend, KeyInv, KeyTypes
  <1>11. CASE TrackpadEvents
    <2>1. \/ UNCHANGED buttons
          \/ \E p \in Packets : buttons' = [buttons EXCEPT !["pad"] = p.buttons]
      <3>1. sample \subseteq Packets
        BY DEF MotionTypes
      <3>2. CASE ReadTrackpad
        BY <3>1, <3>2 DEF ReadTrackpad, TakeSample
      <3>3. CASE TrackpadFails
        BY <3>3 DEF TrackpadFails
      <3> QED BY <1>11, <3>2, <3>3 DEF TrackpadEvents
    <2> QED BY <1>11, <2>1, OthersKeepKeys DEF TrackpadEvents, KeyInv, KeyTypes
  <1>12. ASSUME NEW p \in Packets, TouchArrives(p) PROVE KeyInv'
    BY <1>12, OthersKeepKeys DEF TouchArrives, KeyInv, KeyTypes
  <1>13. CASE UNCHANGED vars
    BY <1>13, OthersKeepKeys DEF vars, KeyInv, KeyTypes
  <1> QED BY <1>1, <1>2, <1>3, <1>4, <1>5, <1>6, <1>7, <1>8, <1>9, <1>10, <1>11, <1>12, <1>13
          DEF Next

LEMMA KeyInit == Init => KeyInv
  <1> SUFFICES ASSUME Init PROVE KeyInv
    OBVIOUS
  <1>1. Entries(<<>>)
    <2>1. MaxSlots >= 0
      BY KeyAssumption
    <2> QED BY <2>1 DEF Entries, Distinct
  <1>2. keymap \in [DOMAIN setup.keymap -> Codes] /\ setup \in Setups /\ setup.ble \in BOOLEAN
    BY KeyAssumption DEF Init
  <1>3. KeyTypes
    BY <1>1, <1>2 DEF Init, KeyTypes, Devices
  <1>4. NoPhantomKey
    BY DEF Init, NoPhantomKey, HeldWith, Devices
  <1> QED BY <1>3, <1>4 DEF KeyInv

\* Whatever is pressed, reported or unplugged, the state is well formed: no
\* usage twice in a report, no report too long, no movement out of range.
THEOREM HidTypeCorrect == Spec => []TypeOK
  <1> DEFINE Inv == KeyInv /\ MotionInv /\ ReportedInv
  <1>1. Init => Inv
    BY KeyInit, MotionInit DEF Init, ReportedInv, NothingForgotten, None
  <1>2. Inv /\ [Next]_vars => Inv'
    BY KeyNext, MotionNext, ReportedNext DEF MotionInv
  <1>3. Inv => TypeOK
    BY DEF TypeOK, KeyInv, KeyTypes, MotionInv, MotionTypes, ReportedInv, Entries
  <1> QED BY <1>1, <1>2, <1>3, PTL DEF Spec

\* Once all keys are up, no report shows one (NoPhantomKey).
THEOREM NoKeyWithoutFinger == Spec => []NoPhantomKey
  <1> DEFINE Inv == KeyInv /\ MotionInv
  <1>1. Init => Inv
    BY KeyInit, MotionInit
  <1>2. Inv /\ [Next]_vars => Inv'
    BY KeyNext, MotionNext DEF MotionInv
  <1>3. Inv => NoPhantomKey
    BY DEF KeyInv
  <1> QED BY <1>1, <1>2, <1>3, PTL DEF Spec
-----------------------------------------------------------------------------
(* Entries in the order of the presses.                                    *)

\* The history of presses lists the held keys, each once.
OrderHeld ==
    /\ order \in Seq(Keys) /\ Distinct(order)
    /\ held = {order[i] : i \in 1 .. Len(order)}

\* No two held keys carry the same usage or the same bit, where the code has
\* one place for it.
Apart ==
    \A k, l \in held : k # l /\ keymap[k].op = keymap[l].op =>
        /\ keymap[k].op \in {"keyboard", "consumer", "move"} => keymap[k].usage # keymap[l].usage
        /\ keymap[k].op \in {"keyboard", "modifier", "button"} => keymap[k].bits \cap keymap[l].bits = {}

\* A press comes last, a release leaves the others in their order.
LEMMA PressOrder ==
    ASSUME NEW seq \in Seq(Keys), Distinct(seq), NEW k \in Keys, ~Has(seq, k)
    PROVE  /\ Append(seq, k) \in Seq(Keys) /\ Distinct(Append(seq, k))
           /\ Len(Append(seq, k)) = Len(seq) + 1 /\ Len(seq) \in Nat
           /\ \A i \in 1 .. Len(seq) : Append(seq, k)[i] = seq[i]
           /\ Append(seq, k)[Len(seq) + 1] = k
  <1> DEFINE new == Append(seq, k)
  <1>1. Len(seq) \in Nat
    BY LenProperties
  <1>2. /\ new \in Seq(Keys) /\ Len(new) = Len(seq) + 1
        /\ \A i \in 1 .. Len(seq) : new[i] = seq[i]
        /\ new[Len(seq) + 1] = k
    OBVIOUS
  <1>3. \A i \in 1 .. Len(seq) : seq[i] # k
    BY DEF Has
  <1> HIDE DEF new
  <1>4. Distinct(new)
    BY <1>1, <1>2, <1>3 DEF Distinct
  <1> QED BY <1>1, <1>2, <1>4 DEF new

LEMMA ReleaseOrder ==
    ASSUME NEW seq \in Seq(Keys), Distinct(seq), NEW k, Has(seq, k)
    PROVE  /\ Without(seq, k) \in Seq(Keys) /\ Distinct(Without(seq, k))
           /\ \A i \in 1 .. Len(Without(seq, k)) :
                 Without(seq, k)[i] # k /\ \E j \in 1 .. Len(seq) : Without(seq, k)[i] = seq[j]
           /\ \A i, j \in 1 .. Len(seq) : seq[i] # k /\ seq[j] # k /\ i <= j =>
                 \E m, n \in 1 .. Len(Without(seq, k)) :
                    /\ (i < j => m < n)
                    /\ Without(seq, k)[m] = seq[i] /\ Without(seq, k)[n] = seq[j]
  <1> DEFINE at == CHOOSE i \in 1 .. Len(seq) : seq[i] = k
             front == SubSeq(seq, 1, at - 1)
             back == SubSeq(seq, at + 1, Len(seq))
             new == front \o back
             from(i) == IF i < at THEN i ELSE i + 1
             to(i) == IF i < at THEN i ELSE i - 1
  <1>1. Without(seq, k) = new
    BY DEF Without
  <1>2. at \in 1 .. Len(seq) /\ seq[at] = k
    BY DEF Has
  <1>3. Len(seq) \in Nat
    BY LenProperties
  <1> HIDE DEF at
  <1>4. /\ front \in Seq(Keys) /\ Len(front) = at - 1
        /\ \A i \in 1 .. at - 1 : front[i] = seq[i]
    BY <1>2, <1>3, SubSeqProperties
  <1>5. /\ back \in Seq(Keys) /\ Len(back) = Len(seq) - at
        /\ \A i \in 1 .. Len(seq) - at : back[i] = seq[at + i]
    BY <1>2, <1>3, SubSeqProperties
  <1> HIDE DEF front, back
  <1>6. /\ new \in Seq(Keys) /\ Len(new) = Len(seq) - 1
        /\ \A i \in 1 .. Len(seq) - 1 : new[i] = IF i < at THEN front[i] ELSE back[i - (at - 1)]
    <2>1. /\ new \in Seq(Keys) /\ Len(new) = Len(front) + Len(back)
          /\ \A i \in 1 .. Len(front) + Len(back) :
                new[i] = IF i <= Len(front) THEN front[i] ELSE back[i - Len(front)]
      BY <1>4, <1>5, ConcatProperties
    <2>2. Len(front) = at - 1 /\ Len(back) = Len(seq) - at
      BY <1>4, <1>5
    <2> HIDE DEF new, from, to
    <2>3. Len(front) + Len(back) = Len(seq) - 1
      BY <1>2, <1>3, <2>2
    <2>4. ASSUME NEW i \in 1 .. Len(seq) - 1
          PROVE  new[i] = IF i < at THEN front[i] ELSE back[i - (at - 1)]
      <3>1. new[i] = IF i <= at - 1 THEN front[i] ELSE back[i - (at - 1)]
        BY <2>1, <2>2, <2>3
      <3>2. i <= at - 1 <=> i < at
        BY <1>2, <1>3
      <3> QED BY <3>1, <3>2
    <2> QED BY <2>1, <2>3, <2>4
  <1>7. \A i \in 1 .. Len(seq) - 1 :
           from(i) \in 1 .. Len(seq) /\ from(i) # at /\ new[i] = seq[from(i)]
    <2> HIDE DEF new, to
    <2> SUFFICES ASSUME NEW i \in 1 .. Len(seq) - 1
                 PROVE  from(i) \in 1 .. Len(seq) /\ from(i) # at /\ new[i] = seq[from(i)]
      OBVIOUS
    <2>1. CASE i < at
      BY <1>2, <1>3, <1>4, <1>6, <2>1
    <2>2. CASE ~(i < at)
      <3>1. i - (at - 1) \in 1 .. Len(seq) - at /\ at + (i - (at - 1)) = i + 1
        BY <1>2, <1>3, <2>2
      <3> QED BY <1>2, <1>3, <1>5, <1>6, <2>2, <3>1
    <2> QED BY <2>1, <2>2
  <1>8. \A i \in 1 .. Len(seq) : i # at => to(i) \in 1 .. Len(seq) - 1 /\ from(to(i)) = i
    BY <1>2, <1>3
  <1>9. /\ \A i, j \in 1 .. Len(seq) - 1 : from(i) = from(j) => i = j
        /\ \A i, j \in 1 .. Len(seq) : i # at /\ j # at /\ i < j => to(i) < to(j)
    BY <1>2, <1>3
  <1> HIDE DEF from, to, new
  <1>10. Distinct(new)
    BY <1>6, <1>7, <1>9 DEF Distinct
  <1>11. \A i \in 1 .. Len(new) : new[i] # k /\ \E j \in 1 .. Len(seq) : new[i] = seq[j]
    BY <1>2, <1>6, <1>7 DEF Distinct
  <1>12. ASSUME NEW i \in 1 .. Len(seq), NEW j \in 1 .. Len(seq), seq[i] # k, seq[j] # k, i <= j
         PROVE  \E m, n \in 1 .. Len(new) :
                   (i < j => m < n) /\ new[m] = seq[i] /\ new[n] = seq[j]
    <2>1. i # at /\ j # at
      BY <1>2, <1>12
    <2>2. /\ to(i) \in 1 .. Len(new) /\ to(j) \in 1 .. Len(new)
          /\ new[to(i)] = seq[i] /\ new[to(j)] = seq[j]
      BY <2>1, <1>6, <1>7, <1>8
    <2>3. i < j => to(i) < to(j)
      BY <2>1, <1>9
    <2> QED BY <2>2, <2>3
  <1>13. new \in Seq(Keys)
    BY <1>6
  <1> QED BY <1>1, <1>10, <1>11, <1>12, <1>13

\* The entries, likewise: the code's loop closes the gap.
LEMMA EmptiedOrder ==
    ASSUME NEW seq, Entries(seq), NEW x
    PROVE  /\ \A v : Has(Emptied(seq, x), v) <=> v # x /\ Has(seq, v)
           /\ \A i, j \in 1 .. Len(Emptied(seq, x)) : i < j =>
                 \E m, n \in 1 .. Len(seq) :
                    m < n /\ Emptied(seq, x)[i] = seq[m] /\ Emptied(seq, x)[j] = seq[n]
  <1> USE DEF Entries
  <1>1. CASE ~Has(seq, x)
    <2>1. Emptied(seq, x) = seq
      BY <1>1 DEF Emptied
    <2> QED BY <1>1, <2>1 DEF Has
  <1>2. CASE Has(seq, x)
    <2> DEFINE at == CHOOSE i \in 1 .. Len(seq) : seq[i] = x
               from(i) == IF i < at THEN i ELSE i + 1
               to(i) == IF i < at THEN i ELSE i - 1
               new == [i \in 1 .. Len(seq) - 1 |-> IF i < at THEN seq[i] ELSE seq[i + 1]]
    <2>1. Emptied(seq, x) = new
      BY <1>2 DEF Emptied
    <2>2. at \in 1 .. Len(seq) /\ seq[at] = x
      BY <1>2 DEF Has
    <2>3. Len(seq) \in Nat
      BY LenProperties
    <2> HIDE DEF at
    <2>4. \A i \in 1 .. Len(seq) - 1 :
             from(i) \in 1 .. Len(seq) /\ from(i) # at /\ new[i] = seq[from(i)]
      BY <2>2, <2>3
    <2>5. \A i, j \in 1 .. Len(seq) - 1 : i < j => from(i) < from(j)
      BY <2>2, <2>3
    <2>6. \A i \in 1 .. Len(seq) : i # at => to(i) \in 1 .. Len(seq) - 1 /\ from(to(i)) = i
      BY <2>2, <2>3
    <2>7. Len(new) = Len(seq) - 1
      <3>1. Emptied(seq, x) \in Seq(Usages)
        BY EmptiedEntries
      <3>2. DOMAIN new = 1 .. Len(seq) - 1 /\ Len(seq) - 1 \in Nat
        BY <2>2, <2>3
      <3> HIDE DEF new
      <3>3. DOMAIN new = 1 .. Len(new) /\ Len(new) \in Nat
        BY <2>1, <3>1, LenProperties
      <3> QED BY <3>2, <3>3
    <2> HIDE DEF from, to, new
    <2>8. ASSUME NEW v PROVE Has(new, v) <=> v # x /\ Has(seq, v)
      <3>1. ASSUME NEW i \in 1 .. Len(new), v = new[i]
            PROVE  v # x /\ Has(seq, v)
        BY <3>1, <2>2, <2>4, <2>7 DEF Distinct, Has
      <3>2. ASSUME NEW i \in 1 .. Len(seq), v = seq[i], v # x
            PROVE  Has(new, v)
        <4>1. to(i) \in 1 .. Len(new) /\ new[to(i)] = seq[i]
          BY <3>2, <2>2, <2>4, <2>6, <2>7
        <4> QED BY <3>2, <4>1 DEF Has
      <3> QED BY <3>1, <3>2 DEF Has
    <2>9. \A i, j \in 1 .. Len(new) : i < j =>
             \E m, n \in 1 .. Len(seq) : m < n /\ new[i] = seq[m] /\ new[j] = seq[n]
      BY <2>4, <2>5, <2>7
    <2> HIDE DEF Entries
    <2> QED BY <2>1, <2>8, <2>9
  <1> QED BY <1>1, <1>2
-----------------------------------------------------------------------------
(* RolloverInOrder.                                                        *)

\* ListsHeld, with all it depends on named.
Lists(seq, ks, ord, km) ==
    /\ \A v : Has(seq, v) <=> \E k \in ks : km[k].usage = v
    /\ \A i, j \in 1 .. Len(seq) : i < j =>
          \E m, n \in 1 .. Len(ord) :
             /\ m < n /\ {ord[m], ord[n]} \subseteq ks
             /\ km[ord[m]].usage = seq[i] /\ km[ord[n]].usage = seq[j]

\* A key that has its place elsewhere is pressed.
LEMMA ListsOtherPressed ==
    ASSUME NEW seq, NEW ks, NEW ord \in Seq(Keys), NEW km, NEW k \in Keys, Distinct(ord), ~Has(ord, k),
           Lists(seq, ks, ord, km)
    PROVE  Lists(seq, ks, Append(ord, k), km)
  <1> DEFINE new == Append(ord, k)
  <1>1. /\ Len(ord) \in Nat /\ Len(new) = Len(ord) + 1
        /\ \A i \in 1 .. Len(ord) : new[i] = ord[i]
    BY PressOrder
  <1> HIDE DEF new
  <1>2. ASSUME NEW i \in 1 .. Len(seq), NEW j \in 1 .. Len(seq), i < j
        PROVE  \E m, n \in 1 .. Len(new) :
                  /\ m < n /\ {new[m], new[n]} \subseteq ks
                  /\ km[new[m]].usage = seq[i] /\ km[new[n]].usage = seq[j]
    <2>1. PICK m \in 1 .. Len(ord), n \in 1 .. Len(ord) :
             /\ m < n /\ {ord[m], ord[n]} \subseteq ks
             /\ km[ord[m]].usage = seq[i] /\ km[ord[n]].usage = seq[j]
      BY <1>2 DEF Lists
    <2>2. m \in 1 .. Len(new) /\ n \in 1 .. Len(new) /\ new[m] = ord[m] /\ new[n] = ord[n]
      BY <1>1
    <2> QED BY <2>1, <2>2
  <1> QED BY <1>2 DEF Lists, new

\* ... or released.
LEMMA ListsOtherReleased ==
    ASSUME NEW seq, NEW ks, NEW ord \in Seq(Keys), NEW km, NEW k, Distinct(ord), Has(ord, k),
           k \notin ks, Lists(seq, ks, ord, km)
    PROVE  Lists(seq, ks, Without(ord, k), km)
  <1> DEFINE new == Without(ord, k)
  <1>1. \A i, j \in 1 .. Len(ord) : ord[i] # k /\ ord[j] # k /\ i <= j =>
           \E m, n \in 1 .. Len(new) : (i < j => m < n) /\ new[m] = ord[i] /\ new[n] = ord[j]
    BY ReleaseOrder
  <1> HIDE DEF new
  <1>2. ASSUME NEW i \in 1 .. Len(seq), NEW j \in 1 .. Len(seq), i < j
        PROVE  \E m, n \in 1 .. Len(new) :
                  /\ m < n /\ {new[m], new[n]} \subseteq ks
                  /\ km[new[m]].usage = seq[i] /\ km[new[n]].usage = seq[j]
    <2>1. PICK m \in 1 .. Len(ord), n \in 1 .. Len(ord) :
             /\ m < n /\ {ord[m], ord[n]} \subseteq ks
             /\ km[ord[m]].usage = seq[i] /\ km[ord[n]].usage = seq[j]
      BY <1>2 DEF Lists
    <2>2. ord[m] # k /\ ord[n] # k /\ m <= n
      BY <2>1
    <2>3. PICK a \in 1 .. Len(new), b \in 1 .. Len(new) :
             a < b /\ new[a] = ord[m] /\ new[b] = ord[n]
      BY <1>1, <2>1, <2>2
    <2> QED BY <2>1, <2>3
  <1> QED BY <1>2 DEF Lists, new

\* The key pressed goes behind all entries.
LEMMA ListsPressed ==
    ASSUME NEW seq \in Seq(Usages), NEW ks, NEW ord \in Seq(Keys), NEW km, NEW k \in Keys,
           Distinct(ord), ~Has(ord, k), ks \subseteq {ord[i] : i \in 1 .. Len(ord)},
           km[k].usage \in Usages, Lists(seq, ks, ord, km)
    PROVE  Lists(Append(seq, km[k].usage), ks \cup {k}, Append(ord, k), km)
  <1> DEFINE more == Append(seq, km[k].usage)
             new == Append(ord, k)
  <1>1. /\ Len(ord) \in Nat /\ Len(new) = Len(ord) + 1
        /\ \A i \in 1 .. Len(ord) : new[i] = ord[i]
        /\ new[Len(ord) + 1] = k
    BY PressOrder
  <1>2. /\ Len(seq) \in Nat /\ Len(more) = Len(seq) + 1
        /\ \A i \in 1 .. Len(seq) : more[i] = seq[i]
        /\ more[Len(seq) + 1] = km[k].usage
    BY LenProperties
  <1> HIDE DEF new, more
  <1>3. ASSUME NEW v PROVE Has(more, v) <=> \E l \in ks \cup {k} : km[l].usage = v
    <2>1. Has(more, v) <=> Has(seq, v) \/ v = km[k].usage
      BY <1>2 DEF Has
    <2> QED BY <2>1 DEF Lists
  <1>4. ASSUME NEW i \in 1 .. Len(more), NEW j \in 1 .. Len(more), i < j
        PROVE  \E m, n \in 1 .. Len(new) :
                  /\ m < n /\ {new[m], new[n]} \subseteq ks \cup {k}
                  /\ km[new[m]].usage = more[i] /\ km[new[n]].usage = more[j]
    <2>1. CASE j \in 1 .. Len(seq)
      <3>1. i \in 1 .. Len(seq) /\ more[i] = seq[i] /\ more[j] = seq[j]
        BY <1>2, <1>4, <2>1
      <3>2. PICK m \in 1 .. Len(ord), n \in 1 .. Len(ord) :
               /\ m < n /\ {ord[m], ord[n]} \subseteq ks
               /\ km[ord[m]].usage = seq[i] /\ km[ord[n]].usage = seq[j]
        BY <1>4, <2>1, <3>1 DEF Lists
      <3>3. m \in 1 .. Len(new) /\ n \in 1 .. Len(new) /\ new[m] = ord[m] /\ new[n] = ord[n]
        BY <1>1
      <3> QED BY <3>1, <3>2, <3>3
    <2>2. CASE j = Len(seq) + 1
      <3>1. i \in 1 .. Len(seq) /\ more[i] = seq[i] /\ more[j] = km[k].usage
        BY <1>2, <1>4, <2>2
      <3>2. PICK l \in ks : km[l].usage = seq[i]
        BY <3>1 DEF Lists, Has
      <3>3. PICK m \in 1 .. Len(ord) : ord[m] = l
        OBVIOUS
      <3>4. /\ m \in 1 .. Len(new) /\ Len(ord) + 1 \in 1 .. Len(new) /\ m < Len(ord) + 1
            /\ new[m] = l /\ new[Len(ord) + 1] = k
        BY <1>1, <3>3
      <3> QED BY <3>1, <3>2, <3>4
    <2> QED BY <1>2, <2>1, <2>2
  <1> QED BY <1>3, <1>4 DEF Lists, new, more

\* The key released leaves its entry and no gap.
LEMMA ListsReleased ==
    ASSUME NEW seq, Entries(seq), NEW ks, NEW ord \in Seq(Keys), NEW km, NEW k \in ks,
           Distinct(ord), Has(ord, k),
           \A l \in ks : l # k => km[l].usage # km[k].usage, Lists(seq, ks, ord, km)
    PROVE  Lists(Emptied(seq, km[k].usage), ks \ {k}, Without(ord, k), km)
  <1> DEFINE less == Emptied(seq, km[k].usage)
             new == Without(ord, k)
  <1>1. \A i, j \in 1 .. Len(ord) : ord[i] # k /\ ord[j] # k /\ i <= j =>
           \E m, n \in 1 .. Len(new) : (i < j => m < n) /\ new[m] = ord[i] /\ new[n] = ord[j]
    BY ReleaseOrder
  <1>2. /\ \A v : Has(less, v) <=> v # km[k].usage /\ Has(seq, v)
        /\ \A i, j \in 1 .. Len(less) : i < j =>
              \E m, n \in 1 .. Len(seq) : m < n /\ less[i] = seq[m] /\ less[j] = seq[n]
    BY EmptiedOrder
  <1>3. \A i \in 1 .. Len(less) : less[i] # km[k].usage
    BY EmptiedEntries
  <1> HIDE DEF new, less
  <1>4. ASSUME NEW v PROVE Has(less, v) <=> \E l \in ks \ {k} : km[l].usage = v
    BY <1>2 DEF Lists
  <1>5. ASSUME NEW i \in 1 .. Len(less), NEW j \in 1 .. Len(less), i < j
        PROVE  \E m, n \in 1 .. Len(new) :
                  /\ m < n /\ {new[m], new[n]} \subseteq ks \ {k}
                  /\ km[new[m]].usage = less[i] /\ km[new[n]].usage = less[j]
    <2>1. PICK m \in 1 .. Len(seq), n \in 1 .. Len(seq) :
             m < n /\ less[i] = seq[m] /\ less[j] = seq[n]
      BY <1>2, <1>5
    <2>2. PICK p \in 1 .. Len(ord), q \in 1 .. Len(ord) :
             /\ p < q /\ {ord[p], ord[q]} \subseteq ks
             /\ km[ord[p]].usage = seq[m] /\ km[ord[q]].usage = seq[n]
      BY <2>1 DEF Lists
    <2>3. ord[p] # k /\ ord[q] # k /\ p <= q
      BY <1>3, <2>1, <2>2
    <2>4. PICK a \in 1 .. Len(new), b \in 1 .. Len(new) :
             a < b /\ new[a] = ord[p] /\ new[b] = ord[q]
      BY <1>1, <2>2, <2>3
    <2> QED BY <2>1, <2>2, <2>3, <2>4
  <1> QED BY <1>4, <1>5 DEF Lists, new, less
\* The codes of other keys do not matter.
LEMMA ListsRemapped ==
    ASSUME NEW seq, NEW ks, NEW ord, NEW km, NEW kn, \A l \in ks : kn[l] = km[l],
           Lists(seq, ks, ord, km)
    PROVE  Lists(seq, ks, ord, kn)
  <1>1. ASSUME NEW v PROVE Has(seq, v) <=> \E k \in ks : kn[k].usage = v
    BY DEF Lists
  <1>2. ASSUME NEW i \in 1 .. Len(seq), NEW j \in 1 .. Len(seq), i < j
        PROVE  \E m, n \in 1 .. Len(ord) :
                  /\ m < n /\ {ord[m], ord[n]} \subseteq ks
                  /\ kn[ord[m]].usage = seq[i] /\ kn[ord[n]].usage = seq[j]
    <2>1. PICK m \in 1 .. Len(ord), n \in 1 .. Len(ord) :
             /\ m < n /\ {ord[m], ord[n]} \subseteq ks
             /\ km[ord[m]].usage = seq[i] /\ km[ord[n]].usage = seq[j]
      BY <1>2 DEF Lists
    <2> QED BY <2>1
  <1> QED BY <1>1, <1>2 DEF Lists

\* The same, in the terms of the property.
LEMMA ListsHeldIs ==
    ASSUME NEW seq, NEW op
    PROVE  ListsHeld(seq, op) <=> Lists(seq, HeldWith(op), order, keymap)
  <1>1. {seq[i] : i \in 1 .. Len(seq)} = {keymap[k].usage : k \in HeldWith(op)}
        <=> \A v : Has(seq, v) <=> \E k \in HeldWith(op) : keymap[k].usage = v
    BY DEF Has
  <1> QED BY <1>1 DEF ListsHeld, Lists
BitsOf(ks, km) == UNION {km[k].bits : k \in ks}
UsagesOf(ks, km) == {km[k].usage : k \in ks}

LEMMA BitsPressed ==
    ASSUME NEW ks, NEW km, NEW k
    PROVE  BitsOf(ks \cup {k}, km) = BitsOf(ks, km) \cup km[k].bits
  BY DEF BitsOf

LEMMA BitsReleased ==
    ASSUME NEW ks, NEW km, NEW k \in ks,
           \A l \in ks : l # k => km[l].bits \cap km[k].bits = {}
    PROVE  BitsOf(ks \ {k}, km) = BitsOf(ks, km) \ km[k].bits
  <1>1. ASSUME NEW b PROVE b \in BitsOf(ks \ {k}, km) <=> b \in BitsOf(ks, km) \ km[k].bits
    <2>1. \A l \in ks \ {k} : b \in km[l].bits => b \notin km[k].bits
      OBVIOUS
    <2>2. b \in BitsOf(ks \ {k}, km) <=> \E l \in ks \ {k} : b \in km[l].bits
      BY DEF BitsOf
    <2>3. b \in BitsOf(ks, km) <=> \E l \in ks : b \in km[l].bits
      BY DEF BitsOf
    <2> QED BY <2>1, <2>2, <2>3
  <1> QED BY <1>1

LEMMA UsagesPressed ==
    ASSUME NEW ks, NEW km, NEW k
    PROVE  UsagesOf(ks \cup {k}, km) = UsagesOf(ks, km) \cup {km[k].usage}
  BY DEF UsagesOf

LEMMA UsagesReleased ==
    ASSUME NEW ks, NEW km, NEW k \in ks,
           \A l \in ks : l # k => km[l].usage # km[k].usage
    PROVE  UsagesOf(ks \ {k}, km) = UsagesOf(ks, km) \ {km[k].usage}
  BY DEF UsagesOf

InOrder ==
    /\ Lists(slots, HeldWith("keyboard"), order, keymap)
    /\ Lists(consumer, HeldWith("consumer"), order, keymap)
    /\ virtual = BitsOf(HeldWith("keyboard"), keymap)
    /\ real = BitsOf(HeldWith("modifier"), keymap)
    /\ buttons["keys"] = BitsOf(HeldWith("button"), keymap)
    /\ moving = UsagesOf(HeldWith("move"), keymap)

\* What is kept while keys do not get in each other's way.
OrderInv == OrderHeld /\ (~remapped /\ ~crowded => InOrder /\ Apart)

LEMMA RolloverFollows == OrderInv => RolloverInOrder
  BY ListsHeldIs DEF OrderInv, InOrder, RolloverInOrder, BitsOf, UsagesOf

LEMMA OrderUnchanged ==
    ASSUME OrderInv, UNCHANGED <<keymap, held, order, crowded, remapped,
                                 real, virtual, slots, consumer, moving>>,
           buttons'["keys"] = buttons["keys"]
    PROVE  OrderInv'
  <1>1. \A op : HeldWith(op)' = HeldWith(op)
    BY DEF HeldWith
  <1>2. OrderHeld' /\ (Apart => Apart')
    BY DEF OrderInv, OrderHeld, Apart, Distinct
  <1>3. InOrder => InOrder'
    BY <1>1 DEF InOrder
  <1> QED BY <1>2, <1>3 DEF OrderInv

LEMMA PressKeepsOrder ==
    ASSUME KeyInv, OrderInv, NEW k \in Keys, PressKey(k)
    PROVE  OrderInv'
  <1> DEFINE c == keymap[k]
             With(op) == IF c.op = op THEN HeldWith(op) \cup {k} ELSE HeldWith(op)
  <1>1. /\ k \in DOMAIN keymap \ held /\ c \in Codes /\ held' = held \cup {k}
        /\ order' = Append(order, k) /\ UNCHANGED <<keymap, remapped>>
        /\ Process(c, TRUE) /\ crowded' = (crowded \/ Crowded(c))
    BY DEF PressKey, KeyInv, KeyTypes
  <1>2. /\ order \in Seq(Keys) /\ Distinct(order) /\ ~Has(order, k)
        /\ held = {order[i] : i \in 1 .. Len(order)}
    BY <1>1 DEF OrderInv, OrderHeld, Has
  <1>3. OrderHeld'
    <2>1. /\ Append(order, k) \in Seq(Keys) /\ Distinct(Append(order, k))
          /\ Len(Append(order, k)) = Len(order) + 1 /\ Len(order) \in Nat
          /\ \A i \in 1 .. Len(order) : Append(order, k)[i] = order[i]
          /\ Append(order, k)[Len(order) + 1] = k
      BY <1>2, PressOrder
    <2>2. order' \in Seq(Keys) /\ Distinct(order)'
      BY <1>1, <2>1 DEF Distinct
    <2>3. held' = {order'[i] : i \in 1 .. Len(order')}
      <3>1. ASSUME NEW x PROVE x \in held \cup {k} <=> \E i \in 1 .. Len(order') : x = order'[i]
        BY <1>1, <1>2, <2>1
      <3> QED BY <1>1, <3>1
    <2> QED BY <2>2, <2>3 DEF OrderHeld
  <1>4. \A op : HeldWith(op)' = With(op)
    BY <1>1 DEF HeldWith
  <1>5. \A op : HeldWith(op) \subseteq {order[i] : i \in 1 .. Len(order)}
    BY <1>2 DEF HeldWith
  <1>6. ASSUME ~remapped', ~crowded' PROVE InOrder' /\ Apart'
    <2>1. InOrder /\ Apart /\ ~Crowded(c)
      BY <1>1, <1>6 DEF OrderInv
    <2>2. ASSUME NEW l \in held, keymap[l].op = c.op
          PROVE  /\ c.op \in {"keyboard", "consumer", "move"} => keymap[l].usage # c.usage
                 /\ c.op \in {"keyboard", "modifier", "button"} => keymap[l].bits \cap c.bits = {}
      <3>1. l \in HeldWith(c.op)
        BY <2>2 DEF HeldWith
      <3>2. CASE c.op = "keyboard"
        BY <2>1, <3>1, <3>2 DEF InOrder, Lists, Crowded, BitsOf
      <3>3. CASE c.op = "consumer"
        BY <2>1, <3>1, <3>3 DEF InOrder, Lists, Crowded
      <3>4. CASE c.op \in {"modifier", "button", "move"}
        BY <2>1, <3>1, <3>4 DEF InOrder, Crowded, BitsOf, UsagesOf
      <3> QED BY <3>2, <3>3, <3>4
    <2>3. Apart'
      BY <1>1, <2>1, <2>2 DEF Apart
    <2>4. ASSUME NEW seq, NEW op, Lists(seq, HeldWith(op), order, keymap)
          PROVE  Lists(seq, HeldWith(op), order', keymap)
      BY <1>1, <1>2, <2>4, ListsOtherPressed
    <2>5. ASSUME NEW seq, seq \in Seq(Usages), NEW op, Lists(seq, HeldWith(op), order, keymap)
          PROVE  Lists(Append(seq, c.usage), HeldWith(op) \cup {k}, order', keymap)
      BY <1>1, <1>2, <1>5, <2>5, CodeTypes, ListsPressed
    <2>6. c.op = "keyboard" \/ Lists(slots, HeldWith("keyboard"), order', keymap)
      BY <2>1, <2>4 DEF InOrder
    <2>7. c.op = "consumer" \/ Lists(consumer, HeldWith("consumer"), order', keymap)
      BY <2>1, <2>4 DEF InOrder
    <2> HIDE DEF c
    <2>8. CASE c.op = "keyboard" /\ KeyboardKey(c, TRUE)
      <3>1. slots' = Append(slots, c.usage)
        BY <2>1, <2>8 DEF KeyboardKey, Filled, Crowded
      <3>2. Lists(slots', HeldWith("keyboard") \cup {k}, order', keymap)
        BY <2>1, <2>5, <3>1 DEF InOrder, KeyInv, KeyTypes, Entries
      <3>3. virtual' = virtual \cup c.bits /\ UNCHANGED <<real, consumer, buttons, moving>>
        BY <2>8 DEF KeyboardKey, mouse
      <3>4. virtual' = BitsOf(HeldWith("keyboard") \cup {k}, keymap)
        BY <2>1, <3>3, BitsPressed DEF InOrder, c
      <3>5. /\ HeldWith("keyboard")' = HeldWith("keyboard") \cup {k}
            /\ \A op \in {"modifier", "consumer", "button", "move"} : HeldWith(op)' = HeldWith(op)
        BY <1>4, <2>8 DEF c
      <3>6. InOrder'
        BY <1>1, <2>1, <2>7, <2>8, <3>2, <3>3, <3>4, <3>5 DEF InOrder
      <3> QED BY <2>3, <3>6
    <2>9. CASE c.op = "modifier" /\ ModifierKey(c, TRUE)
      <3>1. real' = real \cup c.bits /\ UNCHANGED <<virtual, slots, consumer, buttons, moving>>
        BY <2>9 DEF ModifierKey, mouse
      <3>2. real' = BitsOf(HeldWith("modifier") \cup {k}, keymap)
        BY <2>1, <3>1, BitsPressed DEF InOrder, c
      <3>3. InOrder'
        BY <1>1, <1>4, <2>1, <2>6, <2>7, <2>9, <3>1, <3>2 DEF InOrder
      <3> QED BY <2>3, <3>3
    <2>10. CASE c.op = "consumer" /\ ConsumerKey(c, TRUE)
      <3>1. consumer' = Append(consumer, c.usage)
        BY <2>1, <2>10 DEF ConsumerKey, Filled, Crowded
      <3>2. Lists(consumer', HeldWith("consumer") \cup {k}, order', keymap)
        BY <2>1, <2>5, <3>1 DEF InOrder, KeyInv, KeyTypes, Entries
      <3>3. UNCHANGED <<real, virtual, slots, buttons, moving>>
        BY <2>10 DEF ConsumerKey, mouse
      <3>4. InOrder'
        BY <1>1, <1>4, <2>1, <2>6, <2>10, <3>2, <3>3 DEF InOrder
      <3> QED BY <2>3, <3>4
    <2>11. CASE c.op = "button" /\ ButtonKey(c, TRUE)
      <3>1. buttons'["keys"] = buttons["keys"] \cup c.bits
        BY <2>11 DEF ButtonKey, KeyInv, KeyTypes, Devices
      <3>2. UNCHANGED <<real, virtual, slots, consumer, moving>>
        BY <2>11 DEF ButtonKey
      <3>3. buttons'["keys"] = BitsOf(HeldWith("button") \cup {k}, keymap)
        BY <2>1, <3>1, BitsPressed DEF InOrder, c
      <3>4. InOrder'
        BY <1>1, <1>4, <2>1, <2>6, <2>7, <2>11, <3>2, <3>3 DEF InOrder
      <3> QED BY <2>3, <3>4
    <2>12. CASE c.op = "move" /\ MoveKey(c, TRUE)
      <3>1. moving' = moving \cup {c.usage} /\ UNCHANGED <<real, virtual, slots, consumer, buttons>>
        BY <2>12 DEF MoveKey
      <3>2. moving' = UsagesOf(HeldWith("move") \cup {k}, keymap)
        BY <2>1, <3>1, UsagesPressed DEF InOrder, c
      <3>3. /\ HeldWith("move")' = HeldWith("move") \cup {k}
            /\ \A op \in {"keyboard", "modifier", "consumer", "button"} : HeldWith(op)' = HeldWith(op)
        BY <1>4, <2>12 DEF c
      <3>4. InOrder'
        BY <1>1, <2>1, <2>6, <2>7, <2>12, <3>1, <3>2, <3>3 DEF InOrder
      <3> QED BY <2>3, <3>4
    <2>13. CASE c.op \in {"system", "other"} /\ UNCHANGED hid
      <3>1. UNCHANGED <<real, virtual, slots, consumer, buttons, moving>>
        BY <2>13 DEF hid, mouse
      <3>2. InOrder'
        BY <1>1, <1>4, <2>1, <2>6, <2>7, <2>13, <3>1 DEF InOrder
      <3> QED BY <2>3, <3>2
    <2> QED BY <1>1, <2>8, <2>9, <2>10, <2>11, <2>12, <2>13 DEF Process
  <1> QED BY <1>3, <1>6 DEF OrderInv
LEMMA ReleaseKeepsOrder ==
    ASSUME KeyInv, KeyInv', OrderInv, NEW k \in Keys, ReleaseKey(k)
    PROVE  OrderInv'
  <1> DEFINE c == keymap[k]
             With(op) == IF c.op = op THEN HeldWith(op) \ {k} ELSE HeldWith(op)
  <1>1. /\ k \in held /\ c \in Codes /\ held' = held \ {k}
        /\ order' = Without(order, k) /\ UNCHANGED <<keymap, remapped>>
        /\ Process(c, FALSE) /\ crowded' = (crowded /\ held' # {})
    BY DEF ReleaseKey, KeyInv, KeyTypes
  <1>2. /\ order \in Seq(Keys) /\ Distinct(order) /\ Has(order, k)
        /\ held = {order[i] : i \in 1 .. Len(order)}
    BY <1>1 DEF OrderInv, OrderHeld, Has
  <1>3. OrderHeld'
    <2>1. /\ order' \in Seq(Keys) /\ Distinct(order)'
          /\ \A i \in 1 .. Len(order') :
                order'[i] # k /\ \E j \in 1 .. Len(order) : order'[i] = order[j]
          /\ \A i, j \in 1 .. Len(order) : order[i] # k /\ order[j] # k /\ i <= j =>
                \E m, n \in 1 .. Len(order') :
                   (i < j => m < n) /\ order'[m] = order[i] /\ order'[n] = order[j]
      <3> HIDE DEF c
      <3> DEFINE new == Without(order, k)
      <3>1. /\ new \in Seq(Keys) /\ Distinct(new)
            /\ \A i \in 1 .. Len(new) : new[i] # k /\ \E j \in 1 .. Len(order) : new[i] = order[j]
            /\ \A i, j \in 1 .. Len(order) : order[i] # k /\ order[j] # k /\ i <= j =>
                  \E m, n \in 1 .. Len(new) :
                     (i < j => m < n) /\ new[m] = order[i] /\ new[n] = order[j]
        BY <1>2, ReleaseOrder
      <3>2. order' = new
        BY <1>1
      <3> HIDE DEF new
      <3>3. Distinct(order)'
        BY <3>1, <3>2 DEF Distinct
      <3> QED BY <3>1, <3>2, <3>3
    <2>2. ASSUME NEW x PROVE x \in held \ {k} <=> \E i \in 1 .. Len(order') : x = order'[i]
      <3>1. ASSUME NEW i \in 1 .. Len(order), x = order[i], x # k
            PROVE  \E m \in 1 .. Len(order') : x = order'[m]
        <4>1. Len(order) \in Nat
          BY <1>2, LenProperties
        <4>2. i <= i
          BY <4>1
        <4> QED BY <2>1, <3>1, <4>2
      <3>2. ASSUME NEW i \in 1 .. Len(order'), x = order'[i]
            PROVE  x \in held \ {k}
        BY <1>2, <2>1, <3>2
      <3> QED BY <1>2, <3>1, <3>2
    <2>3. held' = {order'[i] : i \in 1 .. Len(order')}
      BY <1>1, <2>2
    <2> QED BY <2>1, <2>3 DEF OrderHeld
  <1>4. \A op : HeldWith(op)' = With(op)
    BY <1>1 DEF HeldWith
  <1>5. ASSUME ~remapped', ~crowded', held' = {} PROVE InOrder' /\ Apart'
    <2>1. \A op : HeldWith(op)' = {}
      BY <1>5 DEF HeldWith
    <2>2. /\ \A i \in 1 .. Len(slots') : FALSE
          /\ \A i \in 1 .. Len(consumer') : FALSE
          /\ virtual' = {} /\ real' = {} /\ buttons'["keys"] = {} /\ moving' = {}
      BY <1>5, <2>1 DEF KeyInv, NoPhantomKey
    <2>3. Lists(slots', {}, order', keymap') /\ Lists(consumer', {}, order', keymap')
      BY <2>2 DEF Lists, Has
    <2>4. BitsOf({}, keymap') = {} /\ UsagesOf({}, keymap') = {}
      BY DEF BitsOf, UsagesOf
    <2>5. InOrder'
      BY <2>1, <2>2, <2>3, <2>4 DEF InOrder
    <2> QED BY <1>5, <2>5 DEF Apart
  <1>6. ASSUME ~remapped', ~crowded', held' # {} PROVE InOrder' /\ Apart'
    <2>1. InOrder /\ Apart
      BY <1>1, <1>6 DEF OrderInv
    <2>2. Apart'
      BY <1>1, <2>1 DEF Apart
    <2>3. ASSUME NEW l \in held, l # k, keymap[l].op = c.op
          PROVE  /\ c.op \in {"keyboard", "consumer", "move"} => keymap[l].usage # c.usage
                 /\ c.op \in {"keyboard", "modifier", "button"} => keymap[l].bits \cap c.bits = {}
      BY <1>1, <2>1, <2>3 DEF Apart
    <2>4. ASSUME NEW seq, NEW op, op # c.op, Lists(seq, HeldWith(op), order, keymap)
          PROVE  Lists(seq, HeldWith(op), order', keymap)
      <3>1. k \notin HeldWith(op)
        BY <2>4 DEF HeldWith
      <3> QED BY <1>1, <1>2, <2>4, <3>1, ListsOtherReleased
    <2>5. k \in HeldWith(c.op) /\ \A l \in HeldWith(c.op) : l \in held /\ keymap[l].op = c.op
      BY <1>1 DEF HeldWith
    <2>6. ASSUME NEW seq, Entries(seq), c.op \in {"keyboard", "consumer"},
                 Lists(seq, HeldWith(c.op), order, keymap)
          PROVE  Lists(Emptied(seq, c.usage), HeldWith(c.op) \ {k}, order', keymap)
      BY <1>1, <1>2, <2>3, <2>5, <2>6, ListsReleased
    <2>7. c.op = "keyboard" \/ Lists(slots, HeldWith("keyboard"), order', keymap)
      BY <2>1, <2>4 DEF InOrder
    <2>8. c.op = "consumer" \/ Lists(consumer, HeldWith("consumer"), order', keymap)
      BY <2>1, <2>4 DEF InOrder
    <2>9. ASSUME c.op \in {"keyboard", "modifier", "button"}
          PROVE  BitsOf(HeldWith(c.op) \ {k}, keymap) = BitsOf(HeldWith(c.op), keymap) \ c.bits
      BY <2>3, <2>5, <2>9, BitsReleased
    <2> HIDE DEF c
    <2>10. CASE c.op = "keyboard" /\ KeyboardKey(c, FALSE)
      <3>1. slots' = Emptied(slots, c.usage)
        BY <2>10 DEF KeyboardKey
      <3>2. Lists(slots', HeldWith("keyboard") \ {k}, order', keymap)
        BY <2>1, <2>6, <2>10, <3>1 DEF InOrder, KeyInv, KeyTypes
      <3>3. virtual' = virtual \ c.bits /\ UNCHANGED <<real, consumer, buttons, moving>>
        BY <2>10 DEF KeyboardKey, mouse
      <3>4. virtual' = BitsOf(HeldWith("keyboard") \ {k}, keymap)
        BY <2>1, <2>9, <2>10, <3>3 DEF InOrder
      <3>5. /\ HeldWith("keyboard")' = HeldWith("keyboard") \ {k}
            /\ \A op \in {"modifier", "consumer", "button", "move"} : HeldWith(op)' = HeldWith(op)
        BY <1>4, <2>10 DEF c
      <3>6. InOrder'
        BY <1>1, <2>1, <2>8, <2>10, <3>2, <3>3, <3>4, <3>5 DEF InOrder
      <3> QED BY <2>2, <3>6
    <2>11. CASE c.op = "modifier" /\ ModifierKey(c, FALSE)
      <3>1. real' = real \ c.bits /\ UNCHANGED <<virtual, slots, consumer, buttons, moving>>
        BY <2>11 DEF ModifierKey, mouse
      <3>2. real' = BitsOf(HeldWith("modifier") \ {k}, keymap)
        BY <2>1, <2>9, <2>11, <3>1 DEF InOrder
      <3>3. /\ HeldWith("modifier")' = HeldWith("modifier") \ {k}
            /\ \A op \in {"keyboard", "consumer", "button", "move"} : HeldWith(op)' = HeldWith(op)
        BY <1>4, <2>11 DEF c
      <3>4. InOrder'
        BY <1>1, <2>1, <2>7, <2>8, <2>11, <3>1, <3>2, <3>3 DEF InOrder
      <3> QED BY <2>2, <3>4
    <2>12. CASE c.op = "consumer" /\ ConsumerKey(c, FALSE)
      <3>1. consumer' = Emptied(consumer, c.usage)
        BY <2>12 DEF ConsumerKey
      <3>2. Lists(consumer', HeldWith("consumer") \ {k}, order', keymap)
        BY <2>1, <2>6, <2>12, <3>1 DEF InOrder, KeyInv, KeyTypes
      <3>3. UNCHANGED <<real, virtual, slots, buttons, moving>>
        BY <2>12 DEF ConsumerKey, mouse
      <3>4. /\ HeldWith("consumer")' = HeldWith("consumer") \ {k}
            /\ \A op \in {"keyboard", "modifier", "button", "move"} : HeldWith(op)' = HeldWith(op)
        BY <1>4, <2>12 DEF c
      <3>5. InOrder'
        BY <1>1, <2>1, <2>7, <2>12, <3>2, <3>3, <3>4 DEF InOrder
      <3> QED BY <2>2, <3>5
    <2>13. CASE c.op = "button" /\ ButtonKey(c, FALSE)
      <3>1. buttons'["keys"] = buttons["keys"] \ c.bits
        BY <2>13 DEF ButtonKey, KeyInv, KeyTypes, Devices
      <3>2. UNCHANGED <<real, virtual, slots, consumer, moving>>
        BY <2>13 DEF ButtonKey
      <3>3. buttons'["keys"] = BitsOf(HeldWith("button") \ {k}, keymap)
        BY <2>1, <2>9, <2>13, <3>1 DEF InOrder
      <3>4. /\ HeldWith("button")' = HeldWith("button") \ {k}
            /\ \A op \in {"keyboard", "modifier", "consumer", "move"} : HeldWith(op)' = HeldWith(op)
        BY <1>4, <2>13 DEF c
      <3>5. InOrder'
        BY <1>1, <2>1, <2>7, <2>8, <2>13, <3>2, <3>3, <3>4 DEF InOrder
      <3> QED BY <2>2, <3>5
    <2>14. CASE c.op = "move" /\ MoveKey(c, FALSE)
      <3>1. moving' = moving \ {c.usage} /\ UNCHANGED <<real, virtual, slots, consumer, buttons>>
        BY <2>14 DEF MoveKey
      <3>2. moving' = UsagesOf(HeldWith("move") \ {k}, keymap)
        BY <2>1, <2>3, <2>5, <2>14, <3>1, UsagesReleased DEF InOrder, c
      <3>3. /\ HeldWith("move")' = HeldWith("move") \ {k}
            /\ \A op \in {"keyboard", "modifier", "consumer", "button"} : HeldWith(op)' = HeldWith(op)
        BY <1>4, <2>14 DEF c
      <3>4. InOrder'
        BY <1>1, <2>1, <2>7, <2>8, <2>14, <3>1, <3>2, <3>3 DEF InOrder
      <3> QED BY <2>2, <3>4
    <2>15. CASE c.op \in {"system", "other"} /\ UNCHANGED hid
      <3>1. UNCHANGED <<real, virtual, slots, consumer, buttons, moving>>
        BY <2>15 DEF hid, mouse
      <3>2. \A op \in {"keyboard", "modifier", "consumer", "button", "move"} :
               HeldWith(op)' = HeldWith(op)
        BY <1>4, <2>15 DEF c
      <3>3. InOrder'
        BY <1>1, <2>1, <2>7, <2>8, <2>15, <3>1, <3>2 DEF InOrder
      <3> QED BY <2>2, <3>3
    <2> QED BY <1>1, <2>10, <2>11, <2>12, <2>13, <2>14, <2>15 DEF Process
  <1> QED BY <1>3, <1>5, <1>6 DEF OrderInv
LEMMA OrderNext == KeyInv /\ KeyInv' /\ OrderInv /\ [Next]_vars => OrderInv'
  <1> SUFFICES ASSUME KeyInv, KeyInv', OrderInv, [Next]_vars PROVE OrderInv'
    OBVIOUS
  <1> USE DEF hid, mouse, keys
  <1>1. CASE TickStart \/ UsbMount \/ BleConnect \/ BleDisconnect \/ Decide \/ UNCHANGED vars
    BY <1>1, OrderUnchanged DEF TickStart, UsbMount, BleConnect, BleDisconnect, Decide, vars
  <1>2. ASSUME NEW k \in Keys, PressKey(k) PROVE OrderInv'
    BY <1>2, PressKeepsOrder
  <1>3. ASSUME NEW k \in Keys, ReleaseKey(k) PROVE OrderInv'
    BY <1>3, ReleaseKeepsOrder
  <1>4. CASE TickEnd
    <2>1. UNCHANGED <<real, virtual, slots, consumer, buttons, moving>>
      BY <1>4, SendNextKeepsKeys DEF TickEnd, SendUsb, KeyInv, KeyTypes
    <2> QED BY <1>4, <2>1, OrderUnchanged DEF TickEnd
  <1>5. ASSUME NEW k \in Keys, NEW c \in Codes, Remap(k, c) PROVE OrderInv'
    <2>1. /\ keymap' = [keymap EXCEPT ![k] = c] /\ remapped' = (remapped \/ k \in held)
          /\ UNCHANGED <<held, order, crowded, real, virtual, slots, consumer, buttons, moving>>
      BY <1>5 DEF Remap
    <2>2. OrderHeld'
      BY <2>1 DEF OrderInv, OrderHeld, Distinct
    <2>3. CASE k \in held
      BY <2>1, <2>2, <2>3 DEF OrderInv
    <2>4. CASE k \notin held
      <3>1. \A l \in held : keymap'[l] = keymap[l]
        BY <2>1, <2>4 DEF KeyInv, KeyTypes
      <3>2. \A op : HeldWith(op)' = HeldWith(op) /\ HeldWith(op) \subseteq held
        BY <2>1, <3>1 DEF HeldWith
      <3>3. ASSUME NEW op
            PROVE  /\ BitsOf(HeldWith(op), keymap') = BitsOf(HeldWith(op), keymap)
                   /\ UsagesOf(HeldWith(op), keymap') = UsagesOf(HeldWith(op), keymap)
        <4>1. \A l \in HeldWith(op) : keymap'[l] = keymap[l]
          BY <3>1, <3>2
        <4> QED BY <4>1 DEF BitsOf, UsagesOf
      <3>4. ASSUME NEW seq, NEW op, Lists(seq, HeldWith(op), order, keymap)
            PROVE  Lists(seq, HeldWith(op), order, keymap')
        <4>1. \A l \in HeldWith(op) : keymap'[l] = keymap[l]
          BY <3>1, <3>2
        <4> QED BY <3>4, <4>1, ListsRemapped
      <3>5. InOrder => InOrder'
        BY <2>1, <3>2, <3>3, <3>4 DEF InOrder
      <3>6. Apart => Apart'
        BY <2>1, <3>1 DEF Apart
      <3> QED BY <2>1, <2>2, <3>5, <3>6 DEF OrderInv
    <2> QED BY <2>3, <2>4
  <1>6. CASE UsbComplete
    <2>1. UNCHANGED <<real, virtual, slots, consumer, buttons, moving>>
      BY <1>6, SendNextKeepsKeys DEF UsbComplete, KeyInv, KeyTypes
    <2> QED BY <1>6, <2>1, OrderUnchanged DEF UsbComplete
  <1>7. CASE BleCanSend
    BY <1>7, OrderUnchanged DEF BleCanSend, Take
  <1>8. CASE TrackpadEvents
    <2>1. buttons'["keys"] = buttons["keys"]
      BY <1>8 DEF TrackpadEvents, ReadTrackpad, TakeSample, TrackpadFails, KeyInv, KeyTypes, Devices
    <2> QED BY <1>8, <2>1, OrderUnchanged DEF TrackpadEvents
  <1>9. ASSUME NEW p \in Packets, TouchArrives(p) PROVE OrderInv'
    BY <1>9, OrderUnchanged DEF TouchArrives
  <1> QED BY <1>1, <1>2, <1>3, <1>4, <1>5, <1>6, <1>7, <1>8, <1>9 DEF Next

LEMMA OrderInit == Init => OrderInv
  <1> SUFFICES ASSUME Init PROVE OrderInv
    OBVIOUS
  <1>1. OrderHeld
    BY DEF Init, OrderHeld, Distinct
  <1>2. \A op : HeldWith(op) = {}
    BY DEF Init, HeldWith
  <1>3. Lists(<<>>, {}, <<>>, keymap) /\ BitsOf({}, keymap) = {} /\ UsagesOf({}, keymap) = {}
    BY DEF Lists, Has, BitsOf, UsagesOf
  <1>4. InOrder
    BY <1>2, <1>3 DEF Init, InOrder, Devices
  <1> QED BY <1>1, <1>4 DEF Init, OrderInv, Apart

\* While no two held keys want the same place, a report shows exactly the
\* keys held, its entries in the order in which they were pressed.
THEOREM EntriesInOrder == Spec => []RolloverInOrder
  <1> DEFINE Inv == KeyInv /\ MotionInv /\ OrderInv
  <1>1. Init => Inv
    BY KeyInit, MotionInit, OrderInit
  <1>2. Inv /\ [Next]_vars => Inv'
    BY KeyNext, MotionNext, OrderNext DEF MotionInv
  <1>3. Inv => RolloverInOrder
    BY RolloverFollows
  <1> QED BY <1>1, <1>2, <1>3, PTL DEF Spec

-----------------------------------------------------------------------------
(* What a host knows.                                                      *)

HidInv == KeyInv /\ MotionInv /\ ReportedInv /\ OrderInv

LEMMA HidInvariant == Spec => []HidInv
  <1>1. Init => HidInv
    BY KeyInit, MotionInit, OrderInit DEF HidInv, Init, ReportedInv, NothingForgotten, None
  <1>2. HidInv /\ [Next]_vars => HidInv'
    BY KeyNext, MotionNext, ReportedNext, OrderNext DEF HidInv, MotionInv
  <1> QED BY <1>1, <1>2, PTL DEF Spec

\* What was sent last, where nothing waits to be sent, shows keys that are
\* held; and just those, in order, while they do not get in each other's way.
ToldAsHeld ==
    ~remapped =>
        /\ ~pending["keyboard"] =>
              /\ \A i \in 1 .. Len(sent["keyboard"].keys) :
                    \E k \in HeldWith("keyboard") : keymap[k].usage = sent["keyboard"].keys[i]
              /\ \A b \in sent["keyboard"].mods :
                    \E k \in HeldWith("keyboard") \cup HeldWith("modifier") : b \in keymap[k].bits
              /\ ~crowded =>
                    /\ ListsHeld(sent["keyboard"].keys, "keyboard")
                    /\ sent["keyboard"].mods =
                          UNION {keymap[k].bits : k \in HeldWith("keyboard") \cup HeldWith("modifier")}
        /\ ~pending["consumer"] =>
              /\ \A i \in 1 .. Len(sent["consumer"].keys) :
                    \E k \in HeldWith("consumer") : keymap[k].usage = sent["consumer"].keys[i]
              /\ ~crowded => ListsHeld(sent["consumer"].keys, "consumer")
        /\ ~pending["mouse"] =>
              \A b \in sent["mouse"].buttons \ buttons["pad"] :
                 \E k \in HeldWith("button") : b \in keymap[k].bits

\* Once every finger is up and what there was to send is sent, the host that
\* got it last is left with nothing pressed, and the pointer rests.
NothingLeftPressed ==
    held = {} /\ ~remapped =>
        /\ ~pending["keyboard"] => sent["keyboard"] = [mods |-> {}, keys |-> <<>>]
        /\ ~pending["consumer"] => sent["consumer"] = [keys |-> <<>>]
        /\ ~pending["mouse"] => sent["mouse"].buttons = buttons["pad"]
        /\ Asked = NoMotion

\* What a kind was last taken out as.
LEMMA SentIs ==
    ASSUME ReportedInv
    PROVE  /\ ~pending["keyboard"] => sent["keyboard"] = [mods |-> real \cup virtual, keys |-> slots]
           /\ ~pending["consumer"] => sent["consumer"] = [keys |-> consumer]
           /\ ~pending["mouse"] => sent["mouse"] = [buttons |-> buttons["keys"] \cup buttons["pad"]]
  BY DEF ReportedInv, NothingForgotten, Kinds, Report

\* The last report, over whichever transport, is of the keys under fingers:
\* event_process, event_pop_hid_report and the flags between them.
THEOREM HostKnowsTheFingers == Spec => []ToldAsHeld
  <1>1. HidInv => ToldAsHeld
    <2> SUFFICES ASSUME HidInv, ~remapped PROVE ToldAsHeld
      BY DEF ToldAsHeld
    <2>1. NoPhantomKey /\ RolloverInOrder
      BY RolloverFollows DEF HidInv, KeyInv
    <2>2. ~crowded => real \cup virtual =
             UNION {keymap[k].bits : k \in HeldWith("keyboard") \cup HeldWith("modifier")}
      BY <2>1 DEF RolloverInOrder
    <2>3. \A b \in real \cup virtual :
             \E k \in HeldWith("keyboard") \cup HeldWith("modifier") : b \in keymap[k].bits
      BY <2>1 DEF NoPhantomKey
    <2>4. ~pending["keyboard"] =>
             /\ \A i \in 1 .. Len(sent["keyboard"].keys) :
                   \E k \in HeldWith("keyboard") : keymap[k].usage = sent["keyboard"].keys[i]
             /\ ~crowded => ListsHeld(sent["keyboard"].keys, "keyboard")
             /\ sent["keyboard"].mods = real \cup virtual
      BY <2>1, SentIs DEF HidInv, NoPhantomKey, RolloverInOrder
    <2>5. ~pending["consumer"] =>
             /\ \A i \in 1 .. Len(sent["consumer"].keys) :
                   \E k \in HeldWith("consumer") : keymap[k].usage = sent["consumer"].keys[i]
             /\ ~crowded => ListsHeld(sent["consumer"].keys, "consumer")
      BY <2>1, SentIs DEF HidInv, NoPhantomKey, RolloverInOrder
    <2>6. ~pending["mouse"] =>
             \A b \in sent["mouse"].buttons \ buttons["pad"] :
                \E k \in HeldWith("button") : b \in keymap[k].bits
      BY <2>1, SentIs DEF HidInv, NoPhantomKey
    <2> QED BY <2>2, <2>3, <2>4, <2>5, <2>6 DEF ToldAsHeld
  <1> QED BY <1>1, HidInvariant, PTL

LEMMA NoEntries ==
    ASSUME NEW seq, Entries(seq), \A i \in 1 .. Len(seq) : FALSE
    PROVE  seq = <<>>
  BY DEF Entries

\* No key sticks at a host once all are up, whatever mixture of shared codes,
\* modifiers and overflowing entries went before.
THEOREM NoKeySticks == Spec => []NothingLeftPressed
  <1>1. HidInv => NothingLeftPressed
    <2> SUFFICES ASSUME HidInv, ~remapped, held = {} PROVE NothingLeftPressed
      BY DEF NothingLeftPressed
    <2>1. /\ \A i \in 1 .. Len(slots) : FALSE
          /\ \A i \in 1 .. Len(consumer) : FALSE
          /\ real = {} /\ virtual = {} /\ buttons["keys"] = {} /\ moving = {}
      BY DEF HidInv, KeyInv, NoPhantomKey, HeldWith
    <2>2. slots = <<>> /\ consumer = <<>>
      BY <2>1, NoEntries DEF HidInv, KeyInv, KeyTypes
    <2>3. Asked = NoMotion
      <3>1. MoveDelta \in Int /\ WheelDelta \in Int
        BY MouseAssumption, PointingAssumption DEF Word
      <3>2. \A a \in Axes : Asked[a] = 0
        BY <2>1, <3>1 DEF Asked
      <3> QED BY <3>2 DEF Asked, NoMotion
    <2> QED BY <2>1, <2>2, <2>3, SentIs DEF HidInv, NothingLeftPressed
  <1> QED BY <1>1, HidInvariant, PTL

-----------------------------------------------------------------------------
(* The pointer at the host.                                                *)

\* Where no movement is ready to be sent, what fingers moved and what hosts
\* were told differ by less than a threshold for each device.
PointerKeepsUp ==
    exact /\ sample = {} /\ ~MotionReady(delta) =>
        \A a \in Axes : /\ owed[a] <= 2 * (Threshold(a) - 1)
                        /\ owed[a] >= -(2 * (Threshold(a) - 1))

\* The rests of hid_mouse_to_report_and_consume never add up to a drift, for
\* any thresholds, any mixture of the two devices and any length of time.
THEOREM PointerDoesNotDrift == Spec => []PointerKeepsUp
  <1>1. MotionInv => PointerKeepsUp
    <2> SUFFICES ASSUME MotionInv, exact, sample = {}, ~MotionReady(delta), NEW a \in Axes
                 PROVE  /\ owed[a] <= 2 * (Threshold(a) - 1)
                        /\ owed[a] >= -(2 * (Threshold(a) - 1))
      BY DEF PointerKeepsUp
    <2> DEFINE t == Threshold(a)
               k == delta["keys"][a]
               p == delta["pad"][a]
    <2>1. owed[a] = k + p + 0
      BY DEF MotionInv, MotionKept
    <2>2. k \in Int /\ p \in Int /\ t \in Int
      BY MotionOperators, PointingAssumption DEF MotionInv, MotionTypes, Devices, Word
    <2>3. ~Reached(k, t) /\ ~Reached(p, t)
      BY DEF MotionReady, Devices
    <2> HIDE DEF k, p, t
    <2>4. owed[a] <= 2 * (t - 1) /\ owed[a] >= -(2 * (t - 1))
      BY <2>1, <2>2, <2>3 DEF Reached
    <2> QED BY <2>4 DEF t
  <1>2. Spec => []MotionInv
    BY MotionInit, MotionNext, PTL DEF Spec
  <1> QED BY <1>1, <1>2, PTL

-----------------------------------------------------------------------------
(* Taking reports out comes to an end.                                     *)

\* A report in the endpoint is one of a chain that will go on.
ChainCovers == busy \in BOOLEAN /\ chain \in BOOLEAN /\ (busy => chain)

\* Every turn USB gets takes out one kind that was ready, the keyboard's
\* first, and makes nothing else ready; a turn of BLE takes out all there is.
ReportsRunOut ==
    [][/\ BleCanSend => Ready' = {}
       /\ \/ UsbComplete
          \/ TickEnd /\ use = "usb" /\ mounted /\ ~busy
          => (HasEvent => NextKind \in Ready /\ Ready' = Ready \ {NextKind})]_vars

LEMMA ChainNext == ChainCovers /\ [Next]_vars => ChainCovers'
  <1> SUFFICES ASSUME ChainCovers, [Next]_vars PROVE ChainCovers'
    OBVIOUS
  <1> USE DEF ChainCovers
  <1>1. CASE UNCHANGED <<busy, chain>>
    BY <1>1
  <1>2. CASE SendNext
    BY <1>2 DEF SendNext
  <1>3. CASE UsbMount
    BY <1>3 DEF UsbMount
  <1>4. CASE UsbComplete
    BY <1>4, <1>1, <1>2 DEF UsbComplete
  <1>5. CASE TickEnd
    BY <1>5, <1>1, <1>2 DEF TickEnd, SendUsb
  <1>6. CASE UNCHANGED link
    BY <1>6 DEF link
  <1>7. ASSUME NEW k \in Keys, PressKey(k) \/ ReleaseKey(k) PROVE UNCHANGED <<busy, chain>>
    <2>1. \A pressed \in BOOLEAN : Process(keymap[k], pressed) => UNCHANGED <<busy, chain>>
      BY Zenon DEF Process
    <2> QED BY <1>7, <2>1, Zenon DEF PressKey, ReleaseKey
  <1>8. Decide => UNCHANGED <<busy, chain>>
    BY Zenon DEF Decide
  <1>12. BleConnect => UNCHANGED <<busy, chain>>
    BY Zenon DEF BleConnect
  <1>13. BleDisconnect => UNCHANGED <<busy, chain>>
    BY Zenon DEF BleDisconnect
  <1>14. BleCanSend => UNCHANGED <<busy, chain>>
    BY Zenon DEF BleCanSend
  <1>9. ASSUME NEW k \in Keys, NEW c \in Codes, Remap(k, c) PROVE UNCHANGED link
    BY <1>9 DEF Remap
  <1>10. ASSUME NEW p \in Packets, TouchArrives(p) PROVE UNCHANGED link
    BY <1>10 DEF TouchArrives
  <1>11. TickStart \/ TrackpadEvents \/ UNCHANGED vars => UNCHANGED link
    BY DEF TickStart, TrackpadEvents, vars
  <1> QED BY <1>1, <1>3, <1>4, <1>5, <1>6, <1>7, <1>8, <1>9, <1>10, <1>11, <1>12, <1>13, <1>14 DEF Next

\* What is left of a movement is not ready.
LEMMA RestNotReady ==
    ASSUME MotionTypes, ConsumeMotion
    PROVE  ~MotionReady(delta')
  <1> SUFFICES ASSUME NEW d \in Devices, NEW a \in Axes
               PROVE  ~Reached(delta'[d][a], Threshold(a))
    BY DEF MotionReady
  <1> DEFINE v == delta[d][a]
             n == Threshold(a)
  <1>1. v \in Int /\ n \in Nat \ {0}
    <2>1. v \in Word /\ n \in 1 .. Wide - 1
      BY MotionOperators DEF MotionTypes
    <2> HIDE DEF n, v
    <2> QED BY <2>1, PointingAssumption DEF Word
  <1>2. delta'[d][a] = v - Quotient(v, n) * n
    BY DEF ConsumeMotion, Rest, Steps
  <1>3. Quotient(v, n) \in Int /\ ~Reached(v - n * Quotient(v, n), n)
    BY <1>1, QuotientRest
  <1> HIDE DEF v, n
  <1>4. Quotient(v, n) * n = n * Quotient(v, n)
    BY <1>1, <1>3
  <1>5. ~Reached(delta'[d][a], n)
    BY <1>2, <1>3, <1>4
  <1> QED BY <1>5 DEF n

LEMMA TakenOut ==
    ASSUME MotionTypes, pending \in [Kinds -> BOOLEAN], NEW kinds, Take(kinds)
    PROVE  Ready' = Ready \ kinds
  <1>1. \A k \in Kinds : pending'[k] <=> pending[k] /\ k \notin kinds
    BY DEF Take
  <1>2. MotionReady(delta') <=> MotionReady(delta) /\ "mouse" \notin kinds
    <2>1. CASE "mouse" \in kinds
      BY <2>1, RestNotReady DEF Take
    <2>2. CASE "mouse" \notin kinds
      BY <2>2 DEF Take
    <2> QED BY <2>1, <2>2
  <1>3. MotionReady(delta)' <=> MotionReady(delta')
    BY DEF MotionReady, Threshold, Reached
  <1> QED BY <1>1, <1>2, <1>3 DEF Ready, Kinds

\* Neither the chain of USB reports nor the loop over a can-send event can
\* run for ever or overlook a kind, and a keyboard event is gone with the
\* next turn: _usb_hid_send_report_chain, _send_report.  The safety half of
\* UsbDelivers.
THEOREM ReportsComeToAnEnd == Spec => []ChainCovers /\ ReportsRunOut
  <1> DEFINE Inv == MotionInv /\ ReportedInv /\ ChainCovers
  <1>1. Init => Inv
    BY MotionInit DEF Init, ReportedInv, NothingForgotten, None, ChainCovers
  <1>2. Inv /\ [Next]_vars => Inv'
    BY MotionNext, ReportedNext, ChainNext
  <1>3. ASSUME Inv
        PROVE  /\ BleCanSend => Ready' = {}
               /\ \/ UsbComplete
                  \/ TickEnd /\ use = "usb" /\ mounted /\ ~busy
                  => (HasEvent => NextKind \in Ready /\ Ready' = Ready \ {NextKind})
    <2>1. MotionTypes /\ pending \in [Kinds -> BOOLEAN] /\ ChainCovers
      BY <1>3 DEF MotionInv, ReportedInv
    <2>2. BleCanSend => Ready' = {}
      BY <2>1, TakenOut DEF BleCanSend
    <2>3. HasEvent /\ Pop => NextKind \in Ready /\ Ready' = Ready \ {NextKind}
      <3>1. HasEvent => NextKind \in Ready
        BY DEF HasEvent, NextKind, Ready, Kinds
      <3> QED BY <2>1, <3>1, TakenOut DEF Pop
    <2>4. UsbComplete /\ HasEvent => Pop
      BY <2>1 DEF UsbComplete, SendNext, ChainCovers
    <2>5. TickEnd /\ use = "usb" /\ mounted /\ ~busy /\ HasEvent => Pop
      BY DEF TickEnd, SendUsb, SendNext
    <2> QED BY <2>2, <2>3, <2>4, <2>5
  <1> HIDE DEF Inv
  <1>4. Inv /\ [Next]_vars =>
           [/\ BleCanSend => Ready' = {}
            /\ \/ UsbComplete
               \/ TickEnd /\ use = "usb" /\ mounted /\ ~busy
               => (HasEvent => NextKind \in Ready /\ Ready' = Ready \ {NextKind})]_vars
    BY <1>3
  <1>5. Inv => ChainCovers
    BY DEF Inv
  <1> QED BY <1>1, <1>2, <1>4, <1>5, PTL DEF Spec, ReportsRunOut
=============================================================================
