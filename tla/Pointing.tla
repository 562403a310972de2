------------------------------- MODULE Pointing -------------------------------
(***************************************************************************)
(* Arithmetic of pointing devices, with the widths it has in the code:     *)
(* src/pinnacle/pinnacle.c scales a packet of the trackpad in 8 bits, and  *)
(* src/hid/hid.c divides what 16-bit counters have gathered.               *)
(***************************************************************************)
EXTENDS Integers

CONSTANTS
    Narrow,     \* 128: an int8_t holds -Narrow .. Narrow - 1
    Wide,       \* 32768: an int16_t holds -Wide .. Wide - 1
    ReportMax,  \* 127, the largest movement of a report
    Curve,      \* powf(i, PINNACLE_ACCEL) * PINNACLE_SPEED, rounded down
    Rotation    \* PINNACLE_ROTATE

Byte == -Narrow .. Narrow - 1
Word == -Wide .. Wide - 1
Axes == {"x", "y", "w"}
Motions == [Axes -> Int]

ASSUME PointingAssumption ==
    /\ Narrow \in Nat \ {0} /\ Wide \in Nat \ {0}
    /\ ReportMax \in Nat \ {0}
    /\ Curve \in [0 .. Narrow -> Int]
    /\ Rotation \in {0, 90, 180, 270}

\* Conversion to a signed integer of 2 * half values: it wraps around.
Wrapped(v, half) == ((v + half) % (2 * half)) - half
Int8(v) == Wrapped(v, Narrow)
Int16(v) == Wrapped(v, Wide)

\* C's division of v by a positive n: toward zero.
Quotient(v, n) == IF v >= 0 THEN v \div n ELSE -((-v) \div n)

\* MAX(MIN(v, 127), -127)
Clamped(v) ==
    IF v > ReportMax THEN ReportMax ELSE IF v < -ReportMax THEN -ReportMax ELSE v

Reached(v, threshold) == v >= threshold \/ v <= -threshold

\* speed_lookup_table: no movement is scaled to none, all fit in 7 bits.
Speed(i) ==
    LET scaled == IF i # 0 /\ Curve[i] < 1 THEN 1 ELSE Curve[i]
    IN IF scaled < 0 THEN 0 ELSE IF scaled > Narrow - 1 THEN Narrow - 1 ELSE scaled

\* The entry of the absolute value, with the sign of the value.
Sped(v) == IF v < 0 THEN -Speed(-v) ELSE Speed(v)

\* pinnacle_read_data: the y axis is turned over, both are rotated, in 8 bits,
\* then scaled; the wheel is taken as it is.
Decoded(packet) ==
    LET dx == packet.x
        dy == Int8(-packet.y)
        across == CASE Rotation = 0 -> dx [] Rotation = 90 -> Int8(-dy)
                    [] Rotation = 180 -> Int8(-dx) [] Rotation = 270 -> dy
        along == CASE Rotation = 0 -> dy [] Rotation = 90 -> dx
                   [] Rotation = 180 -> Int8(-dy) [] Rotation = 270 -> Int8(-dx)
    IN [a \in Axes |-> CASE a = "x" -> Sped(across) [] a = "y" -> Sped(along)
                         [] a = "w" -> packet.w]
=============================================================================
