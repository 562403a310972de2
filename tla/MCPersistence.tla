---------------------------- MODULE MCPersistence ----------------------------
(* Two keys, two keycodes, two builds.  Records of 6 bytes for one key and *)
(* of 5 or 7 for the other, the last of the image, in a log of 13 bytes:   *)
(* two records may fill it exactly or miss it by one; three slots run out  *)
(* after two appended records.                                             *)
(* The assumptions are about FlashPages, which has constants only: pages    *)
(* of 2 and 3 bytes in a region of 6, every content, write and place; and   *)
(* every layout of regions of up to 12 bytes.                               *)
EXTENDS Persistence

CONSTANTS k1, k2, c1, c2

MCDefault == [k \in {k1, k2} |-> c1]
MCRecordSizes == [k \in {k1, k2} |-> IF k = k1 THEN {6} ELSE {5, 7}]

\* Header, progress and the least log of h, g and m bytes.
Pages(size, region, h, g, m) ==
    INSTANCE FlashPages WITH PageSize <- size, RegionSize <- region, HeaderSize <- h,
        ProgressSize <- g, SmallestLog <- m, Bit <- {0}

ASSUME ProgrammingHasOneOutcome ==
    \A size \in {2, 3}, at \in 0 .. 6, n \in 0 .. 6 : at + n < 8 =>
        \A f \in [0 .. 5 -> SUBSET {0}], data \in [0 .. n - 1 -> SUBSET {0}] :
            Pages(size, 6, 1, 1, 1)!ProgramIsAnOutcome(f, at, data, n)

ASSUME AreasAreApart ==
    \A size \in 1 .. 4, pages \in 1 .. 6, h, g, m \in 1 .. 5 :
        size * pages <= 12 => Pages(size, size * pages, h, g, m)!AreasShareNoPage
=============================================================================
