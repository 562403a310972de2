----------------------------- MODULE FlashPages -----------------------------
(* persistence/persistence_flash.c: how the persistence region is divided,  *)
(* and how a write of any length is programmed page by page.  Persistence   *)
(* takes a write to succeed, or to fail with any part of it done; LogFormat *)
(* and Persistence take it to leave everything else alone.  Both are stated *)
(* here of the loop.  MCPersistence lets TLC evaluate them.                 *)
EXTENDS Integers

CONSTANTS
    PageSize,      \* FLASH_PAGE_SIZE
    RegionSize,    \* PWMK_PERSISTENCE_SIZE, in whole pages
    HeaderSize,    \* PWMK_HEADER_SIZE
    ProgressSize,  \* PWMK_PROGRESS_SIZE
    SmallestLog,   \* bytes of the shortest record
    Bit            \* bits of a byte

Byte == SUBSET Bit      \* the bits that are one
Erased == Bit
Place == 0 .. RegionSize - 1

-----------------------------------------------------------------------------
(* Layout of the region.                                                   *)

AlignUp(n) == ((n + PageSize - 1) \div PageSize) * PageSize

ProgressStart == AlignUp(HeaderSize)
BuiltStart == AlignUp(ProgressStart + ProgressSize)
LogStart(imageSize) == AlignUp(BuiltStart + imageSize)

\* persistence_flash_init accepts an image of this size.
Fits(imageSize) ==
    /\ imageSize # 0
    /\ BuiltStart + imageSize <= RegionSize
    /\ RegionSize - LogStart(imageSize) >= SmallestLog

Areas(imageSize) ==
    << [from |-> 0, size |-> HeaderSize],
       [from |-> ProgressStart, size |-> ProgressSize],
       [from |-> BuiltStart, size |-> imageSize],
       [from |-> LogStart(imageSize), size |-> RegionSize - LogStart(imageSize)] >>

RangeIsValid(at, n) == at <= RegionSize /\ n <= RegionSize - at

-----------------------------------------------------------------------------
(* Programming.  data is a function on 0 .. n - 1.                          *)

Page(head) == head .. head + PageSize - 1

\* What page_buffer holds when the loop is at so.at: the page, with as much
\* of the data as belongs to it.
WriteSize(so, at, n) ==
    LET left == at + n - so.at
        room == PageSize - (so.at % PageSize)
    IN IF left < room THEN left ELSE room

Buffer(so, at, data, n) ==
    [i \in Page(so.at - (so.at % PageSize)) |->
        IF i \in so.at .. so.at + WriteSize(so, at, n) - 1 THEN data[i - at] ELSE so.flash[i]]

\* The loop has more to write, and no bit of the page must go from 0 to 1.
Running(so, at, n) == so.ok /\ so.at < at + n
OnlyClears(so, at, data, n) ==
    LET buffer == Buffer(so, at, data, n)
    IN \A i \in so.at .. so.at + WriteSize(so, at, n) - 1 : buffer[i] \subseteq so.flash[i]

Flashed(f, page) == [i \in Place |-> IF i \in DOMAIN page THEN page[i] ELSE f[i]]

\* One turn: the chip programs the page, and it reads back as the buffer.
Turn(so, at, data, n) ==
    IF ~Running(so, at, n) THEN so
    ELSE IF ~OnlyClears(so, at, data, n) THEN [so EXCEPT !.ok = FALSE]
    ELSE [ok |-> TRUE, at |-> so.at + WriteSize(so, at, n),
          flash |-> Flashed(so.flash, Buffer(so, at, data, n))]

\* The chip refuses or is interrupted: any bit it had to clear may be left.
Torn(so, at, data, n) ==
    IF ~Running(so, at, n) \/ ~OnlyClears(so, at, data, n) THEN {}
    ELSE LET buffer == Buffer(so, at, data, n)
             written == so.at .. so.at + WriteSize(so, at, n) - 1
             Left(i) == {b \in Byte : buffer[i] \subseteq b /\ b \subseteq so.flash[i]}
         IN { [ok |-> FALSE, at |-> so.at, flash |-> Flashed(so.flash, part)] :
                part \in {p \in [written -> Byte] : \A i \in written : p[i] \in Left(i)} }

\* The loop after each number of turns, none of them failing in the chip.
Turns(f, at, data, n) ==
    LET turn[k \in 0 .. RegionSize] ==
          IF k = 0 THEN [ok |-> TRUE, at |-> at, flash |-> f]
          ELSE Turn(turn[k - 1], at, data, n)
    IN turn

\* Everything persistence_flash_program may return and leave in flash.
Program(f, at, data, n) ==
    IF ~RangeIsValid(at, n) THEN { [ok |-> FALSE, at |-> at, flash |-> f] }
    ELSE LET turn == Turns(f, at, data, n)
         IN {turn[RegionSize]} \cup UNION {Torn(turn[k], at, data, n) : k \in 0 .. RegionSize}

-----------------------------------------------------------------------------
(* What the other models take for granted.                                 *)

\* No two areas lie on one page, so a page being programmed when power goes
\* is never shared: a torn record cannot hurt the progress or the image.
AreasShareNoPage ==
    \A imageSize \in 0 .. RegionSize : Fits(imageSize) =>
        LET area == Areas(imageSize) IN
        /\ \A a \in DOMAIN area : RangeIsValid(area[a].from, area[a].size)
        /\ \A a, b \in DOMAIN area : a < b =>
              (area[a].from + area[a].size - 1) \div PageSize < area[b].from \div PageSize

\* Success means the data is there and nothing else has changed; failure
\* leaves every byte between what it was and what it should be, the bytes of
\* a later page untouched while those of an earlier one are not all written.
\* It fails without a fault of the chip exactly if a bit would have to be set.
ProgramIsAnOutcome(f, at, data, n) ==
    LET written == at .. at + n - 1
        possible == RangeIsValid(at, n) /\ \A i \in written : data[i - at] \subseteq f[i]
        results == Program(f, at, data, n)
    IN /\ possible <=> \E r \in results : r.ok
       /\ \A r \in results :
             /\ \A i \in Place \ written : r.flash[i] = f[i]
             /\ RangeIsValid(at, n) => \A i \in written :
                   /\ r.flash[i] \subseteq f[i]
                   /\ r.ok => r.flash[i] = data[i - at]
                   /\ ~r.ok => r.flash[i] = f[i] \/ data[i - at] \subseteq r.flash[i]
                   /\ r.flash[i] # f[i] =>
                         \A j \in written : j \div PageSize < i \div PageSize =>
                            r.flash[j] = data[j - at]
=============================================================================
