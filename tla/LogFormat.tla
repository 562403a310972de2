------------------------------ MODULE LogFormat ------------------------------
(***************************************************************************)
(* The write log byte by byte: persistence_format_log_encode and           *)
(* _log_replay, driven by the difference search and chunk loop of          *)
(* persistence_commit.  Power stays on and flash works here; what they do  *)
(* to a save is the subject of module Persistence.                         *)
(*                                                                         *)
(* Numbers are to the base B that a byte counts to (256 in the code), so   *)
(* an instance with a small B meets the same boundaries: the offset whose  *)
(* high byte is the type value FF, the longest data of a record, the data  *)
(* that itself looks like erased flash.                                    *)
(***************************************************************************)
EXTENDS Integers, Sequences

CONSTANTS
    B,           \* values of a byte
    FixedData,   \* PWMK_FIXED_LOG_DATA_SIZE
    MaxData,     \* PWMK_VARIABLE_LOG_MAX_DATA_SIZE
    LogSize,     \* log_data_size
    MaxSaves,    \* slots of the progress array
    ImageSizes,  \* image sizes persistence_init may be given
    Images,      \* images a commit may be given
    MaxCommits   \* bound of the run: commits made

FF == B - 1               \* an erased byte, and PWMK_VARIABLE_LOG_TYPE
FixedSize == 2 + FixedData
HeaderSize == 4
Byte == 0 .. B - 1
Place == 0 .. LogSize - 1
Image(n) == [0 .. n - 1 -> Byte]

ASSUME LogAssumption ==
    /\ B \in Nat /\ B > 2    \* with two values a header could be all FF
    /\ FixedData \in Nat \ {0} /\ MaxData \in FixedData .. FF
    /\ ImageSizes \subseteq 1 .. B * B /\ LogSize \in Nat
    /\ MaxSaves \in Nat \ {0}
    /\ \A image \in Images : \E n \in ImageSizes : image \in Image(n)

VARIABLES
    imageSize,  \* persistence_state.image_size
    base,       \* base image in flash
    log,        \* log area in flash
    count,      \* completed saves, by the progress array
    used,       \* persistence_state.log_used_size
    target,     \* the image commit was called with
    saved,      \* its copy of the saved image
    offset,     \* where its next chunk starts
    remaining,  \* bytes left for the chunk loop, 0 when it is not running
    commits     \* commits so far

vars == <<imageSize, base, log, count, used, target, saved, offset, remaining, commits>>

-----------------------------------------------------------------------------
(* Decoding.                                                               *)

AllErased(l, from, n) == \A i \in from .. from + n - 1 : l[i] = FF

NoRecord == [from |-> 0, size |-> 0, at |-> 0]

\* The record at p: where its data is, how much, and where it goes.
Decoded(l, p) ==
    IF p >= LogSize THEN NoRecord
    ELSE IF l[p] # FF
    THEN IF LogSize - p < FixedSize THEN NoRecord
         ELSE [from |-> p + 2, size |-> FixedData, at |-> l[p] * B + l[p + 1]]
    ELSE IF LogSize - p < HeaderSize \/ AllErased(l, p, HeaderSize) THEN NoRecord
    ELSE [from |-> p + HeaderSize, size |-> l[p + 1],
          at |-> l[p + 2] * B + l[p + 3]]

Valid(r, size) ==
    /\ r.size # 0
    /\ r.from + r.size <= LogSize
    /\ r.at + r.size <= size

\* f with n bytes of g, those from place from on, written from at on.
Overwrite(f, at, n, g, from) ==
    [i \in DOMAIN f |-> IF i \in at .. at + n - 1 THEN g[from + i - at] ELSE f[i]]

Start(b) == [ok |-> TRUE, used |-> 0, image |-> b]
Failed == [ok |-> FALSE, used |-> 0, image |-> <<>>]

\* One turn of the replay loop.
ReplayRecord(size, l, so) ==
    LET r == Decoded(l, so.used)
    IN IF ~so.ok \/ ~Valid(r, size) THEN Failed
       ELSE [ok |-> TRUE, used |-> r.from + r.size,
             image |-> Overwrite(so.image, r.at, r.size, l, r.from)]

\* What the loop has read after each number of records.
After(size, b, l) ==
    LET after[i \in 0 .. MaxSaves] ==
          IF i = 0 THEN Start(b) ELSE ReplayRecord(size, l, after[i - 1])
    IN after

\* Mutated form: what follows the last record is not looked at.
ReplayPrefix(size, b, l, n) == After(size, b, l)[n]

\* Exactly n records, and nothing but erased bytes behind them.
Replay(size, b, l, n) ==
    LET end == After(size, b, l)[n]
    IN IF end.ok /\ AllErased(l, end.used, LogSize - end.used) THEN end ELSE Failed

-----------------------------------------------------------------------------
(* Encoding.                                                               *)

\* A fixed record rewrites FixedData bytes of the image, and its first byte
\* must not be the variable type.
FixedFits(size, at, n) ==
    /\ n <= FixedData
    /\ at \div B # FF
    /\ at + FixedData <= size

\* Mutated form: the padding is taken for erased bytes.
EncodeErasedPadding(size, old, new, at, n) ==
    IF FixedFits(size, at, n)
    THEN <<at \div B, at % B>> \o
         [i \in 1 .. FixedData |-> IF i <= n THEN new[at + i - 1] ELSE FF]
    ELSE <<FF, n, at \div B, at % B>> \o [i \in 1 .. n |-> new[at + i - 1]]

\* n bytes of new from at on; a shorter fixed record is padded from old.
Encode(size, old, new, at, n) ==
    IF FixedFits(size, at, n)
    THEN <<at \div B, at % B>> \o
         [i \in 1 .. FixedData |-> IF i <= n THEN new[at + i - 1] ELSE old[at + i - 1]]
    ELSE <<FF, n, at \div B, at % B>> \o [i \in 1 .. n |-> new[at + i - 1]]

-----------------------------------------------------------------------------
Erased == [p \in Place |-> FF]

Init ==
    /\ imageSize \in ImageSizes
    /\ base \in Images \cap Image(imageSize)
    /\ log = Erased /\ count = 1 /\ used = 0
    /\ target = base /\ saved = base
    /\ offset = 0 /\ remaining = 0 /\ commits = 0

Idle == remaining = 0

Differences(f, g) == {i \in DOMAIN f : f[i] # g[i]}
First(S) == CHOOSE i \in S : \A j \in S : i <= j
Last(S) == CHOOSE i \in S : \A j \in S : i >= j

\* persistence_commit up to its loop: restore, compare.
Commit(image) ==
    /\ Idle /\ commits < MaxCommits
    /\ LET now == Replay(imageSize, base, log, count - 1)
           D == Differences(now.image, image)
       IN /\ now.ok
          /\ saved' = now.image /\ used' = now.used
          /\ offset' = IF D = {} THEN offset ELSE First(D)
          /\ remaining' = IF D = {} THEN 0 ELSE Last(D) - First(D) + 1
    /\ target' = image /\ commits' = commits + 1
    /\ UNCHANGED <<imageSize, base, log, count>>

\* The loop ends on the first record that finds no slot or no space.
Rebuild ==
    /\ base' = target /\ log' = Erased /\ count' = 1 /\ used' = 0
    /\ remaining' = 0
    /\ UNCHANGED <<imageSize, target, saved, offset, commits>>

ChunkSize == IF remaining < MaxData THEN remaining ELSE MaxData

\* Mutated forms: the last chunk is not cut to what remains; every record
\* is counted as a fixed one.
WriteChunkUncut ==
    /\ ~Idle
    /\ LET rec == Encode(imageSize, saved, target, offset, ChunkSize)
       IN IF count < MaxSaves /\ Len(rec) <= LogSize - used
          THEN /\ log' = Overwrite(log, used, Len(rec), rec, 1)
               /\ count' = count + 1 /\ used' = used + Len(rec)
               /\ offset' = offset + MaxData
               /\ remaining' = remaining - MaxData
               /\ UNCHANGED <<imageSize, base, target, saved, commits>>
          ELSE Rebuild

WriteChunkFixed ==
    /\ ~Idle
    /\ LET rec == Encode(imageSize, saved, target, offset, ChunkSize)
       IN IF count < MaxSaves /\ Len(rec) <= LogSize - used
          THEN /\ log' = Overwrite(log, used, Len(rec), rec, 1)
               /\ count' = count + 1 /\ used' = used + FixedSize
               /\ offset' = offset + ChunkSize
               /\ remaining' = remaining - ChunkSize
               /\ UNCHANGED <<imageSize, base, target, saved, commits>>
          ELSE Rebuild

\* One turn of the loop.  The copy of the saved image is not updated.
WriteChunk ==
    /\ ~Idle
    /\ LET rec == Encode(imageSize, saved, target, offset, ChunkSize)
       IN IF count < MaxSaves /\ Len(rec) <= LogSize - used
          THEN /\ log' = Overwrite(log, used, Len(rec), rec, 1)
               /\ count' = count + 1 /\ used' = used + Len(rec)
               /\ offset' = offset + ChunkSize
               /\ remaining' = remaining - ChunkSize
               /\ UNCHANGED <<imageSize, base, target, saved, commits>>
          ELSE Rebuild

Next == WriteChunk \/ \E image \in Images \cap Image(imageSize) : Commit(image)

Spec == Init /\ [][Next]_vars

-----------------------------------------------------------------------------
(* Properties.                                                             *)

\* Types; above all, the records never run over the log area, nor the
\* chunk loop over the end of the image.
TypeOK ==
    /\ imageSize \in ImageSizes
    /\ {base, target, saved} \subseteq Image(imageSize)
    /\ log \in [Place -> Byte]
    /\ count \in 1 .. MaxSaves /\ used \in 0 .. LogSize
    /\ offset \in 0 .. imageSize /\ remaining \in 0 .. imageSize
    /\ offset + remaining <= imageSize \/ Idle

\* After a commit the restore reads back the very image it was given, and
\* the size it finds used is the size commit counts with: whatever bytes
\* the records hold, wherever they start and however many they are.
CommitIsReadBack ==
    Idle => Replay(imageSize, base, log, count - 1) = [ok |-> TRUE, used |-> used, image |-> target]

\* Between two chunks the saved image is the new one up to the loop's offset
\* and the old one from there on: padding never runs ahead of the loop.
ChunksAdvance ==
    ~Idle =>
        LET now == Replay(imageSize, base, log, count - 1) IN
        /\ now.ok /\ now.used = used
        /\ \A i \in DOMAIN target :
              now.image[i] = IF i < offset THEN target[i] ELSE saved[i]

\* A log is accepted with the number of records it was written with and no
\* other, so a progress slot too many or too few never restores an image.
CountIdentifiesLog ==
    \A n \in 0 .. MaxSaves : n # count - 1 => ~Replay(imageSize, base, log, n).ok

\* A save changes erased bytes behind the records there are, or the whole area
\* has been erased: programming, which only clears bits, then yields the very
\* record and leaves the ones before it, where the AND with bytes already
\* written would be neither.
RecordsGoOnErased ==
    [][\/ log' = Erased
       \/ \A p \in Place : log'[p] # log[p] => p >= used /\ log[p] = FF]_vars
=============================================================================
