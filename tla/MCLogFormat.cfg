SPECIFICATION Spec
CONSTANTS
    B = 4
    FixedData = 2
    MaxData = 3
    ImageSizes = {10, 15}
    LogSize = 28
    MaxSaves = 6
    Images <- MCImages
    MaxCommits = 2
INVARIANTS TypeOK CommitIsReadBack ChunksAdvance CountIdentifiesLog
PROPERTIES RecordsGoOnErased
CHECK_DEADLOCK FALSE
