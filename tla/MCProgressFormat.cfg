SPECIFICATION Spec
CONSTANTS
    NBytes = 2
    Contents <- MCContents
INVARIANTS TypeOK AnalysisIsProgressState NextSaveIsCounted
PROPERTIES UpdateMovesOneSlot
CHECK_DEADLOCK FALSE
