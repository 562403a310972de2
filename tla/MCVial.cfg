CONSTANTS
    Switch <- MCSwitch
    Debounce = 1
    Rows = 1
    Cols = 3
    Layers = 2
    Layout <- MCLayout
    Default <- MCDefault
    Combo <- MCSwitch
    Hold = 3
    TickTimes <- MCTickTimes
    Requests <- MCRequests
    MaxWrites = 2
SPECIFICATION Spec
\* The bootloader ends the firmware.
CHECK_DEADLOCK FALSE
INVARIANTS TypeOK AcknowledgedReadsBack
PROPERTIES UnlockTakesHolding BootCodeNeedsUnlock SettledMatrixIsReported
