SPECIFICATION Spec
CONSTANTS
    Keys = {1, 2}
    Codes <- MCCodes
    Setups <- MCChainSetups
    MaxSlots = 2
    Packets <- MCPackets
    Narrow = 2
    Wide = 4
    ReportMax = 2
    Curve <- MCCurve
    Rotation = 270
    MoveThresh = 2
    WheelThresh = 1
    MoveDelta = 1
    WheelDelta = 1
PROPERTIES ReportsFollowChoice
