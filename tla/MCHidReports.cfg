SPECIFICATION FairSpec
CONSTANTS
    Keys = {1, 2, 3, 4}
    Codes <- MCCodes
    Setups <- MCSetups
    MaxSlots = 3
    Packets <- MCPackets
    Narrow = 2
    Wide = 4
    ReportMax = 2
    Curve <- MCCurve
    Rotation = 270
    MoveThresh = 2
    WheelThresh = 1
    MoveDelta = 1
    WheelDelta = 1
INVARIANTS TypeOK NoPhantomKey RolloverInOrder NothingForgotten MotionKept
PROPERTIES UsbDelivers
