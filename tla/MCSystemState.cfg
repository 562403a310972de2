SPECIFICATION FairSpec
CONSTANTS
    Builds <- MCBuilds
    SleepAfter = 1
    Duration <- MCDuration
INVARIANTS TypeOK StateFollowsConnection DarkWithoutBle
PROPERTIES NoticeShownInFull ImplementsStateDiagram BootloaderIsReached IdleSleeps
