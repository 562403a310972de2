SPECIFICATION Spec
CONSTANTS
    Builds <- MCBuilds
    SleepAfter = 1
    Duration <- MCDuration
INVARIANTS DarkInSleep
