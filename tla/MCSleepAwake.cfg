SPECIFICATION FairSpec
CONSTANTS
    Builds <- MCBuilds
    SleepAfter = 1
    Duration <- MCDuration
PROPERTIES UnusedSleeps
