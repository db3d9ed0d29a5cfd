SPECIFICATION FairSpec
CONSTANTS
    Configs <- MCConfigs
    MaxAttempts = 2
    MaxCalls = 2
    MaxFaults = 1
CHECK_DEADLOCK FALSE
PROPERTIES KeepsThePromise HeldIsAnswered RecoveringEndsInARound DeathIsNoticed
