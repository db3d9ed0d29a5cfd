SPECIFICATION FairSpec
CONSTANTS
    Configs <- MCOneConfig
    MaxAttempts = 2
    MaxCalls = 1
    MaxFaults = 0
PROPERTIES RecoveringEnds
CHECK_DEADLOCK FALSE
