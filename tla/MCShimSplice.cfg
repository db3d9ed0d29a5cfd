SPECIFICATION FairSpec
CONSTANTS
    c1 = c1
    c2 = c2
    Call = {c1, c2}
    RechainMax = 1
    MaxFrames = 2
INVARIANTS NeverToALauncher OneStream
PROPERTIES ChainReturns
CHECK_DEADLOCK FALSE
