SPECIFICATION FairSpec
CONSTANTS
    Twists <- MCTwists
    VxFromX = 0
    VxFromY <- MCMinusOne
    VyFromX = 1
    VyFromY = 0
    WzScale = 1
    CmdTimeout = 2
    MaxCmds = 2
    MaxStepsBack = 1
    MaxRestarts = 1
    MaxDamage = 0
    MaxFrames = 0
    FrameLen = 4
    ReadMax = 9
    WireMax = 0
INVARIANTS
    TypeOK
    WatchdogLatched
PROPERTIES
    SafeStop
CHECK_DEADLOCK TRUE
