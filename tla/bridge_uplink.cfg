SPECIFICATION Spec
CONSTANTS
    Twists <- MCTwists
    VxFromX = 0
    VxFromY <- MCMinusOne
    VyFromX = 1
    VyFromY = 0
    WzScale = 1
    CmdTimeout = 0
    MaxCmds = 0
    MaxStepsBack = 0
    MaxRestarts = 1
    MaxDamage = 1
    MaxFrames = 3
    FrameLen = 4
    ReadMax = 9
    WireMax = 12
PROPERTIES
    ReadLosesNoFrame
    OdomInOrder
CHECK_DEADLOCK TRUE
