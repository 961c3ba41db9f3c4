SPECIFICATION FairSpec
CONSTANTS
    Twists <- MCTwists
    MaxCmds = 2
    MaxFrames = 1
    FrameLen = 4
    ReadMax = 9
    WireMax = 4
INVARIANTS
    TwistNotTorn
PROPERTIES
    LastCommandReachesBoard
CHECK_DEADLOCK TRUE
