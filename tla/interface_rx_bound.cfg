SPECIFICATION Spec
CONSTANTS
    Twists <- MCOneTwist
    MaxCmds = 0
    MaxFrames = 6
    FrameLen = 4
    ReadMax = 21
    WireMax = 24
INVARIANTS
    RxBufBounded
CHECK_DEADLOCK TRUE
