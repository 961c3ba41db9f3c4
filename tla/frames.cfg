SPECIFICATION MCSpec
CONSTANTS
    LidarCount = 2
    Interval = 2
    Skews <- MCSkews
    MaxTime = 4
    MaxPackets = 2
    Configured <- MCConfigured
    Unconfigured = {7}
    PacketsOf <- MCPacketsOf
    PacketTimes = {3, 14}
    PointInterval = 1
    OffsetRange = 8
    Granule = 4
    QueueDepth = 1
    MaxSamples = 1
INVARIANTS
    NothingLost
    FramesTellThePoints
CHECK_DEADLOCK FALSE
