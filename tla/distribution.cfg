SPECIFICATION FairSpec
CONSTANTS
    Kinds = {"pcd", "imu"}
    LidarCount = 2
    ImuLidars = {1}
    QueueSize = 1
    ImuMax = 1
INVARIANTS
    NoLostWakeup
PROPERTIES
    ExitCompletes
CHECK_DEADLOCK TRUE
