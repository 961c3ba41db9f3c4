SPECIFICATION FairConfigSpec
CONSTANTS
    u1 = u1
    u2 = u2
    s1 = s1
    s2 = s2
    Users = {u1}
    Strangers = {s1, s2}
    UserItems <- MCDeployed
    MaxLidars = 2
    MaxInfo <- MCTwoStrangers
    Followed <- MCFollowed
    MaxFailures = 1
INVARIANTS
    TypeOK
    SamplingMeansConfigured
    NoOrphanBit
PROPERTIES
    ConfiguredLidarSamples
CHECK_DEADLOCK TRUE
