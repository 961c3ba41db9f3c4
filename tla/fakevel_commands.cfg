SPECIFICATION MCSpec
CONSTANTS
    Velocities <- MCVelocities
    SpinSpeeds = {0, 1}
    Yaws = {0, 1}
    Timeout = 1
    MaxCmds = 2
    QueueSize = 2
    Modes = {"manual", "auto"}
    Joys <- MCJoys
    enable_button = 1
    enable_turbo_button = 2
    x_axis = 1
    yaw_axis = 2
    shoot_axis = 2
    NormalScale = 1
    TurboScale = 2
    GoalGap = 1
    MaxTime = 2
    LastAngle = 7
    command_x = 2
    allowance = 2
    MaxRuns = 2
    Plans <- MCPlans
    Places <- MCPlaces
    LethalSets <- MCObstacles
    Settings <- MCSettings
    move_gains <- MCMoveGains
    head_gains <- MCHeadGains
    Garbage <- MCGarbage
    ExtentX = 3
    ExtentY = 0
    MaxSearch = 2
    Speeds = {0, 2}
    SumMax = 1
    enable_rotation = TRUE
    curvature_forward_dist = 1
    curvature_backward_dist = 1
    RadiusMin = 1
    RadiusMax = 2
    Reduction = 50
    Rate = 1
    min_approach_linear_velocity = 1
    approach_velocity_scaling_dist = 2
    SamplePoints = 2
    MaxCycles = 3
INVARIANTS
    MotionTypeOK
    ReleaseStops
    ChosenSector
PROPERTIES
    CommandNotForgotten
    RunEnds
    BlockedStretchStops
CHECK_DEADLOCK TRUE
