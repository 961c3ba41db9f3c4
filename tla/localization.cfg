SPECIFICATION MCSpec
CONSTANTS
    MaxX = 1
    ScanDepth = 2
    Lead = 1
    MaxPublished = 3
    MaxGap = 1
    MaxSweep = 1
    VoxelSize = 4
    HalfWidth = 1
    Inner = 1
    PlanarSize = 2
    PlanarHalf = 2
    Vehicles <- MCVehicles
    Scans <- MCScans
    ClearingDis = {4}
    TerrainSettings <- MCTerrainSettings
    MaxStamp = 3
    ExtVehicles <- MCExtVehicles
    ExtScans <- MCExtScans
    ExtClearingDis = {4}
    ExtSettings <- MCExtSettings
    LocalMaps <- MCLocalMaps
    ConnReach = 1
    ExtMaxStamp = 3
    LayerSize = 3
    Resolution = 4
    Layer <- MCLayer
    Robots <- MCRobots
    Observed <- MCObserved
    Laser <- MCLaser
    Clouds <- MCClouds
    Positions <- MCPositions
    Offset = 1
    MaxPair = 2
    EarlyLivox = 2
    EarlyOthers = 3
    ConFrames = 2
    cut_frame_num = 3
    Turn = 8
    Ticks = {1, 2}
    CutTick = 2
    StartAngle = 3
    Messages <- MCMessages
    MaxPreScans = 3
    n_scan = 2
    horizon_scan = 4
    ang_bottom = 7
    ang_res_y = 2
    ScanTime = 8
    resolution_ = 2
    nearby_grids_ <- MCNearby
    capacity_ = 4
    max_range = 3
    NUM_MATCH_POINTS = 2
    filter_size_map_min = 1
    init_map_size = 4
    MapMinimum = 2
    SleepScans = 1
    prior_map <- MCPriorMap
    init_pose = 3
    MapScans <- MCMapScans
    MaxCorrection = 1
    MaxMapScans = 5
INVARIANTS
    MappingTypeOK
    PlanarStaysPlanar
    StampsStayClose
    VoxelsHoldTheirPoints
    StaleOnlyWhileRolling
    TerrainIsConnected
    MasterShowsWhatIsSeen
    FramesKeepTimes
    MapAnswersFromRecent
PROPERTIES
    HiddenExactlyIfGone
    UnseenOnlyAfterMoving
    InputFollowsDemand
    CutHoldsTheScan
CHECK_DEADLOCK TRUE
