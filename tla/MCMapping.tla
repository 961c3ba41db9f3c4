------------------------------- MODULE MCMapping -------------------------------
(***************************************************************************)
(* Instances of the nodes that make pictures of the surroundings out of    *)
(* clouds and odometry in the odom frame, and of the nodes that bring them *)
(* into that frame.  What the latter publish is any cloud and any pose to  *)
(* the former, so they need no common state: a behaviour runs one of them, *)
(* and the rest stays as it is.                                            *)
(***************************************************************************)
EXTENDS Localization, TerrainMaps,
        IntensityVoxelLayer, LaserScanConversion, SensorScanGeneration, Preprocess, PointCloudConverter,
        LocalMap

VARIABLE part    \* which of them runs

mappingVars == <<part, locVars, terrainVars, extVars, layerVars, scanVars, sensorVars, preVars, mapVars>>

At(x, y, h) == [at |-> <<x, y>>, z |-> h]

(* The vehicle stays, or drives on by one voxel and back by three          *)
MCVehicles == {At(0, 0, 0), At(5, -10, 0)}
(* A wall to the right with the ground before it; the wall gone            *)
MCScans == {{At(3, 0, 0), At(3, 0, 2), At(-2, -3, 0)}, {At(3, 0, 0), At(-2, -3, 0)}}

MCTerrainDefaults ==
    [decay |-> 1, no_decay_dis |-> 0, point_thre |-> 4, time_thre |-> 2,
     min_z |-> -3, max_z |-> 4, ratio |-> 0, sorting |-> TRUE, quantile_percent |-> 20,
     consider_drop |-> FALSE, limit_lift |-> FALSE, max_lift |-> 1,
     clear_dyobs |-> TRUE, dyobs_dis |-> 1, dyobs_rel_z |-> 0, dyobs_points |-> 1,
     vfov_percent |-> 80, abs_rel_z |-> 1, vehicle_height |-> 4, min_block_points |-> 1,
     no_data_obstacle |-> FALSE, skip |-> 0]
MCTerrainSettings ==
    {MCTerrainDefaults,
     [MCTerrainDefaults EXCEPT !.no_decay_dis = 5, !.sorting = FALSE, !.clear_dyobs = FALSE,
                               !.no_data_obstacle = TRUE, !.skip = 1]}

(* Ground, a ramp up from it, and a ceiling above the ground               *)
MCExtVehicles == {At(0, 0, 0), At(5, 0, 1)}
MCExtScans == {{At(2, 0, 0), At(4, 2, 1), At(-4, 0, 4)}, {At(4, 0, 2), At(2, 4, 1)}}
MCLocalMaps == {{At(1, 0, 0), At(6, 0, 1)}}
MCExtDefaults ==
    [decay |-> 1, no_decay_dis |-> 0, point_thre |-> 4, time_thre |-> 2,
     min_z |-> -3, max_z |-> 5, ratio |-> 1, sorting |-> FALSE, quantile_percent |-> 20,
     vehicle_height |-> 2, check_conn |-> TRUE, under_vehicle |-> -1, conn_thre |-> 2,
     ceiling_thre |-> 2, radius |-> 3]
MCExtSettings == {MCExtDefaults, [MCExtDefaults EXCEPT !.check_conn = FALSE, !.sorting = TRUE]}

(* Obstacles ahead and behind, low and high, of little and much intensity  *)
Obstacle(x, y, h, i) == [at |-> <<x, y>>, z |-> h, i |-> i]
MCLayer == [origin_z |-> 0, z_resolution |-> 2, z_voxels |-> 2, mark_threshold |-> 0,
            min_height |-> 0, max_height |-> 5, min_i |-> 1, max_i |-> 4,
            min_range |-> 1, max_range |-> 9, footprint |-> 1, clear_footprint |-> TRUE]
MCRobots == {<<0, 0>>, <<3, 0>>, <<-6, 9>>}
MCObserved == {{},
               {Obstacle(4, 0, 1, 2), Obstacle(-5, 3, 3, 2)},
               {Obstacle(-1, 4, 2, 1), Obstacle(4, 0, 4, 2), Obstacle(-2, 0, 1, 5)},
               {Obstacle(-5, 3, 0, 4), Obstacle(1, 1, 1, 1)}}

MCLaser == [width |-> 7, increment |-> 2, min_height |-> -1, max_height |-> 2,
           min_i |-> 1, max_i |-> 4, range_min |-> 1, range_max |-> 5]
Hit(a, r, h, i) == [angle |-> a, range |-> r, z |-> h, i |-> i]
MCClouds == {{Hit(0, 3, 0, 1), Hit(1, 2, 0, 4), Hit(7, 5, 2, 2), Hit(4, 6, 0, 1)},
             {Hit(2, 4, 3, 1), Hit(3, 4, -1, 1), Hit(8, 2, 0, 2)}}
MCPositions == {0, 2}

(* As turning, out of order, with every kind of point, more than once round *)
Return(at, ring, kind) == [at |-> at, ring |-> ring, kind |-> kind]
(* A simulated cloud of two rows, the first in part just below the lowest  *)
(* and the second with a point too near and one without return             *)
Simulated(angle, kind) == [angle |-> angle, kind |-> kind]
MCSimulated ==
    [i \in 1..8 |-> CASE i <= 4 -> Simulated(IF i = 2 THEN -8 ELSE -7, "seen")
                      [] i = 6 -> Simulated(-5, "blind")
                      [] i = 7 -> Simulated(45, "seen")
                      [] OTHER -> Simulated(-5, "seen")]
MCMessages ==
    {<<>>, lidarHandle(MCSimulated), <<Return(0, 0, "seen")>>,
     [i \in 1..7 |-> Return(i - 1, i % 2, "seen")],
     <<Return(0, 0, "seen"), Return(3, 0, "seen"), Return(1, 0, "seen"), Return(5, 0, "seen"),
       Return(2, 0, "seen"), Return(4, 0, "again")>>,
     <<Return(0, 0, "nan"), Return(1, 0, "seen"), Return(2, 0, "again"), Return(3, 0, "blind"),
       Return(4, 0, "noise"), Return(5, 0, "seen")>>,
     <<Return(0, 0, "seen"), Return(5, 0, "seen"), Return(9, 0, "seen"), Return(12, 0, "seen")>>}

MCNearby == {-1, 0, 1}
MCPriorMap == <<1, 3, 6, 8>>
MCMapScans == {<<1, 2>>, <<0, 4, 6>>, <<3, 9>>}

Parts == {"localization", "terrain", "terrain_ext", "layer", "sensor_scan",
          "preprocess", "local_map"} \cup Nodes

MCInit ==
    /\ part \in Parts
    /\ LocInit /\ TerrainInit /\ ExtInit /\ LayerInit /\ ScanInit /\ SensorInit /\ PreInit /\ MapInit
    /\ part # "localization" => /\ ~tf_ready /\ ~planar_mode
                                /\ result = [x |-> 0, tilted |-> FALSE]
    /\ part # "terrain" => settings = MCTerrainDefaults /\ clearing_dis = 4
    /\ part # "terrain_ext" => ext_settings = MCExtDefaults /\ ext_clearing_dis = 4
    /\ part # "layer" => rolling
    /\ part # "preprocess" =>
          lidar = [type |-> "AVIA", filter |-> 1, timed |-> TRUE, making |-> "one", tick |-> 1]
    /\ part # "local_map" => ~enable_prior_pcd

LocalizationPart(A) ==
    /\ part = "localization" /\ A
    /\ UNCHANGED <<part, terrainVars, extVars, layerVars, scanVars, sensorVars, preVars, mapVars>>
TerrainPart(A) ==
    /\ part = "terrain" /\ A
    /\ UNCHANGED <<part, locVars, extVars, layerVars, scanVars, sensorVars, preVars, mapVars>>
TerrainExtPart(A) ==
    /\ part = "terrain_ext" /\ A
    /\ UNCHANGED <<part, locVars, terrainVars, layerVars, scanVars, sensorVars, preVars, mapVars>>
LayerPart(A) ==
    /\ part = "layer" /\ A
    /\ UNCHANGED <<part, locVars, terrainVars, extVars, scanVars, sensorVars, preVars, mapVars>>
ScanPart(A) ==
    /\ part \in Nodes /\ A
    /\ UNCHANGED <<part, locVars, terrainVars, extVars, layerVars, sensorVars, preVars, mapVars>>
SensorPart(A) ==
    /\ part = "sensor_scan" /\ A
    /\ UNCHANGED <<part, locVars, terrainVars, extVars, layerVars, scanVars, preVars, mapVars>>
PrePart(A) ==
    /\ part = "preprocess" /\ A
    /\ UNCHANGED <<part, locVars, terrainVars, extVars, layerVars, scanVars, sensorVars, mapVars>>
MapPart(A) ==
    /\ part = "local_map" /\ A
    /\ UNCHANGED <<part, locVars, terrainVars, extVars, layerVars, scanVars, sensorVars, preVars>>

(* No message after the last                                               *)
SensorsSilent == (odometry = MaxPair \/ scan = MaxPair) /\ UNCHANGED sensorVars
LidarSilent == frames = <<>> /\ pre_count = MaxPreScans /\ UNCHANGED preVars
OdometryDone == feats = <<>> /\ processed = MaxMapScans /\ UNCHANGED mapVars

MCNext == \/ LocalizationPart(LocNext)
          \/ TerrainPart(TerrainNext)
          \/ TerrainExtPart(ExtNext)
          \/ LayerPart(LayerNext)
          \/ ScanPart(ScanNext(part))
          \/ SensorPart(SensorNext)
          \/ SensorPart(SensorsSilent)
          \/ PrePart(PreNext)
          \/ PrePart(LidarSilent)
          \/ MapPart(MapNext)
          \/ MapPart(OdometryDone)

MCSpec == MCInit /\ [][MCNext]_mappingVars
          /\ \A n \in Nodes : WF_mappingVars(part = n /\ ScanPart(ListenerThread(n)))

(* The values of every part's variables, and of those at rest              *)
MappingTypeOK == /\ LocTypeOK /\ TerrainTypeOK /\ ExtTypeOK
                 /\ LayerTypeOK /\ ScanTypeOK /\ SensorTypeOK
                 /\ PreTypeOK /\ MapTypeOK
=============================================================================
