---------------------------- MODULE TerrainAnalysis ----------------------------
(***************************************************************************)
(* terrain_analysis: the obstacles near the vehicle, from the scans of the *)
(* last moments.  One thread runs the callbacks that are ready, then the   *)
(* whole pipeline if there is a new scan, 100 times a second.  The vehicle *)
(* is taken to be level; the angle from which a point counts as steep is   *)
(* the shipped one, 0.                                                     *)
(***************************************************************************)
EXTENDS VoxelGrid

CONSTANTS Vehicles,     \* poses odometry may report
          Scans,        \* sets of points [at, z] a registered scan may hold
          ClearingDis,  \* distances map_clearing may ask for
          TerrainSettings,   \* records of parameters
          MaxStamp      \* bound: stamp of the last scan, from the first one

(* Places are whole numbers here, and a scan holds finitely many points.   *)
ASSUME TerrainAssumption ==
    /\ \A v \in Vehicles : v.at \in Int \X Int
    /\ \A scan \in Scans : IsFiniteSet(scan) /\ \A p \in scan : p.at \in Int \X Int
    /\ \A s \in TerrainSettings :
          /\ {"min_z", "max_z", "sorting", "quantile_percent", "consider_drop", "limit_lift",
              "max_lift", "clear_dyobs", "dyobs_rel_z", "vehicle_height", "min_block_points"}
                \subseteq DOMAIN s
          /\ s.dyobs_points \in Nat \ {0}
          /\ s.decay \in Nat /\ s.time_thre \in Nat \ {0} /\ s.point_thre \in Nat \ {0}
    /\ MaxStamp \in Nat

NoStamp == -1

VARIABLES settings,
          vehicle,
          rec,           \* vehicleXRec, vehicleYRec
          noDataInited,  \* 0, 1: where it began is known, 2: it has moved away
          now,           \* laserCloudTime - systemInitTime, NoStamp before a scan
          crop, newlaserCloud,
          grid,
          clearingCloud, clearing_dis,
          published,     \* [obstacles, edges] of the last map
          rolled,        \* history: stamp at which the grid moved last
          seen           \* history: vehicle's places since it was last cleared

terrainVars == <<settings, vehicle, rec, noDataInited, now, crop, newlaserCloud, grid,
                 clearingCloud, clearing_dis, published, rolled, seen>>

TerrainInit ==
    /\ settings \in TerrainSettings
    /\ vehicle = [at |-> <<0, 0>>, z |-> 0] /\ rec = <<0, 0>> /\ noDataInited = 0
    /\ now = NoStamp /\ crop = {} /\ newlaserCloud = FALSE
    /\ grid = EmptyGrid
    /\ clearingCloud = FALSE /\ clearing_dis \in ClearingDis
    /\ published = [obstacles |-> {}, edges |-> {}]
    /\ rolled = 0 /\ seen = {}

(* The place is recorded first, if there is none.                          *)
odometryHandler(v) ==
    /\ vehicle' = v
    /\ rec' = IF noDataInited = 0 THEN v.at ELSE rec
    /\ noDataInited' = IF noDataInited = 2 \/ Dist(v.at, rec') >= settings.no_decay_dis
                       THEN 2 ELSE 1
    /\ seen' = seen \cup {v.at}
    /\ UNCHANGED <<settings, now, crop, newlaserCloud, grid, clearingCloud, clearing_dis,
                   published, rolled>>

(* A scan that has not been looked at is replaced.                         *)
laserCloudHandler(scan) ==
    /\ now < MaxStamp
    /\ now' = now + 1
    /\ crop' = Cropped({[at |-> p.at, z |-> p.z, time |-> now'] : p \in scan},
                       vehicle, settings)
    /\ newlaserCloud' = TRUE
    /\ UNCHANGED <<settings, vehicle, rec, noDataInited, grid, clearingCloud, clearing_dis,
                   published, rolled, seen>>

(* Mutant: the map is cleared, but not the memory of having moved.         *)
ClearKeepsMoved(dis) ==
    /\ clearingCloud' = TRUE /\ clearing_dis' = dis /\ seen' = {}
    /\ UNCHANGED <<settings, vehicle, rec, noDataInited, now, crop, newlaserCloud, grid,
                   published, rolled>>

Clear(dis) ==
    /\ noDataInited' = 0 /\ clearingCloud' = TRUE /\ clearing_dis' = dis /\ seen' = {}
    /\ UNCHANGED <<settings, vehicle, rec, now, crop, newlaserCloud, grid, published, rolled>>

clearingHandler(dis) == Clear(dis)

(* buttons[5], which a message with fewer buttons lacks: what is read then *)
(* is whatever lies behind them.                                           *)
joystickHandler == Clear(clearing_dis)

-----------------------------------------------------------------------------
InPlane(p, v, s) == p.z - v.z > s.min_z /\ p.z - v.z < s.max_z

Steep(p, v, s) == p.z - v.z > s.dyobs_rel_z

(* Within the field of view, a slope, or near the height of the sensor     *)
InView(p, v, s) == LET dz == Abs(p.z - v.z)
                   IN 100 * dz < s.vfov_percent * Dist(p.at, v.at) \/ dz < s.abs_rel_z

(* Points of the map in a planar voxel: near the vehicle; or further away, *)
(* steep and in view                                                       *)
NearIn(c, points, v, s) ==
    {q \in points : PlanarOf(q[2], v) = c /\ Dist(q[2].at, v.at) <= s.dyobs_dis}
StandingIn(c, points, v, s) ==
    {q \in points : /\ PlanarOf(q[2], v) = c /\ Dist(q[2].at, v.at) > s.dyobs_dis
                    /\ Steep(q[2], v, s) /\ InView(q[2], v, s)}

(* The two loops over planarVoxelDyObs: points of the map are added up, a  *)
(* near one being enough by itself; and where the scan has something steep *)
(* the count is reset.                                                     *)
DyObsCounted(dyobs, points, v, s) ==
    [c \in Planar |-> dyobs[c] + Cardinality(StandingIn(c, points, v, s))
                               + s.dyobs_points * Cardinality(NearIn(c, points, v, s))]

SteepIn(c, scan, v, s) == \E p \in scan : PlanarOf(p, v) = c /\ Steep(p, v, s)

DyObsReset(dyobs, scan, v, s) ==
    [c \in Planar |-> IF SteepIn(c, scan, v, s) THEN 0 ELSE dyobs[c]]

(* Mutant: the scan is looked at before the map.                           *)
DyObsResetFirst(points, scan, v, s) ==
    DyObsCounted(DyObsReset([c \in Planar |-> 0], scan, v, s), points, v, s)

planarVoxelDyObs(points, scan, v, s) ==
    DyObsReset(DyObsCounted([c \in Planar |-> 0], points, v, s), scan, v, s)

(* Limited from the least height                                           *)
Elevation(points, s) ==
    IF s.limit_lift /\ points # {} /\ Ground(points, s) > Least(points) + s.max_lift
    THEN Least(points) + s.max_lift ELSE Ground(points, s)

(* terrainCloudElev, up to the points for missing data                     *)
Obstacles(terrain, scan, v, s) ==
    LET flat == {q \in terrain : InPlane(q[2], v, s)}
        dyobs == planarVoxelDyObs(terrain, scan, v, s)
        Above(q) == q[2].z - Elevation(Around(PlanarOf(q[2], v), flat, v), s)
        Height(q) == IF s.consider_drop THEN Abs(Above(q)) ELSE Above(q)
    IN {[at |-> q[2].at, z |-> q[2].z, height |-> Height(q)] :
          q \in {r \in flat :
                   LET c == PlanarOf(r[2], v)
                   IN /\ c \in Planar
                      /\ ~s.clear_dyobs \/ dyobs[c] < s.dyobs_points
                      /\ Height(r) >= 0 /\ Height(r) < s.vehicle_height
                      /\ Cardinality(Around(c, flat, v)) >= s.min_block_points}}

(* The loop over the planar voxels that adds 1 to those with no smaller    *)
(* neighbour, in place and in the order of their index                     *)
PlanarOrder == [i \in 1..((2 * PlanarHalf + 1) * (2 * PlanarHalf + 1)) |->
                  <<(i - 1) \div (2 * PlanarHalf + 1), (i - 1) % (2 * PlanarHalf + 1)>>]

Grown(edge) ==
    FoldLeft(LAMBDA e, c : IF e[c] >= 1 /\ \A d \in Planar : Beside(c, d) => e[d] >= e[c]
                           THEN [e EXCEPT ![c] = @ + 1] ELSE e,
             edge, PlanarOrder)

(* planarVoxelEdge after noDataBlockSkipNum rounds; four points each.      *)
Edges(terrain, v, s) ==
    LET flat == {q \in terrain : InPlane(q[2], v, s)}
        none == [c \in Planar |-> IF Cardinality(Around(c, flat, v)) < s.min_block_points
                                  THEN 1 ELSE 0]
        edge == FoldLeft(LAMBDA e, round : Grown(e), none, [i \in 1..s.skip |-> i])
    IN {c \in Planar : edge[c] > s.skip}

(* The body of the main loop                                               *)
Pipeline ==
    LET moved == Rolled(grid, vehicle)
        done  == Refreshed(Stacked(moved, crop, vehicle), now, vehicle,
                           clearingCloud, clearing_dis, settings)
    IN /\ newlaserCloud
       /\ newlaserCloud' = FALSE /\ clearingCloud' = FALSE
       /\ grid' = done
       /\ rolled' = IF moved.shift = grid.shift THEN rolled ELSE now
       /\ published' =
            [obstacles |-> Obstacles(Terrain(done), crop, vehicle, settings),
             edges |-> IF settings.no_data_obstacle /\ noDataInited = 2
                       THEN Edges(Terrain(done), vehicle, settings) ELSE {}]
       /\ UNCHANGED <<settings, vehicle, rec, noDataInited, now, crop, clearing_dis, seen>>

TerrainNext == \/ \E v \in Vehicles : odometryHandler(v)
               \/ \E scan \in Scans : laserCloudHandler(scan)
               \/ \E dis \in ClearingDis : clearingHandler(dis)
               \/ joystickHandler
               \/ Pipeline

TerrainSpec == TerrainInit /\ [][TerrainNext]_terrainVars

-----------------------------------------------------------------------------
TerrainTypeOK ==
    /\ settings \in TerrainSettings
    /\ vehicle \in Vehicles \cup {[at |-> <<0, 0>>, z |-> 0]} /\ noDataInited \in 0..2
    /\ now \in NoStamp..MaxStamp /\ newlaserCloud \in BOOLEAN
    /\ DOMAIN grid.cloud = Cells
    /\ \A c \in Cells : /\ grid.num[c] \in 0..(settings.point_thre - 1)
                        /\ grid.time[c] \in 0..MaxStamp
                        /\ \A p \in grid.cloud[c] : p.time \in 0..MaxStamp
    /\ clearingCloud \in BOOLEAN /\ clearing_dis \in ClearingDis
    /\ published.edges \subseteq Planar

TerrainStaleWhileRolling ==
    ~newlaserCloud /\ settings.no_decay_dis = 0 /\ now - rolled >= settings.time_thre
    => NoneOlder(grid, now, settings)

(* What has moved on: the map has something near there or enough that      *)
(* stands out, and the scan just received has nothing steep.               *)
Gone(c, points, scan, v, s) ==
    /\ \/ NearIn(c, points, v, s) # {}
       \/ Cardinality(StandingIn(c, points, v, s)) >= s.dyobs_points
    /\ ~SteepIn(c, scan, v, s)

(* The map that is published lacks what has moved on and nothing else: of  *)
(* the obstacles the points in memory amount to, exactly those of planar   *)
(* voxels that the last scan shows to be free are left out, whatever was   *)
(* counted for them before or lies next to them.                           *)
HiddenExactlyIfGone ==
    [][newlaserCloud /\ ~newlaserCloud' =>
         LET terrain == Terrain(grid')
             all == Obstacles(terrain, crop, vehicle, [settings EXCEPT !.clear_dyobs = FALSE])
         IN published'.obstacles =
              {o \in all : settings.clear_dyobs =>
                              ~Gone(PlanarOf(o, vehicle), terrain, crop, vehicle, settings)}
      ]_terrainVars

(* Missing data is reported as an obstacle only once the vehicle has moved *)
(* far enough since the map was last cleared.                              *)
UnseenOnlyAfterMoving ==
    [][newlaserCloud /\ ~newlaserCloud' /\ published'.edges # {} =>
         \E p, q \in seen : Dist(p, q) >= settings.no_decay_dis]_terrainVars
=============================================================================
