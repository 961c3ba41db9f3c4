--------------------------- MODULE TerrainAnalysisExt ---------------------------
(***************************************************************************)
(* terrain_analysis_ext: the wider map.  The same rolling grid; a search   *)
(* from the vehicle over terrain that is connected keeps ceilings out; and *)
(* within a radius terrain_analysis' own map is taken instead.  One thread *)
(* runs callbacks, then the pipeline; the search is one step per voxel     *)
(* taken from its queue.                                                   *)
(***************************************************************************)
EXTENDS VoxelGrid

CONSTANTS ExtVehicles, ExtScans, ExtClearingDis, ExtSettings,
          LocalMaps,     \* sets of points [at, z] terrain_map may hold
          ConnReach,     \* 10 in the code
          ExtMaxStamp

ASSUME ExtAssumption ==
    /\ \A v \in ExtVehicles : v.at \in Int \X Int
    /\ \A scan \in ExtScans : IsFiniteSet(scan) /\ \A p \in scan : p.at \in Int \X Int
    /\ \A s \in ExtSettings : s.decay \in Nat /\ s.time_thre \in Nat \ {0}
    /\ ExtMaxStamp \in Nat

VARIABLES ext_settings, ext_vehicle, ext_now, ext_crop, ext_new, ext_grid,
          ext_clearing, ext_clearing_dis,
          local,        \* terrainCloudLocal
          stage,        \* "callbacks", "searching", "searched"
          elev,         \* planarVoxelElev
          conn,         \* planarVoxelConn
          queue,        \* planarVoxelQueue
          ext_published, ext_rolled

extVars == <<ext_settings, ext_vehicle, ext_now, ext_crop, ext_new, ext_grid, ext_clearing,
             ext_clearing_dis, local, stage, elev, conn, queue, ext_published, ext_rolled>>

Flat == [c \in Planar |-> 0]

ExtInit ==
    /\ ext_settings \in ExtSettings
    /\ ext_vehicle = [at |-> <<0, 0>>, z |-> 0] /\ ext_now = -1
    /\ ext_crop = {} /\ ext_new = FALSE /\ ext_grid = EmptyGrid
    /\ ext_clearing = FALSE /\ ext_clearing_dis \in ExtClearingDis /\ local = {}
    /\ stage = "callbacks" /\ elev = Flat /\ conn = Flat /\ queue = <<>>
    /\ ext_published = {} /\ ext_rolled = 0

search == <<stage, elev, conn, queue>>

extOdometryHandler(v) ==
    /\ stage = "callbacks"
    /\ ext_vehicle' = v
    /\ UNCHANGED <<ext_settings, ext_now, ext_crop, ext_new, ext_grid, ext_clearing,
                   ext_clearing_dis, local, search, ext_published, ext_rolled>>

extLaserCloudHandler(scan) ==
    /\ stage = "callbacks" /\ ext_now < ExtMaxStamp
    /\ ext_now' = ext_now + 1
    /\ ext_crop' = Cropped({[at |-> p.at, z |-> p.z, time |-> ext_now'] : p \in scan},
                           ext_vehicle, ext_settings)
    /\ ext_new' = TRUE
    /\ UNCHANGED <<ext_settings, ext_vehicle, ext_grid, ext_clearing, ext_clearing_dis,
                   local, search, ext_published, ext_rolled>>

terrainCloudLocalHandler(map) ==
    /\ stage = "callbacks"
    /\ local' = map
    /\ UNCHANGED <<ext_settings, ext_vehicle, ext_now, ext_crop, ext_new, ext_grid,
                   ext_clearing, ext_clearing_dis, search, ext_published, ext_rolled>>

(* Of a joystick message too; it leaves the distance as it is.             *)
extClearingHandler(dis) ==
    /\ stage = "callbacks"
    /\ ext_clearing' = TRUE /\ ext_clearing_dis' = dis
    /\ UNCHANGED <<ext_settings, ext_vehicle, ext_now, ext_crop, ext_new, ext_grid,
                   local, search, ext_published, ext_rolled>>

-----------------------------------------------------------------------------
ExtRolled == Rolled(ext_grid, ext_vehicle)

ExtStacked == Stacked(ExtRolled, ext_crop, ext_vehicle)

ExtRefreshed == Refreshed(ExtStacked, ext_now, ext_vehicle, ext_clearing,
                          ext_clearing_dis, ext_settings)

ExtLevel(terrain) == {q \in terrain : Level(q[2], ext_vehicle, ext_settings)}

Middle == <<PlanarHalf, PlanarHalf>>

(* Where the scans show nothing at all                                     *)
Bare(c, terrain) == Around(c, ExtLevel(terrain), ext_vehicle) = {}

(* Under the vehicle, if nothing is seen there, the ground is guessed.     *)
ExtElevation(terrain) ==
    [c \in Planar |-> IF c = Middle /\ ext_settings.check_conn /\ Bare(c, terrain)
                      THEN ext_vehicle.z + ext_settings.under_vehicle
                      ELSE Ground(Around(c, ExtLevel(terrain), ext_vehicle), ext_settings)]

(* The main loop up to the search                                          *)
ExtPipeline ==
    /\ stage = "callbacks" /\ ext_new
    /\ ext_new' = FALSE
    /\ ext_grid' = ExtRefreshed
    /\ ext_rolled' = IF ExtRolled.shift = ext_grid.shift THEN ext_rolled ELSE ext_now
    /\ elev' = ExtElevation(Terrain(ExtRefreshed))
    /\ IF ext_settings.check_conn
       THEN /\ stage' = "searching"
            /\ queue' = <<Middle>> /\ conn' = [Flat EXCEPT ![Middle] = 1]
       ELSE stage' = "searched" /\ queue' = <<>> /\ conn' = Flat
    /\ UNCHANGED <<ext_settings, ext_vehicle, ext_now, ext_crop, ext_clearing,
                   ext_clearing_dis, local, ext_published>>

InReach(c, d) == Abs(c[1] - d[1]) <= ConnReach /\ Abs(c[2] - d[2]) <= ConnReach

Row == 2 * PlanarHalf + 1

Number(c) == Row * c[1] + c[2]

(* Those cells in the order of their numbers                               *)
ByIndex(cells) ==
    [i \in 1..Cardinality(cells) |->
       CHOOSE c \in cells : Cardinality({d \in cells : Number(d) <= Number(c)}) = i]

(* Mutant: heights are compared with the one under the vehicle.            *)
ConnectsToMiddle(front, c) == Abs(elev[Middle] - elev[c]) < ext_settings.conn_thre

Connects(front, c) == Abs(elev[front] - elev[c]) < ext_settings.conn_thre

IsCeiling(front, c) == /\ ~Connects(front, c)
                       /\ Abs(elev[front] - elev[c]) > ext_settings.ceiling_thre

(* One round of the search: a voxel not yet classified joins, or is taken  *)
(* for a ceiling for good, or is left for another.                         *)
Search ==
    /\ stage = "searching" /\ queue # <<>>
    /\ LET front == Head(queue)
           open  == {c \in Planar \ {front} : /\ InReach(front, c) /\ conn[c] = 0
                                              /\ ~Bare(c, Terrain(ext_grid))}
           joins == {c \in open : Connects(front, c)}
       IN /\ queue' = Tail(queue) \o ByIndex(joins)
          /\ conn' = [c \in Planar |-> CASE c = front -> 2
                                         [] c \in joins -> 1
                                         [] c \in open /\ IsCeiling(front, c) -> -1
                                         [] OTHER -> conn[c]]
    /\ UNCHANGED <<ext_settings, ext_vehicle, ext_now, ext_crop, ext_new, ext_grid,
                   ext_clearing, ext_clearing_dis, local, stage, elev, ext_published,
                   ext_rolled>>

SearchEnds == /\ stage = "searching" /\ queue = <<>>
              /\ stage' = "searched"
              /\ UNCHANGED <<ext_settings, ext_vehicle, ext_now, ext_crop, ext_new,
                             ext_grid, ext_clearing, ext_clearing_dis, local, elev, conn,
                             queue, ext_published, ext_rolled>>

(* The map beyond the radius                                               *)
Wide(terrain) ==
    {[at |-> q[2].at, z |-> q[2].z] :
       q \in {r \in ExtLevel(terrain) :
                LET c == PlanarOf(r[2], ext_vehicle)
                IN /\ Dist(r[2].at, ext_vehicle.at) > ext_settings.radius
                   /\ c \in Planar
                   /\ Abs(r[2].z - elev[c]) < ext_settings.vehicle_height
                   /\ conn[c] = 2 \/ ~ext_settings.check_conn}}

(* ... and within it.                                                      *)
Close == {p \in local : Dist(p.at, ext_vehicle.at) <= ext_settings.radius}

(* The rest of the main loop                                               *)
ExtPublish ==
    /\ stage = "searched"
    /\ ext_published' = Wide(Terrain(ext_grid)) \cup Close
    /\ ext_clearing' = FALSE /\ stage' = "callbacks"
    /\ UNCHANGED <<ext_settings, ext_vehicle, ext_now, ext_crop, ext_new, ext_grid,
                   ext_clearing_dis, local, elev, conn, queue, ext_rolled>>

ExtNext == \/ \E v \in ExtVehicles : extOdometryHandler(v)
           \/ \E scan \in ExtScans : extLaserCloudHandler(scan)
           \/ \E map \in LocalMaps : terrainCloudLocalHandler(map)
           \/ \E dis \in ExtClearingDis \cup {ext_clearing_dis} : extClearingHandler(dis)
           \/ ExtPipeline \/ Search \/ SearchEnds \/ ExtPublish

ExtSpec == ExtInit /\ [][ExtNext]_extVars

-----------------------------------------------------------------------------
ExtTypeOK ==
    /\ ext_settings \in ExtSettings /\ ext_now \in -1..ExtMaxStamp
    /\ ext_new \in BOOLEAN /\ ext_clearing \in BOOLEAN
    /\ local \in LocalMaps \cup {{}}
    /\ stage \in {"callbacks", "searching", "searched"}
    /\ DOMAIN elev = Planar /\ conn \in [Planar -> {-1, 0, 1, 2}]
    /\ queue \in Seq(Planar) /\ Len(queue) <= Cardinality(Planar)
    /\ ext_rolled \in 0..ExtMaxStamp

ExtStaleWhileRolling ==
    ~ext_new /\ ext_settings.no_decay_dis = 0 /\ ext_now - ext_rolled >= ext_settings.time_thre
    => NoneOlder(ext_grid, ext_now, ext_settings)

(* What the search finds: every voxel it keeps is joined to the vehicle's  *)
(* by a chain of small steps; and none it has left out could be stepped on *)
(* from one it keeps, except the ceilings, which are high above a voxel    *)
(* that is kept.                                                           *)
SmallSteps(terrain) ==
    {s \in Planar \X Planar : /\ InReach(s[1], s[2]) /\ ~Bare(s[2], terrain)
                              /\ Abs(elev[s[1]] - elev[s[2]]) < ext_settings.conn_thre}

Joined(steps) ==
    LET reach[n \in 0..Cardinality(Planar)] ==
            IF n = 0 THEN {Middle}
            ELSE reach[n - 1]
                 \cup {b \in Planar : \E a \in reach[n - 1] : <<a, b>> \in steps}
    IN reach[Cardinality(Planar)]

TerrainIsConnected ==
    stage = "searched" /\ ext_settings.check_conn =>
        LET steps == SmallSteps(Terrain(ext_grid))
            kept == {c \in Planar : conn[c] = 2}
            ceilings == {c \in Planar : conn[c] = -1}
        IN /\ kept \subseteq Joined(steps)
           /\ \A s \in steps : s[1] \in kept => s[2] \in kept \cup ceilings
           /\ \A b \in ceilings : \E a \in kept :
                 InReach(a, b) /\ Abs(elev[a] - elev[b]) > ext_settings.ceiling_thre
=============================================================================
