------------------------------ MODULE LocalMap ------------------------------
(***************************************************************************)
(* The local map of point_lio: the voxels of ivox, which keep the points   *)
(* added to them and leave the map when they have not been added to for    *)
(* long, and what the main loop does with it: it fills the first map,      *)
(* looks up the neighbours of each point of a scan to correct the position *)
(* with, publishes, and adds the points that are new.  Space is one axis,  *)
(* and so is the filter's state; whether a plane fits the neighbours and   *)
(* what the filter makes of it are arbitrary.                              *)
(***************************************************************************)
EXTENDS Integers, Sequences, FiniteSets, SequencesExt, Ordering

CONSTANTS resolution_,          \* edge of a voxel
          nearby_grids_,        \* offsets of the voxels to search
          capacity_,            \* of the map, in voxels
          max_range,            \* of a neighbour
          NUM_MATCH_POINTS,     \* neighbours looked up (5 in the code)
          filter_size_map_min,  \* of two points this close one is enough
          init_map_size,        \* points of the first map
          MapMinimum,           \* smaller scans are not added (4 in the code)
          SleepScans,           \* scans the prior map is left alone for (200 in the code)
          prior_map, init_pose, \* the prior map and where the robot is in it
          MapScans,             \* bound: downsampled scans, in the lidar's frame
          MaxCorrection,        \* bound: the filter moves the position by 0..this at a point
          MaxMapScans           \* bound: scans processed

ASSUME LocalMapAssumption ==
    /\ resolution_ \in Nat \ {0} /\ nearby_grids_ \subseteq Int /\ capacity_ \in Nat \ {0}
    /\ max_range \in Nat /\ NUM_MATCH_POINTS \in Nat \ {0} /\ filter_size_map_min \in Nat \ {0}
    /\ init_map_size \in Nat /\ MapMinimum \in Nat /\ SleepScans \in Nat
    /\ prior_map \in Seq(Int) /\ init_pose \in Int /\ MapScans \subseteq Seq(Int) \ {<<>>}
    /\ MaxCorrection \in Nat /\ MaxMapScans \in Nat

VARIABLES
    enable_prior_pcd,     \* start from a map of an earlier run
    init_map_, init_feats_world,
    grids_cache_,         \* keys of the voxels, the one added to last in front
    grids_map_,           \* the points of each voxel
    pos,                  \* kf_output.x_.pos
    is_first_kf,
    feats,                \* the scan being processed
    world,                \* its points in the world as far as they are known
    Nearest_Points,       \* the neighbours found for each index, whichever scan they were for
    sleep_time,
    processed,            \* bound's counter
    outcome,              \* the pose and the points last published
    added                 \* history: keys of the points added

mapVars == <<enable_prior_pcd, init_map_, init_feats_world, grids_cache_, grids_map_, pos,
             is_first_kf, feats, world, Nearest_Points, sleep_time, processed, outcome, added>>

MapInit ==
    /\ enable_prior_pcd \in BOOLEAN
    /\ init_map_ = FALSE /\ init_feats_world = <<>>
    /\ grids_cache_ = <<>> /\ grids_map_ = [key \in {} |-> <<>>]
    /\ pos = 0 /\ is_first_kf = TRUE
    /\ feats = <<>> /\ world = <<>> /\ Nearest_Points = <<>>
    /\ sleep_time = 0 /\ processed = 0 /\ outcome = [pose |-> 0, cloud |-> <<>>] /\ added = <<>>

-----------------------------------------------------------------------------
Pos2Grid(p) == p \div resolution_

Distance(p, q) == IF p < q THEN q - p ELSE p - q

(* A point of the map by its place, as DistPoint has it: the voxel and the *)
(* point's number there                                                    *)
Places(key) == {key} \X DOMAIN grids_map_[key]
PointAt(q) == grids_map_[q[1]][q[2]]

(* Of two candidates, which nth_element takes first (any, of equally near  *)
(* ones: here the one of the earlier place)                                *)
Closer(q, r, pt) ==
    \/ Distance(PointAt(q), pt) < Distance(PointAt(r), pt)
    \/ /\ Distance(PointAt(q), pt) = Distance(PointAt(r), pt)
       /\ q[1] < r[1] \/ (q[1] = r[1] /\ q[2] < r[2])

Nearest(candidates, pt) ==
    {q \in candidates : Cardinality({r \in candidates : Closer(r, q, pt)}) < NUM_MATCH_POINTS}

Within(key, pt) == {q \in Places(key) : Distance(PointAt(q), pt) < max_range}
KNNPointByCondition(key, pt) == Nearest(Within(key, pt), pt)

Neighbours(pt) == {Pos2Grid(pt) + d : d \in nearby_grids_} \cap DOMAIN grids_map_

(* The nearest of the candidates of all voxels around                      *)
GetClosestPoint(pt) == Nearest(UNION {KNNPointByCondition(key, pt) : key \in Neighbours(pt)}, pt)

(* Mutant: a voxel that is added to stays where it is in the list.         *)
AddPointInPlace(m, p) ==
    LET key == Pos2Grid(p)
    IN  IF key \in DOMAIN m.grids
        THEN [m EXCEPT !.grids[key] = Append(@, p)]
        ELSE LET grids == [k \in DOMAIN m.grids \cup {key} |->
                              IF k = key THEN <<p>> ELSE m.grids[k]]
                 cache == <<key>> \o m.cache
             IN  IF Cardinality(DOMAIN grids) < capacity_ THEN [cache |-> cache, grids |-> grids]
                 ELSE [cache |-> Front(cache),
                       grids |-> [k \in DOMAIN grids \ {Last(cache)} |-> grids[k]]]

(* A voxel added to moves to the front; a new one comes there, and makes   *)
(* the last one leave if there are capacity_ then.                         *)
AddPoint(m, p) ==
    LET key == Pos2Grid(p)
    IN  IF key \in DOMAIN m.grids
        THEN [cache |-> <<key>> \o RemoveAt(m.cache, CHOOSE i \in DOMAIN m.cache : m.cache[i] = key),
              grids |-> [m.grids EXCEPT ![key] = Append(@, p)]]
        ELSE LET grids == [k \in DOMAIN m.grids \cup {key} |->
                              IF k = key THEN <<p>> ELSE m.grids[k]]
                 cache == <<key>> \o m.cache
             IN  IF Cardinality(DOMAIN grids) < capacity_ THEN [cache |-> cache, grids |-> grids]
                 ELSE [cache |-> Front(cache),
                       grids |-> [k \in DOMAIN grids \ {Last(cache)} |-> grids[k]]]

AddPoints(points_to_add) ==
    /\ LET m[n \in 0..Len(points_to_add)] ==
               IF n = 0 THEN [cache |-> grids_cache_, grids |-> grids_map_]
               ELSE AddPoint(m[n - 1], points_to_add[n])
           all == m[Len(points_to_add)]
       IN  grids_cache_' = all.cache /\ grids_map_' = all.grids
    /\ added' = added \o [i \in DOMAIN points_to_add |-> Pos2Grid(points_to_add[i])]

-----------------------------------------------------------------------------
pointBodyToWorld(p, at) == at + p

(* Scans gather until they have the points of a first map, which is the    *)
(* prior one if there is one.                                              *)
InitMap(scan) ==
    /\ feats = <<>> /\ ~init_map_ /\ processed < MaxMapScans
    /\ processed' = processed + 1
    /\ LET gathered == init_feats_world \o [i \in DOMAIN scan |-> pointBodyToWorld(scan[i], pos)]
       IN  IF Len(gathered) < init_map_size
           THEN init_feats_world' = gathered
                /\ UNCHANGED <<init_map_, grids_cache_, grids_map_, added>>
           ELSE /\ AddPoints(IF enable_prior_pcd THEN prior_map ELSE gathered)
                /\ init_feats_world' = <<>> /\ init_map_' = TRUE
    /\ UNCHANGED <<enable_prior_pcd, pos, is_first_kf, feats, world, Nearest_Points, sleep_time,
                   outcome>>

(* Nearest_Points.resize(feats_down_size) keeps what it has.               *)
StartMatching(scan) ==
    /\ feats = <<>> /\ init_map_ /\ processed < MaxMapScans
    /\ processed' = processed + 1
    /\ feats' = scan /\ world' = <<>>
    /\ Nearest_Points' = [i \in DOMAIN scan |->
                             IF i \in DOMAIN Nearest_Points THEN Nearest_Points[i] ELSE <<>>]
    /\ UNCHANGED <<enable_prior_pcd, init_map_, init_feats_world, grids_cache_, grids_map_, pos,
                   is_first_kf, sleep_time, outcome, added>>

(* h_model_output, then the filter's update if the point was of use.  The  *)
(* neighbours of a point that has none stay those of the index's last use. *)
MatchPoint ==
    /\ Len(world) < Len(feats)
    /\ LET i == Len(world) + 1
           found == GetClosestPoint(pointBodyToWorld(feats[i], pos))
       IN  /\ Nearest_Points' = (IF found = {} THEN Nearest_Points
                                 ELSE [Nearest_Points EXCEPT ![i] = [q \in found |-> PointAt(q)]])
           /\ \E point_selected_surf \in
                     {FALSE, Cardinality(DOMAIN Nearest_Points'[i]) = NUM_MATCH_POINTS},
                 correction \in 0..MaxCorrection :
                 pos' = IF point_selected_surf THEN pos + correction ELSE pos
           /\ world' = Append(world, pointBodyToWorld(feats[i], pos'))
    /\ UNCHANGED <<enable_prior_pcd, init_map_, init_feats_world, grids_cache_, grids_map_,
                   is_first_kf, feats, sleep_time, processed, outcome, added>>

(* MapIncremental: a point that has a neighbour in its cell of the filter  *)
(* is not added.                                                           *)
FilterCell(p) == p \div filter_size_map_min
NewPoints ==
    LET order == Ascending({i \in DOMAIN world :
                   FilterCell(world[i]) \notin {FilterCell(p) : p \in Range(Nearest_Points[i])}})
    IN  [k \in DOMAIN order |-> world[order[k]]]

(* After the last point.  set_posestamp puts the filter at init_pose the   *)
(* first time it is called, if there is a prior map.                       *)
PublishAndAdd ==
    /\ feats # <<>> /\ Len(world) = Len(feats)
    /\ pos' = IF enable_prior_pcd /\ is_first_kf THEN init_pose ELSE pos
    /\ is_first_kf' = (is_first_kf /\ ~enable_prior_pcd)
    /\ outcome' = [pose |-> pos', cloud |-> world]
    /\ sleep_time' = IF enable_prior_pcd /\ Len(feats) > MapMinimum /\ sleep_time <= SleepScans
                     THEN sleep_time + 1 ELSE sleep_time
    /\ IF Len(feats) > MapMinimum /\ (enable_prior_pcd => sleep_time' > SleepScans)
       THEN AddPoints(NewPoints)
       ELSE UNCHANGED <<grids_cache_, grids_map_, added>>
    /\ feats' = <<>> /\ world' = <<>>
    /\ UNCHANGED <<enable_prior_pcd, init_map_, init_feats_world, Nearest_Points, processed>>

MapNext == \/ \E scan \in MapScans : InitMap(scan) \/ StartMatching(scan)
           \/ MatchPoint \/ PublishAndAdd

-----------------------------------------------------------------------------
MapTypeOK ==
    /\ enable_prior_pcd \in BOOLEAN /\ init_map_ \in BOOLEAN /\ is_first_kf \in BOOLEAN
    /\ init_feats_world \in Seq(Int) /\ Len(init_feats_world) <= init_map_size
    /\ grids_cache_ \in Seq(Int) /\ \A key \in DOMAIN grids_map_ : grids_map_[key] \in Seq(Int)
    /\ pos \in Int /\ feats \in Seq(Int) /\ world \in Seq(Int) /\ Len(world) <= Len(feats)
    /\ sleep_time \in Nat /\ processed \in 0..MaxMapScans
    /\ DOMAIN feats \subseteq DOMAIN Nearest_Points
    /\ \A i \in DOMAIN Nearest_Points : Range(Nearest_Points[i]) \subseteq Int
    /\ outcome.pose \in Int /\ outcome.cloud \in Seq(Int) /\ added \in Seq(Int)

(* The voxels of the map, in the list and in the hash map alike, are those *)
(* added to last, in that order and one less than capacity_ of them, and   *)
(* no other voxel has come or gone with the sequence of scans.             *)
LastIn(s, key) == CHOOSE i \in DOMAIN s : s[i] = key /\ \A j \in DOMAIN s : j > i => s[j] # key
VoxelsAreRecent ==
    /\ DOMAIN grids_map_ = Range(grids_cache_)
    /\ \A i, j \in DOMAIN grids_cache_ :
          i < j => LastIn(added, grids_cache_[i]) > LastIn(added, grids_cache_[j])
    /\ \A key \in Range(added) :
          key \in DOMAIN grids_map_ <=>
              Cardinality({other \in Range(added) : LastIn(added, other) > LastIn(added, key)})
                  < capacity_ - 1

(* Anywhere in the map the points found are as many as asked for, if there *)
(* are as many within reach, and what each voxel and then the search leave *)
(* out is no nearer than any of them.                                      *)
NearestFound ==
    \A pt \in {pos + p : p \in UNION {Range(scan) : scan \in MapScans}} :
        LET all == UNION {Within(key, pt) : key \in Neighbours(pt)}
            found == GetClosestPoint(pt)
        IN  /\ found \subseteq all
            /\ Cardinality(found) = IF Cardinality(all) < NUM_MATCH_POINTS THEN Cardinality(all)
                                    ELSE NUM_MATCH_POINTS
            /\ \A q \in found, r \in all \ found :
                  Distance(PointAt(q), pt) <= Distance(PointAt(r), pt)

(* Together: a point is matched against the nearest of what was added to   *)
(* the voxels around it, as long as those are among the last added to.     *)
MapAnswersFromRecent == VoxelsAreRecent /\ NearestFound
=============================================================================
