------------------------- MODULE PointCloudConverter -------------------------
(***************************************************************************)
(* ign_sim_pointcloud_tool: what the simulator's cloud, all of whose       *)
(* points are measured at once, becomes so that point_lio takes it for a   *)
(* Velodyne's.  The ring of a point comes from its elevation, its time     *)
(* from its place in the cloud, which is in rows of horizon_scan points.   *)
(***************************************************************************)
EXTENDS Integers, Sequences

CONSTANTS n_scan, horizon_scan,
          ang_bottom, ang_res_y,  \* degrees below the horizon, and from row to row
          ScanTime                \* 0.1 s

ASSUME ConverterAssumption ==
    /\ n_scan \in Nat \ {0} /\ horizon_scan \in Nat \ {0} /\ ScanTime \in Nat
    /\ ang_bottom \in Int /\ ang_res_y \in Nat \ {0}

(* static_cast<int> cuts towards zero, so that what is less than one row   *)
(* below the lowest counts as of it.                                       *)
row_id(p) ==
    LET up == p.angle + ang_bottom
    IN  IF up >= 0 THEN up \div ang_res_y ELSE -((-up) \div ang_res_y)

PointTime(point_id) == (((point_id - 1) % horizon_scan) * ScanTime) \div horizon_scan

(* A point in none of the rows, as one without return is, is left out.     *)
lidarHandle(original_pc) ==
    LET ids == SelectSeq([i \in DOMAIN original_pc |-> i],
                         LAMBDA i : row_id(original_pc[i]) \in 0..(n_scan - 1))
    IN  [k \in DOMAIN ids |-> [at |-> PointTime(ids[k]), ring |-> row_id(original_pc[ids[k]]),
                               kind |-> original_pc[ids[k]].kind]]
=============================================================================
