------------------------ MODULE SensorScanGeneration ------------------------
(***************************************************************************)
(* Matches the LiDAR's odometry with the registered scans and derives the  *)
(* planar poses of the chassis and of the robot's base, and the scan in    *)
(* the LiDAR's own frame.  The matching is message_filters' (external): it *)
(* pairs each message at most once and in order.  A pose is a position     *)
(* along one axis and whether it leaves the plane; each base is Offset     *)
(* ahead of the LiDAR, which is mounted tilted.                            *)
(***************************************************************************)
EXTENDS Integers

CONSTANTS Positions,     \* bound: where the LiDAR may be
          Offset,        \* from the LiDAR to a base
          MaxPair        \* bound: messages on each topic

ASSUME SensorScanAssumption == Positions \subseteq Int /\ Offset \in Int /\ MaxPair \in Nat

Frames == {"chassis", "robot_base"}    \* base_frame_, robot_base_frame_

VARIABLES odometry,     \* the newest odometry matched: its number
          scan,         \* the newest scan matched: number, which is its stamp
          chassis,      \* odom -> base_frame_ as last sent: pose and stamp
          base,         \* the odometry of robot_base_frame_ last published
          previous_transform,
          sensor_scan   \* last sensor_scan: number of the scan and of the pose it was moved by

sensorVars == <<odometry, scan, chassis, base, previous_transform, sensor_scan>>

SensorInit ==
    /\ odometry = 0 /\ scan = 0
    /\ chassis = [x |-> 0, tilted |-> FALSE, stamp |-> 0]
    /\ base = [x |-> 0, tilted |-> FALSE, stamp |-> 0, moved |-> 0]
    /\ previous_transform = 0
    /\ sensor_scan = [scan |-> 0, pose |-> 0]

(* getTransform: the identity when the lookup fails                        *)
Mounted(found) == IF found THEN [x |-> Offset, tilted |-> TRUE] ELSE [x |-> 0, tilted |-> FALSE]

Times(pose, t) == [x |-> pose.x + t.x, tilted |-> pose.tilted # t.tilted]

toPlanarBaseTransform(t) == [x |-> t.x, tilted |-> FALSE]

(* publishOdometry's twist: the way since the last call, over its duration *)
laserCloudAndOdometryHandler(o, c, pose, found) ==
    /\ odometry' = o /\ scan' = c
    /\ LET at(f) == toPlanarBaseTransform(Times(pose, Mounted(found[f])))
       IN  /\ chassis' = [x |-> at("chassis").x, tilted |-> at("chassis").tilted, stamp |-> c]
           /\ base' = [x |-> at("robot_base").x, tilted |-> at("robot_base").tilted,
                       stamp |-> c, moved |-> at("robot_base").x - previous_transform]
           /\ previous_transform' = at("robot_base").x
    /\ sensor_scan' = [scan |-> c, pose |-> o]

(* ApproximateTime: messages may be lost, what is paired stays in order.   *)
SensorNext ==
    \E o \in odometry + 1..MaxPair, c \in scan + 1..MaxPair,
       x \in Positions, tilted \in BOOLEAN, found \in [Frames -> BOOLEAN] :
        laserCloudAndOdometryHandler(o, c, [x |-> x, tilted |-> tilted], found)
-----------------------------------------------------------------------------
SensorTypeOK ==
    /\ odometry \in 0..MaxPair /\ scan \in 0..MaxPair
    /\ chassis.x \in Int /\ chassis.tilted \in BOOLEAN /\ chassis.stamp = scan
    /\ base.x \in Int /\ base.tilted \in BOOLEAN /\ base.stamp = scan /\ base.moved \in Int
    /\ previous_transform = base.x
    /\ sensor_scan = [scan |-> scan, pose |-> odometry]
=============================================================================
