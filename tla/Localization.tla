---------------------------- MODULE Localization ----------------------------
(***************************************************************************)
(* From Point-LIO to map -> odom: loam_interface moves odometry and clouds *)
(* into the odom frame, small_gicp_relocalization gathers the clouds and   *)
(* aligns them with the prior map twice a second.  Each node runs its      *)
(* callbacks on one thread; the two are joined by the topic                *)
(* registered_scan, which keeps the newest ScanDepth messages.  A pose is  *)
(* what the properties tell apart: a position along one axis, and whether  *)
(* it leaves the plane (height, roll or pitch).  A cloud's stamp is the    *)
(* time of its last point: scans begin in order but may overlap, and then  *)
(* stamps repeat or go back.                                               *)
(***************************************************************************)
EXTENDS Integers, Sequences

CONSTANTS MaxX,       \* bound: positions are 0..MaxX
          ScanDepth,  \* queue depth of registered_scan: 10
          Lead,       \* 0.1 s
          MaxPublished,   \* bound: clouds Point-LIO publishes
          MaxGap,     \* bound: from the beginning of a scan to that of the next
          MaxSweep     \* bound: how long a scan lasts

ASSUME LocalizationAssumption ==
    /\ MaxX \in Nat /\ ScanDepth \in Nat \ {0}
    /\ Lead \in Nat /\ MaxPublished \in Nat /\ MaxGap \in Nat /\ MaxSweep \in Nat

Pose == [x : 0..MaxX, tilted : BOOLEAN]
projectToPlanar(p) == [p EXCEPT !.tilted = FALSE]

VARIABLES
    tf_ready,     \* external: the transform base -> lidar can be looked up
    initialized,  \* base_frame_to_lidar_initialized_
    scans,        \* clouds Point-LIO has published
    begun,        \* when the scan of the last of them began
    newest,       \* history: the highest of their stamps
    registered,   \* topic registered_scan: [stamp, frame]
    planar_mode,
    accumulated,  \* accumulated_cloud_, scan by scan
    last_scan,    \* last_scan_time_, 0 before current_scan_frame_id_ is set
    result, previous,   \* result_t_ and previous_result_t_
    broadcast,    \* map -> odom as last sent: pose and stamp
    highest       \* history: the highest stamp sent

loam == <<tf_ready, initialized, scans, begun, newest>>
gicp == <<planar_mode, accumulated, last_scan, result, previous, broadcast, highest>>
locVars == <<loam, registered, gicp>>

(* The constructors; init_pose is any pose, projected in planar mode.      *)
LocInit == /\ tf_ready \in BOOLEAN
           /\ initialized = FALSE
           /\ scans = 0 /\ begun = 1 /\ newest = 0 /\ registered = <<>>
           /\ planar_mode \in BOOLEAN
           /\ accumulated = <<>> /\ last_scan = 0
           /\ \E init_pose \in Pose :
                 result = IF planar_mode THEN projectToPlanar(init_pose) ELSE init_pose
           /\ previous = result
           /\ broadcast = [pose |-> result, stamp |-> 0] /\ highest = 0

TfAppears == /\ ~tf_ready /\ tf_ready' = TRUE
             /\ UNCHANGED <<initialized, scans, begun, newest, registered, gicp>>

-----------------------------------------------------------------------------
(* LoamInterfaceNode::odometryCallback looks the transform up once.        *)
odometryCallback ==
    /\ ~initialized /\ tf_ready
    /\ initialized' = TRUE
    /\ UNCHANGED <<tf_ready, scans, begun, newest, registered, gicp>>

(* A number no lower than either                                           *)
Newer(s, t) == IF s < t THEN t ELSE s

(* Point-LIO's next cloud, of a scan that began gap later and lasted span  *)
Publish(gap, span) ==
    /\ scans < MaxPublished
    /\ scans' = scans + 1 /\ begun' = begun + gap
    /\ newest' = Newer(newest, begun' + span)

(* LoamInterfaceNode::pointCloudCallback keeps the stamp and applies       *)
(* tf_odom_to_lidar_odom_ as it is; a tf2::Transform nobody has assigned   *)
(* holds arbitrary numbers.                                                *)
InOdom(span) == [stamp |-> begun' + span, frame |-> IF initialized THEN "odom" ELSE "arbitrary"]

(* Mutant: a topic without a depth.                                        *)
pointCloudCallbackKeepAll(gap, span) ==
    /\ Publish(gap, span)
    /\ registered' = Append(registered, InOdom(span))
    /\ UNCHANGED <<tf_ready, initialized, gicp>>

pointCloudCallback(gap, span) ==
    /\ Publish(gap, span)
    /\ LET full == Append(registered, InOdom(span))
       IN  registered' = IF Len(full) > ScanDepth THEN Tail(full) ELSE full
    /\ UNCHANGED <<tf_ready, initialized, gicp>>

-----------------------------------------------------------------------------
registeredPcdCallback ==
    /\ registered # <<>>
    /\ registered' = Tail(registered)
    /\ accumulated' = Append(accumulated, Head(registered))
    /\ last_scan' = Head(registered).stamp
    /\ UNCHANGED <<loam, planar_mode, result, previous, broadcast, highest>>

(* Mutant: the projection left out.                                        *)
AcceptedUnprojected(T) == T

(* What a converged alignment T leaves in result_t_ and previous_result_t_ *)
Accepted(T) == IF planar_mode THEN projectToPlanar(T) ELSE T

(* Mutant: the transform is stamped with the first of the clouds aligned.  *)
performRegistrationBackdates(converged, T) ==
    /\ accumulated # <<>>
    /\ result' = IF converged THEN Accepted(T) ELSE result
    /\ previous' = IF converged THEN Accepted(T) ELSE previous
    /\ accumulated' = <<>> /\ last_scan' = Head(accumulated).stamp
    /\ UNCHANGED <<loam, registered, planar_mode, broadcast, highest>>

(* performRegistration; align is external and may return any pose.         *)
performRegistration(converged, T) ==
    /\ accumulated # <<>>
    /\ result' = IF converged THEN Accepted(T) ELSE result
    /\ previous' = IF converged THEN Accepted(T) ELSE previous
    /\ accumulated' = <<>>
    /\ UNCHANGED <<loam, registered, planar_mode, last_scan, broadcast, highest>>

(* A map_to_odom computed from /initialpose and TF.  Before the first scan *)
(* the frame name is empty and the lookup throws; later it may throw too,  *)
(* and nothing changes.                                                    *)
initialPoseCallback(map_to_odom) ==
    /\ last_scan > 0
    /\ result' = Accepted(map_to_odom)
    /\ previous' = Accepted(map_to_odom)
    /\ UNCHANGED <<loam, registered, planar_mode, accumulated, last_scan, broadcast, highest>>

(* The stamp is that of the last scan plus a constant.                     *)
publishTransform ==
    /\ broadcast' = [pose |-> result, stamp |-> last_scan + Lead]
    /\ highest' = Newer(highest, last_scan + Lead)
    /\ UNCHANGED <<loam, registered, planar_mode, accumulated, last_scan, result, previous>>

LocNext == \/ TfAppears
           \/ odometryCallback
           \/ \E gap \in 0..MaxGap, span \in 0..MaxSweep : pointCloudCallback(gap, span)
           \/ registeredPcdCallback
           \/ \E converged \in BOOLEAN, T \in Pose : performRegistration(converged, T)
           \/ \E T \in Pose : initialPoseCallback(T)
           \/ publishTransform

LocSpec == LocInit /\ [][LocNext]_locVars

-----------------------------------------------------------------------------
PublishedScan == [stamp : Nat, frame : {"odom", "arbitrary"}]

LocTypeOK ==
    /\ tf_ready \in BOOLEAN /\ initialized \in BOOLEAN
    /\ scans \in 0..MaxPublished /\ begun \in Nat /\ newest \in Nat
    /\ registered \in Seq(PublishedScan) /\ Len(registered) <= ScanDepth
    /\ planar_mode \in BOOLEAN
    /\ accumulated \in Seq(PublishedScan) /\ last_scan \in Nat
    /\ result \in Pose /\ previous \in Pose
    /\ broadcast \in [pose : Pose, stamp : Nat] /\ highest \in Nat

(* In planar mode map -> odom never leaves the plane, whichever of the     *)
(* initial pose parameter, a registration or /initialpose it comes from,   *)
(* and neither does the guess the next registration starts from.           *)
PlanarStaysPlanar ==
    planar_mode => ~result.tilted /\ ~previous.tilted /\ ~broadcast.pose.tilted

(* A stamp of map -> odom may lie before an earlier one, but by no more    *)
(* than a scan lasts, whatever clouds the topic dropped and the callbacks  *)
(* gathered or aligned in between; and it is ahead of the clouds published *)
(* by Lead at most.                                                        *)
StampsStayClose ==
    broadcast.stamp >= highest - MaxSweep /\ broadcast.stamp <= newest + Lead
=============================================================================
