------------------------- MODULE LaserScanConversion -------------------------
(***************************************************************************)
(* The two nodes of pointcloud_to_laserscan.  Each subscribes to its input *)
(* only while somebody listens to its output: a thread of its own looks at *)
(* the number of listeners, (un)subscribes, asks for the graph's event and *)
(* waits for it or for 100 ms.  The callback runs on the executor's        *)
(* thread.  Angles are counted from angle_min; a cloud is a set of points  *)
(* [angle, range, z, i], of a point without numbers nothing is known.      *)
(***************************************************************************)
EXTENDS Integers, FiniteSets, FiniteSetsExt

CONSTANTS Laser,     \* parameters: width (angle_max - angle_min), increment, min_height,
                     \* max_height, min_i, max_i, range_min, range_max
          Clouds     \* bound: what arrives on cloud_in

(* The last ray would lie behind ranges if the width were a multiple; a    *)
(* range is the hypotenuse of two coordinates.                             *)
ASSUME LaserScanAssumption ==
    /\ Laser.increment \in Nat \ {0} /\ Laser.width \in Nat
    /\ Laser.width % Laser.increment # 0
    /\ Laser.range_max \in Int /\ \A cloud \in Clouds : \A p \in cloud : p.range \in Nat

Nodes == {"cloud_to_scan", "scan_to_cloud"}
Rays == 0..Laser.width \div Laser.increment
NoHit == Laser.range_max + 1    \* infinity, or range_max + inf_epsilon

VARIABLES sub,        \* sub_ has a subscriber
          alive,      \* alive_
          thread,     \* what subscription_listener_thread_ does next
          count,      \* subscription_count > 0
          notified,   \* external: the graph changed since the event was taken
          listening,  \* external: somebody listens to the output
          out         \* the last message published, empty before the first

scanVars == <<sub, alive, thread, count, notified, listening, out>>

ScanInit ==
    /\ sub = [n \in Nodes |-> FALSE] /\ alive = [n \in Nodes |-> TRUE]
    /\ thread = [n \in Nodes |-> "look"] /\ count = [n \in Nodes |-> FALSE]
    /\ notified = [n \in Nodes |-> FALSE] /\ listening = [n \in Nodes |-> FALSE]
    /\ out = [n \in Nodes |-> IF n = "cloud_to_scan" THEN <<>> ELSE {}]

-----------------------------------------------------------------------------
(* subscriptionListenerThreadLoop *)
Look(n) ==
    /\ thread[n] = "look"
    /\ IF alive[n] THEN /\ count' = [count EXCEPT ![n] = listening[n]]
                        /\ thread' = [thread EXCEPT ![n] = "follow"]
       ELSE /\ thread' = [thread EXCEPT ![n] = "leave"] /\ UNCHANGED count
    /\ UNCHANGED <<sub, alive, notified, listening, out>>

Follow(n) ==
    /\ thread[n] = "follow"
    /\ sub' = [sub EXCEPT ![n] = count[n]]
    /\ thread' = [thread EXCEPT ![n] = "event"]
    /\ UNCHANGED <<alive, count, notified, listening, out>>

GetGraphEvent(n) ==
    /\ thread[n] = "event"
    /\ notified' = [notified EXCEPT ![n] = FALSE]
    /\ thread' = [thread EXCEPT ![n] = "wait"]
    /\ UNCHANGED <<sub, alive, count, listening, out>>

(* Mutant: a wait without a timeout.                                       *)
WakeByEventOnly(n) ==
    /\ thread[n] = "wait" /\ notified[n]
    /\ thread' = [thread EXCEPT ![n] = "look"]
    /\ UNCHANGED <<sub, alive, count, notified, listening, out>>

(* wait_for_graph_change returns for the event, or after the timeout.      *)
Wake(n) ==
    /\ thread[n] = "wait"
    /\ thread' = [thread EXCEPT ![n] = "look"]
    /\ UNCHANGED <<sub, alive, count, notified, listening, out>>

Leave(n) ==
    /\ thread[n] = "leave"
    /\ sub' = [sub EXCEPT ![n] = FALSE]
    /\ thread' = [thread EXCEPT ![n] = "done"]
    /\ UNCHANGED <<alive, count, notified, listening, out>>

(* ~PointCloudToLaserScanNode.  The other destructor stores true, so its   *)
(* join waits for the ROS context to be shut down, which ends the process. *)
Destroy(n) ==
    /\ n = "cloud_to_scan" /\ alive[n]
    /\ alive' = [alive EXCEPT ![n] = FALSE]
    /\ UNCHANGED <<sub, thread, count, notified, listening, out>>

(* The component is loaded again.                                          *)
Construct(n) ==
    /\ thread[n] = "done"
    /\ thread' = [thread EXCEPT ![n] = "look"] /\ alive' = [alive EXCEPT ![n] = TRUE]
    /\ UNCHANGED <<sub, count, notified, listening, out>>

(* External: the first listener joins, or the last one leaves.             *)
GraphChange(n) ==
    /\ listening' = [listening EXCEPT ![n] = ~@]
    /\ notified' = [notified EXCEPT ![n] = TRUE]
    /\ UNCHANGED <<sub, alive, thread, count, out>>

-----------------------------------------------------------------------------
Accepted2D(p) == /\ p.z >= Laser.min_height /\ p.z <= Laser.max_height
                 /\ p.i >= Laser.min_i /\ p.i <= Laser.max_i
                 /\ p.range >= Laser.range_min /\ p.range <= Laser.range_max
                 /\ p.angle >= 0 /\ p.angle <= Laser.width

RayOf(p) == p.angle \div Laser.increment

Ranges(cloud) ==
    [r \in Rays |-> LET hits == {p.range : p \in {q \in cloud : Accepted2D(q) /\ RayOf(q) = r}}
                    IN  IF hits = {} THEN NoHit ELSE Min(hits)]

(* External: laser_geometry projects the rays that hit something.          *)
Projected(ranges) == {<<r, ranges[r]>> : r \in {s \in Rays : ranges[s] # NoHit}}

(* With a target frame, a message that cannot be transformed in time is    *)
(* dropped.                                                                *)
cloudCallback(cloud) ==
    /\ sub["cloud_to_scan"]
    /\ out' = [out EXCEPT !["cloud_to_scan"] = Ranges(cloud)]
    /\ UNCHANGED <<sub, alive, thread, count, notified, listening>>

scanCallback(ranges) ==
    /\ sub["scan_to_cloud"]
    /\ out' = [out EXCEPT !["scan_to_cloud"] = Projected(ranges)]
    /\ UNCHANGED <<sub, alive, thread, count, notified, listening>>

ListenerThread(n) == Look(n) \/ Follow(n) \/ GetGraphEvent(n) \/ Wake(n) \/ Leave(n)

ScanNext(n) ==
    \/ ListenerThread(n) \/ Destroy(n) \/ Construct(n) \/ GraphChange(n)
    \/ n = "cloud_to_scan" /\ \E cloud \in Clouds : cloudCallback(cloud)
    \/ n = "scan_to_cloud" /\ \E cloud \in Clouds : scanCallback(Ranges(cloud))

(* The threads are scheduled.                                              *)
ScanFairness == \A n \in Nodes : WF_scanVars(ListenerThread(n))
-----------------------------------------------------------------------------
ScanTypeOK ==
    /\ sub \in [Nodes -> BOOLEAN] /\ alive \in [Nodes -> BOOLEAN]
    /\ thread \in [Nodes -> {"look", "follow", "event", "wait", "leave", "done"}]
    /\ count \in [Nodes -> BOOLEAN] /\ notified \in [Nodes -> BOOLEAN]
    /\ listening \in [Nodes -> BOOLEAN]
    /\ out["cloud_to_scan"] \in {Ranges(cloud) : cloud \in Clouds} \cup {<<>>}
    /\ out["scan_to_cloud"] \subseteq Rays \X (0..Laser.range_max)

(* Whoever listens to the output gets the node to subscribe to its input,  *)
(* and when nobody does any more it stops taking it in, at whatever moment *)
(* of the thread's round the listener joins or leaves: also between its    *)
(* count and the event it waits for, which then tells of nothing.          *)
InputFollowsDemand ==
    \A n \in Nodes :
        /\ (alive[n] /\ listening[n]) ~> (sub[n] \/ ~listening[n] \/ ~alive[n])
        /\ (alive[n] /\ ~listening[n]) ~> (~sub[n] \/ listening[n] \/ ~alive[n])
=============================================================================
