----------------------------- MODULE PubHandler -----------------------------
(***************************************************************************)
(* From UDP packets to frames (comm/pub_handler.cpp).  The SDK's thread    *)
(* appends packets to raw_packet_queue_; the process thread moves their    *)
(* points to the lidar's points_clouds_ and cuts a frame when CheckTimer   *)
(* says so.  Times are in ticks of one millisecond; the points of a packet *)
(* share its number and time.  is_timestamp_sync_ is one flag for all      *)
(* lidars, written by every packet that arrives.                           *)
(***************************************************************************)
EXTENDS Integers, FiniteSets, SequencesExt

CONSTANTS LidarCount,  \* the handles 1..LidarCount send points
          Interval,    \* publish_interval_ms_
          Skews,       \* device clock minus host clock, while synchronised
          MaxTime,     \* bound: host time
          MaxPackets   \* bound: packets per lidar

ASSUME PubHandlerAssumption ==
    /\ LidarCount \in Nat \ {0} /\ Interval \in Nat \ {0}
    /\ Skews \subseteq Nat
    /\ MaxTime \in Nat /\ MaxPackets \in Nat

Handles == 1..LidarCount
Never == -1

VARIABLES
    now,          \* the host clock
    sync,         \* is_timestamp_sync_
    raw,          \* raw_packet_queue_
    raw_data,     \* the packet the process thread took, <<>> before and after
    cloud,        \* [l]: points_clouds_
    last_pub,     \* last_pub_time_, or Never before "first" is cleared
    frame,        \* frame_: lidar_num as published, base_time[], lidar_point[]
    quit,         \* is_quit_
    received,     \* history [l]: packets that arrived
    out           \* history [l]: number of the last packet published

pubVars == <<now, sync, raw, raw_data, cloud, last_pub, frame, quit, received, out>>

PubInit == /\ now = 0
           /\ sync = FALSE
           /\ raw = <<>> /\ raw_data = <<>>
           /\ cloud = [l \in Handles |-> <<>>]
           /\ last_pub = Never
           /\ frame = [lidar_num |-> 0,
                       base_time |-> [i \in Handles |-> 0],
                       lidar_point |-> [i \in Handles |-> <<>>]]
           /\ quit = FALSE
           /\ received = [l \in Handles |-> 0]
           /\ out = [l \in Handles |-> 0]

Tick == /\ now < MaxTime
        /\ now' = now + 1
        /\ UNCHANGED <<sync, raw, raw_data, cloud, last_pub, frame, quit, received, out>>

(* OnLivoxLidarPointCloudCallback; a packet without time synchronisation   *)
(* is stamped on arrival.                                                  *)
Receive(l, synced, skew) ==
    /\ received[l] < MaxPackets
    /\ sync' = synced
    /\ received' = [received EXCEPT ![l] = @ + 1]
    /\ raw' = Append(raw, [lidar |-> l, num |-> received'[l],
                           time |-> IF synced THEN now + skew ELSE now])
    /\ UNCHANGED <<now, raw_data, cloud, last_pub, frame, quit, out>>

(* The same for an IMU packet, which goes past the point queue.            *)
ReceiveImu(synced) ==
    /\ sync' = synced
    /\ UNCHANGED <<now, raw, raw_data, cloud, last_pub, frame, quit, received, out>>

-----------------------------------------------------------------------------
(* RawDataProcess, first half: the locked part.                            *)
Take == /\ ~quit /\ raw_data = <<>> /\ raw # <<>>
        /\ raw_data' = <<Head(raw)>>
        /\ raw' = Tail(raw)
        /\ UNCHANGED <<now, sync, cloud, last_pub, frame, quit, received, out>>

GetLidarBaseTime(points) == IF points = <<>> THEN 0 ELSE Head(points).time
GetRecentTimeStamp(points) == IF points = <<>> THEN 0 ELSE Last(points).time

(* CheckTimer's loop over the lidars ls, in the order of their handles: a  *)
(* lidar with points takes the next free entry of frame_.  The base time   *)
(* is written first, so one without points leaves a 0 in the entry, which  *)
(* stays the next one.                                                     *)
Giving(c, ls) == {l \in ls : c[l] # <<>>}

Framed(c, ls) ==
    LET giving == Giving(c, ls)
        n == Cardinality(giving)
        giver == [i \in 1..n |-> CHOOSE l \in giving : Cardinality({k \in giving : k <= l}) = i]
        passed == \E l \in ls \ giving : \A k \in giving : k < l
    IN [lidar_num   |-> n,
        base_time   |-> [i \in Handles |-> IF i <= n THEN GetLidarBaseTime(c[giver[i]])
                                           ELSE IF i = n + 1 /\ passed THEN 0
                                           ELSE frame.base_time[i]],
        lidar_point |-> [i \in Handles |-> IF i <= n THEN c[giver[i]]
                                                     ELSE frame.lidar_point[i]]]

(* Mutant: the points are copied, not swapped out.                         *)
PublishCopy(c, ls) ==
    /\ frame' = Framed(c, ls)
    /\ cloud' = c
    /\ out' = [l \in Handles |-> IF l \in Giving(c, ls) THEN Last(c[l]).num ELSE out[l]]

(* The swap leaves the clouds empty.                                       *)
PublishPointCloud(c, ls) ==
    /\ frame' = Framed(c, ls)
    /\ cloud' = [l \in Handles |-> IF l \in ls THEN <<>> ELSE c[l]]
    /\ out' = [l \in Handles |-> IF l \in Giving(c, ls) THEN Last(c[l]).num ELSE out[l]]

NotYet(c) == cloud' = c /\ UNCHANGED <<frame, out>>

(* With time synchronisation: on a multiple of the interval, when enough   *)
(* points have gathered.  The difference is unsigned, so a device clock    *)
(* that jumped back makes it enormous.                                     *)
SyncTimerFires(points) ==
    LET recent == GetRecentTimeStamp(points)
        diff == recent - GetLidarBaseTime(points)
    IN  recent % Interval = 0 /\ recent # 0 /\ (diff >= Interval - 1 \/ diff < 0)

(* The lidars with an entry in lidar_process_handlers_: points seen.       *)
Known(c) == {l \in Handles : out[l] > 0 \/ c[l] # <<>>}

CheckTimer(id, c) ==
    IF sync
    THEN /\ UNCHANGED last_pub
         /\ IF SyncTimerFires(c[id]) THEN PublishPointCloud(c, {id}) ELSE NotYet(c)
    ELSE IF last_pub = Never
    THEN last_pub' = now /\ NotYet(c)
    ELSE IF now - last_pub < Interval
    THEN UNCHANGED last_pub /\ NotYet(c)
    ELSE last_pub' = last_pub + Interval /\ PublishPointCloud(c, Known(c))

(* RawDataProcess, second half: PointCloudProcess and CheckTimer.          *)
Process ==
    /\ raw_data # <<>>
    /\ LET id == raw_data[1].lidar
       IN  CheckTimer(id, [cloud EXCEPT ![id] = Append(@, raw_data[1])])
    /\ raw_data' = <<>>
    /\ UNCHANGED <<now, sync, raw, quit, received>>

(* Uninit, at the end of the process                                       *)
RequestExit == /\ ~quit /\ quit' = TRUE
               /\ UNCHANGED <<now, sync, raw, raw_data, cloud, last_pub, frame, received, out>>

PubNext == \/ Tick
           \/ \E l \in Handles, synced \in BOOLEAN, skew \in Skews : Receive(l, synced, skew)
           \/ \E synced \in BOOLEAN : ReceiveImu(synced)
           \/ Take \/ Process \/ RequestExit

PubSpec == PubInit /\ [][PubNext]_pubVars

-----------------------------------------------------------------------------
(* Nothing a lidar sent is lost, doubled or reordered between the socket   *)
(* and the frame: what is on its way, oldest first, are those packets that *)
(* arrived and were not published, each once and in the order of arrival,  *)
(* however the two publishing modes alternate.                             *)
PointsAccountedFor ==
    \A l \in Handles :
        LET way  == cloud[l] \o (raw_data \o raw)
            mine == {i \in DOMAIN way : way[i].lidar = l}
        IN  /\ {way[i].num : i \in mine} = (out[l] + 1)..received[l]
            /\ \A i, j \in mine : i < j => way[i].num < way[j].num

(* An entry of a frame carries one lidar's points and the time of the      *)
(* first of them, even when lidars before it had nothing to publish.       *)
FrameConsistent ==
    \A i \in 1..frame.lidar_num :
        LET points == frame.lidar_point[i]
        IN  /\ points # <<>>
            /\ frame.base_time[i] = Head(points).time
            /\ \A j \in DOMAIN points : points[j].lidar = Head(points).lidar
=============================================================================
