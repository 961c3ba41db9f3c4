---------------------------- MODULE LidarMessages ----------------------------
(***************************************************************************)
(* From a lidar's packets to ROS messages: the points of a packet get      *)
(* their time and their place on the vehicle (LidarPubHandler), frames of  *)
(* them are stored (lds) and become messages of the configured format on   *)
(* the lidar's topic (lddc).  When a frame is cut is PubHandler's matter   *)
(* and arbitrary here; so is when the queues are polled.  A place is two   *)
(* coordinates in millimetres, rotations are quarter turns, and whatever a *)
(* lidar measures lies on one of its axes, a multiple of 10 mm away.       *)
(* PublishPclMsg takes nothing from the queue and publishes nothing; that  *)
(* format, and separate topics together with both formats, for which       *)
(* CreatePublisher has no publisher, are left out.                         *)
(***************************************************************************)
EXTENDS Integers, Sequences, FiniteSets, SequencesExt

CONSTANTS Configured,    \* [l]: extrinsic_parameter of lidars with an entry: some of yaw, x, y
          Unconfigured,  \* lidars without an entry; their handle is not kept
          PacketsOf,     \* [l], bound: the places each packet of l measures, packet by packet
          PacketTimes,   \* bound: time stamps of packets
          PointInterval, \* between points of a packet
          OffsetRange,   \* of offset_time in a CustomMsg (2^32)
          Granule,       \* of a double at such times (256 ns)
          QueueDepth,    \* frames the queue takes
          MaxSamples     \* bound: IMU samples per lidar

Sources == DOMAIN Configured \cup Unconfigured
Places == {p \in Int \X Int : (p[1] = 0 \/ p[2] = 0) /\ p[1] % 10 = 0 /\ p[2] % 10 = 0}

ASSUME LidarMessagesAssumption ==
    /\ DOMAIN Configured \cap Unconfigured = {} /\ Unconfigured \subseteq Nat \ {0}
    /\ \A l \in DOMAIN Configured :
          /\ l \in Nat \ {0} /\ DOMAIN Configured[l] \subseteq {"yaw", "x", "y"}
          /\ \A m \in DOMAIN Configured[l] : Configured[l][m] \in Int
          /\ "yaw" \in DOMAIN Configured[l] => Configured[l].yaw \in 0..3
    /\ PacketsOf \in [Sources -> Seq(Seq(Places))] /\ PacketTimes \subseteq Nat
    /\ PointInterval \in Nat /\ OffsetRange \in Nat \ {0} /\ Granule \in Nat \ {0}
    /\ QueueDepth \in Nat \ {0} /\ MaxSamples \in Nat

DataTypes == {"high", "low", "spherical"}

VARIABLES
    transfer_format_, use_multi_topic_,
    pcl_data_type,    \* [l]: as configured, "unset" for -1
    data_type,        \* [l]: what the lidar sends
    is_set_extrinsic_params_,  \* [l]
    extrinsic_global, \* the yaw of extrinsic_global
    points_clouds_,   \* [l]: the points of the next frame
    stored,           \* [l]: queue of frames
    imu_data_queue_,  \* [l]
    pub,              \* the publishers created: slot -> topic and message type
    messages,         \* history [l]: what was published of l
    measured,         \* history [l]: the place and time of every point
    dropped,          \* history: lidars a frame of which found the queue full
    samples           \* bound's counter [l]

msgVars == <<transfer_format_, use_multi_topic_, pcl_data_type, data_type,
             is_set_extrinsic_params_, extrinsic_global, points_clouds_, stored,
             imu_data_queue_, pub, messages, measured, dropped, samples>>

MsgInit ==
    /\ transfer_format_ \in {{"cloud"}, {"custom"}, {"cloud", "custom"}}
    /\ use_multi_topic_ \in BOOLEAN /\ (use_multi_topic_ => Cardinality(transfer_format_) = 1)
    /\ pcl_data_type \in [DOMAIN Configured -> DataTypes \cup {"unset"}]
    /\ data_type \in [Sources -> DataTypes]
    /\ \A l \in Unconfigured : data_type[l] = "high"
    /\ is_set_extrinsic_params_ = [l \in Sources |-> FALSE] /\ extrinsic_global = 0
    /\ points_clouds_ = [l \in Sources |-> <<>>] /\ stored = [l \in Sources |-> <<>>]
    /\ imu_data_queue_ = [l \in Sources |-> <<>>]
    /\ pub = [slot \in {} |-> <<>>] /\ messages = [l \in Sources |-> <<>>]
    /\ measured = [l \in Sources |-> <<>>] /\ dropped = {}
    /\ samples = [l \in Sources |-> 0]

-----------------------------------------------------------------------------
Turn4(yaw, p) == CASE yaw = 0 -> p
                  [] yaw = 1 -> <<-p[2], p[1]>>
                  [] yaw = 2 -> <<-p[1], -p[2]>>
                  [] yaw = 3 -> <<p[2], -p[1]>>
Sum2(p, q) == <<p[1] + q[1], p[2] + q[2]>>
Scaled(n, p) == <<n * p[1], n * p[2]>>
Tenth(x) == IF x >= 0 THEN x \div 10 ELSE -((-x) \div 10)

(* What the lidar sends of a place: millimetres, centimetres, or distance  *)
(* and direction.                                                          *)
Raw(type, p) ==
    CASE type = "high" -> p
      [] type = "low" -> <<Tenth(p[1]), Tenth(p[2])>>
      [] type = "spherical" -> CHOOSE r \in {p[1] + p[2], -(p[1] + p[2])} \X (0..3) :
                                    r[1] >= 0 /\ Turn4(r[2], <<r[1], 0>>) = p

ParseExtrinsics(value) == [m \in {"yaw", "x", "y"} |-> IF m \in DOMAIN value THEN value[m] ELSE 0]

(* Mutant: the translation is not brought to centimetres.                  *)
LidarParamInMillimetres(l) == ParseExtrinsics(Configured[l])

(* InitLivoxLidar: of a lidar configured to send centimetres the           *)
(* translation is kept in centimetres as well.                             *)
LidarParam(l) ==
    LET param == ParseExtrinsics(Configured[l])
    IN  IF pcl_data_type[l] = "low" THEN [param EXCEPT !.x = Tenth(@), !.y = Tenth(@)] ELSE param

(* extrinsic_ of l once its first packet is processed                      *)
Extrinsic(l) == IF l \in DOMAIN Configured THEN LidarParam(l) ELSE ParseExtrinsics(<<>>)

ProcessCartesianHighPoint(raw, e) == Sum2(Turn4(e.yaw, raw), <<e.x, e.y>>)
ProcessCartesianLowPoint(raw, e) == Scaled(10, Sum2(Turn4(e.yaw, raw), <<e.x, e.y>>))
ProcessSphericalPoint(raw, e) == Sum2(Turn4(e.yaw, Turn4(raw[2], <<raw[1], 0>>)), <<e.x, e.y>>)

LivoxLidarPointCloudProcess(type, raw, e) ==
    CASE type = "high" -> ProcessCartesianHighPoint(raw, e)
      [] type = "low" -> ProcessCartesianLowPoint(raw, e)
      [] type = "spherical" -> ProcessSphericalPoint(raw, e)

(* RawDataProcess for a packet of places with the time of the first: the   *)
(* extrinsics are set with the first packet, and with them those every     *)
(* lidar's IMU samples are turned by.                                      *)
PointCloudProcess(l, places, time) ==
    /\ measured' = [measured EXCEPT ![l] = @ \o
           [i \in DOMAIN places |-> [pos |-> places[i], time |-> time + (i - 1) * PointInterval]]]
    /\ points_clouds_' = [points_clouds_ EXCEPT ![l] = @ \o
           [i \in DOMAIN places |->
               [pos |-> LivoxLidarPointCloudProcess(data_type[l], Raw(data_type[l], places[i]), Extrinsic(l)),
                offset_time |-> time + (i - 1) * PointInterval, num |-> Len(measured[l]) + i]]]
    /\ IF l \in DOMAIN Configured /\ ~is_set_extrinsic_params_[l]
       THEN /\ is_set_extrinsic_params_' = [is_set_extrinsic_params_ EXCEPT ![l] = TRUE]
            /\ extrinsic_global' = Extrinsic(l).yaw
       ELSE UNCHANGED <<is_set_extrinsic_params_, extrinsic_global>>
    /\ UNCHANGED <<transfer_format_, use_multi_topic_, pcl_data_type, data_type, stored,
                   imu_data_queue_, pub, messages, dropped, samples>>

(* OnLivoxLidarPointCloudCallback for a sample, and StorageImuData         *)
LidarImuDataCallback(l) ==
    /\ samples[l] < MaxSamples /\ samples' = [samples EXCEPT ![l] = @ + 1]
    /\ imu_data_queue_' = [imu_data_queue_ EXCEPT ![l] = Append(@,
           [turn |-> extrinsic_global,
            heard |-> {k \in DOMAIN Configured : is_set_extrinsic_params_[k]}])]
    /\ UNCHANGED <<transfer_format_, use_multi_topic_, pcl_data_type, data_type,
                   is_set_extrinsic_params_, extrinsic_global, points_clouds_, stored, pub,
                   messages, measured, dropped>>

(* CheckTimer and StoragePointData, for the lidars ls: a frame that finds  *)
(* the queue full is gone.                                                 *)
StoragePointData(ls) ==
    LET ready == {l \in ls : points_clouds_[l] # <<>>}
        full == {l \in ready : Len(stored[l]) = QueueDepth}
    IN  /\ ready # {}
        /\ stored' = [l \in Sources |->
               IF l \in ready \ full
               THEN Append(stored[l], [base_time |-> points_clouds_[l][1].offset_time,
                                       points |-> points_clouds_[l]])
               ELSE stored[l]]
        /\ points_clouds_' = [l \in Sources |-> IF l \in ls THEN <<>> ELSE points_clouds_[l]]
        /\ dropped' = dropped \cup full
        /\ UNCHANGED <<transfer_format_, use_multi_topic_, pcl_data_type, data_type,
                       is_set_extrinsic_params_, extrinsic_global, imu_data_queue_, pub, messages,
                       measured, samples>>

-----------------------------------------------------------------------------
(* The handle kept of a lidar                                              *)
handle(l) == IF l \in DOMAIN Configured THEN l ELSE 0

(* The slots of publishers a message of l asks for, with their topics; the *)
(* first message creates them.                                             *)
GetCurrentPublisher(l) ==
    IF use_multi_topic_
    THEN [slot \in {<<"private_pub_", l>>} |->
             [topic |-> <<"livox/lidar_", handle(l)>>, types |-> transfer_format_]]
    ELSE IF Cardinality(transfer_format_) = 2
    THEN [slot \in {"global_pub_", "global_pub_2_"} |->
             IF slot = "global_pub_" THEN [topic |-> "livox/lidar", types |-> {"custom"}]
             ELSE [topic |-> "livox/lidar/pointcloud", types |-> {"cloud"}]]
    ELSE [slot \in {"global_pub_"} |-> [topic |-> "livox/lidar", types |-> transfer_format_]]

GetCurrentImuPublisher(l) ==
    IF use_multi_topic_
    THEN [slot \in {<<"private_imu_pub_", l>>} |->
             [topic |-> <<"livox/imu_", handle(l)>>, types |-> {"imu"}]]
    ELSE [slot \in {"global_imu_pub_"} |-> [topic |-> "livox/imu", types |-> {"imu"}]]

Created(asked) == [slot \in DOMAIN pub \cup DOMAIN asked |->
                      IF slot \in DOMAIN pub THEN pub[slot] ELSE asked[slot]]

(* The topic of the slot asked for that takes messages of this type        *)
TopicFor(asked, publishers, type) ==
    LET slot == CHOOSE s \in DOMAIN asked : type \in publishers[s].types
    IN  publishers[slot].topic

(* The nearest of the times a double has; of two, the even one             *)
AsDouble(t) ==
    LET q == t \div Granule
        r == t % Granule
    IN  IF 2 * r < Granule \/ (2 * r = Granule /\ q % 2 = 0) THEN q * Granule ELSE (q + 1) * Granule

InitPointcloud2Msg(pkg) ==
    [type |-> "cloud", stamp |-> pkg.base_time,
     points |-> [i \in DOMAIN pkg.points |->
         [pos |-> pkg.points[i].pos, num |-> pkg.points[i].num,
          timestamp |-> AsDouble(pkg.points[i].offset_time)]]]

FillPointsToCustomMsg(pkg, l) ==
    [type |-> "custom", stamp |-> pkg.base_time, lidar_id |-> handle(l),
     points |-> [i \in DOMAIN pkg.points |->
         [pos |-> pkg.points[i].pos, num |-> pkg.points[i].num,
          offset_time |-> (pkg.points[i].offset_time - pkg.base_time) % OffsetRange]]]

(* One turn of PublishPointcloud2, PublishCustomPointcloud or              *)
(* PublishPointcloud2AndCustomMsg                                          *)
PublishFrame(l) ==
    /\ stored[l] # <<>>
    /\ stored' = [stored EXCEPT ![l] = Tail(@)]
    /\ LET pkg == Head(stored[l])
           made == (IF "cloud" \in transfer_format_ THEN <<InitPointcloud2Msg(pkg)>> ELSE <<>>)
                   \o (IF "custom" \in transfer_format_ THEN <<FillPointsToCustomMsg(pkg, l)>> ELSE <<>>)
       IN  /\ pub' = Created(GetCurrentPublisher(l))
           /\ messages' = [messages EXCEPT ![l] = @ \o [i \in DOMAIN made |->
                  [topic |-> TopicFor(GetCurrentPublisher(l), pub', made[i].type), body |-> made[i]]]]
    /\ UNCHANGED <<transfer_format_, use_multi_topic_, pcl_data_type, data_type,
                   is_set_extrinsic_params_, extrinsic_global, points_clouds_, imu_data_queue_,
                   measured, dropped, samples>>

PublishImuData(l) ==
    /\ imu_data_queue_[l] # <<>>
    /\ imu_data_queue_' = [imu_data_queue_ EXCEPT ![l] = Tail(@)]
    /\ pub' = Created(GetCurrentImuPublisher(l))
    /\ messages' = [messages EXCEPT ![l] = Append(@,
           [topic |-> TopicFor(GetCurrentImuPublisher(l), pub', "imu"),
            body |-> [type |-> "imu", data |-> Head(imu_data_queue_[l])]])]
    /\ UNCHANGED <<transfer_format_, use_multi_topic_, pcl_data_type, data_type,
                   is_set_extrinsic_params_, extrinsic_global, points_clouds_, stored, measured,
                   dropped, samples>>

(* The packets of l come in PacketsOf's order.                             *)
NextPacket(l, time) ==
    \E k \in DOMAIN PacketsOf[l] :
        /\ Len(measured[l]) = FoldLeft(LAMBDA n, p : n + Len(p), 0, SubSeq(PacketsOf[l], 1, k - 1))
        /\ PointCloudProcess(l, PacketsOf[l][k], time)

MsgNext == \/ \E l \in Sources, time \in PacketTimes : NextPacket(l, time)
           \/ \E ls \in {{l} : l \in Sources} \cup {Sources} : StoragePointData(ls)
           \/ \E l \in Sources : LidarImuDataCallback(l) \/ PublishFrame(l) \/ PublishImuData(l)

MsgSpec == MsgInit /\ [][MsgNext]_msgVars

-----------------------------------------------------------------------------
(* Where and when the points of a message were measured                    *)
Mounting(l) == ParseExtrinsics(IF l \in DOMAIN Configured THEN Configured[l] ELSE <<>>)
Truth(l, num) == Sum2(Turn4(Mounting(l).yaw, measured[l][num].pos), <<Mounting(l).x, Mounting(l).y>>)
Off(a, b) == IF a < b THEN b - a ELSE a - b

(* Every message is on a topic of its lidar's and tells where and when its *)
(* points were measured: to the centimetre if the lidar sends centimetres  *)
(* only when configured to, to half a granule in a cloud, and exactly in a *)
(* custom message unless the clock was set back or far forward within it.  *)
MessagesTellThePoints ==
    \A l \in Sources : \A k \in DOMAIN messages[l] :
        LET m == messages[l][k].body
        IN  IF m.type = "imu"
            THEN \* turned like the points, from them on, while there is one lidar
                 /\ m.data.heard = {} => m.data.turn = 0
                 /\ m.data.heard = {l} => m.data.turn = Mounting(l).yaw
            ELSE /\ m.stamp = measured[l][m.points[1].num].time
                 /\ use_multi_topic_ /\ l \in DOMAIN Configured =>
                      \A other \in Sources \ {l} : \A j \in DOMAIN messages[other] :
                         messages[other][j].topic # messages[l][k].topic
                 /\ m.type = "custom" /\ l \in DOMAIN Configured => m.lidar_id = l
                 /\ \A i \in DOMAIN m.points :
                      LET p == m.points[i]
                          time == measured[l][p.num].time
                      IN  /\ (l \in DOMAIN Configured =>
                                  (pcl_data_type[l] = "low" <=> data_type[l] = "low")) =>
                                \A c \in 1..2 : Off(p.pos[c], Truth(l, p.num)[c]) < 10
                          /\ m.type = "cloud" => 2 * Off(p.timestamp, time) <= Granule
                          /\ m.type = "custom" /\ time - m.stamp \in 0..(OffsetRange - 1) =>
                                m.stamp + p.offset_time = time

(* In either format a lidar's points are published in the order they were  *)
(* measured in, none twice and, unless a frame found the queue full, none  *)
(* left out; with both formats, a cloud is followed by the message of the  *)
(* same points.                                                            *)
MessagesInOrder ==
    \A l \in Sources, type \in transfer_format_ :
        LET body(k)  == messages[l][k].body
            ofType   == {k \in DOMAIN messages[l] : body(k).type = type}
            first(k) == body(k).points[1].num
            last(k)  == first(k) + Len(body(k).points) - 1
        IN  /\ \A k \in ofType : \A i \in DOMAIN body(k).points :
                  body(k).points[i].num = first(k) + i - 1
            /\ \A j, k \in ofType : j < k => last(j) < first(k)
            /\ l \notin dropped => \A k \in ofType :
                  first(k) = 1 \/ \E j \in ofType : j < k /\ last(j) + 1 = first(k)
            /\ transfer_format_ = {"cloud", "custom"} => \A k \in ofType :
                  LET other == IF type = "cloud" THEN k + 1 ELSE k - 1
                  IN  /\ other \in DOMAIN messages[l] /\ body(other).type # type
                      /\ body(other).type # "imu" /\ first(other) = first(k)
                      /\ Len(body(other).points) = Len(body(k).points)
=============================================================================
