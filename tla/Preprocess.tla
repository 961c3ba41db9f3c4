----------------------------- MODULE Preprocess -----------------------------
(***************************************************************************)
(* point_lio's callbacks for scans: which points of a message are kept and *)
(* at which time (Preprocess), and how the scan becomes frames of the      *)
(* lidar buffer: one as it is, several cut from it, or one combined of     *)
(* many.  A point is a count, from the scan's stamp, of the sensor's units *)
(* of time or of steps of its rotation, its ring and what becomes of it:   *)
(*   "seen"   within range          "blind"  too near or too far           *)
(*   "nan"    no coordinates        "again"  where the point before it is  *)
(*   "noise"  of a line or tag that is not used                            *)
(***************************************************************************)
EXTENDS Integers, Sequences, FiniteSets, SequencesExt, Ordering

CONSTANTS EarlyLivox, EarlyOthers,  \* scans before these are not cut (5 and 20)
          ConFrames,       \* scans combined (10, whatever con_frame_num says)
          cut_frame_num,
          Turn,            \* one revolution, counted
          Ticks,           \* times one count may take
          CutTick,         \* what process_cut_frame_pcl2 takes it for: seconds of a
                           \* Velodyne or Hesai, nanoseconds of an Ouster, 10 turns a second
          StartAngle,      \* bound: where revolutions begin, Turn being straight behind
          Messages,        \* bound: points of a message
          MaxPreScans      \* bound: scans received

ASSUME PreprocessAssumption ==
    /\ EarlyLivox \in Nat /\ EarlyOthers \in Nat /\ ConFrames \in Nat \ {0}
    /\ cut_frame_num \in Nat \ {0} /\ Turn \in Nat \ {0} /\ StartAngle \in 0..(Turn - 1)
    /\ MaxPreScans \in Nat /\ Ticks \subseteq Nat \ {0} /\ CutTick \in Nat \ {0}
    /\ \A m \in Messages : m \in Seq([at : Nat, ring : Nat, kind : {"seen", "blind", "nan", "again", "noise"}])

LidarTypes == {"AVIA", "VELO16", "OUST64", "HESAIxt32"}

VARIABLES lidar,           \* the configuration: type, point_filter_num, timestamp_unit or
                           \* scan_rate as set (tick), and what is made of a scan
          pre_count,       \* scan_count
          last_stamp,      \* last_timestamp_lidar
          pl_surf,         \* the points of the last message that were kept
          ptr_con, frame_ct, time_con,   \* the frame being combined
          frames,          \* lidar_buffer and time_buffer
          lidar_end        \* lidar_end_time of the frame handed over last

preVars == <<lidar, pre_count, last_stamp, pl_surf, ptr_con, frame_ct, time_con, frames, lidar_end>>

PreInit ==
    /\ lidar \in [type : LidarTypes, filter : {1, 2}, timed : BOOLEAN,
                  making : {"one", "cut", "combined"}, tick : Ticks]
    /\ lidar.type \in {"AVIA", "OUST64"} => lidar.timed
    /\ lidar.type = "HESAIxt32" /\ lidar.making = "cut" => lidar.timed
    /\ pre_count = 0 /\ last_stamp = 0 /\ pl_surf = <<>>
    /\ ptr_con = <<>> /\ frame_ct = 0 /\ time_con = 0
    /\ frames = <<>> /\ lidar_end = 0

-----------------------------------------------------------------------------
(* Times of points that come without: from the angle turned since the      *)
(* first point of the ring, rings being told apart or not.  A revolution   *)
(* that goes past the angle it began at goes on counting, if it unwraps.   *)
Yaw(p) == (StartAngle - p.at) % Turn

Turned(first, yaw, strict) ==
    IF yaw < first \/ (yaw = first /\ ~strict) THEN first - yaw ELSE first - yaw + Turn

Before(I, i, ringOf) == {j \in I : j < i /\ ringOf[j] = ringOf[i]}
Earliest(I) == CHOOSE i \in I : \A j \in I : i <= j
Latest(I) == CHOOSE i \in I : \A j \in I : i >= j

RotationTimes(ps, I, ringOf, strict, unwrap) ==
    LET time[i \in I] ==
            IF Before(I, i, ringOf) = {} THEN 0
            ELSE LET t == Turned(Yaw(ps[Earliest(Before(I, i, ringOf))]), Yaw(ps[i]), strict)
                 IN  IF unwrap /\ t < time[Latest(Before(I, i, ringOf))] THEN t + Turn ELSE t
    IN  time

(* The points of ps numbered by I, each with its time, one count taken for *)
(* as long as unit; at: when it was measured indeed                        *)
Measured(ps, I, time, unit, stamp) ==
    LET order == Ascending(I)
    IN  [k \in DOMAIN order |->
            [curvature |-> unit * time[order[k]], at |-> stamp + lidar.tick * ps[order[k]].at,
             ring |-> ps[order[k]].ring, scan |-> pre_count + 1, num |-> order[k]]]

Of(ps, kinds) == {i \in DOMAIN ps : ps[i].kind \in kinds}
EachNth(I) == {i \in I : (i - 1) % lidar.filter = 0}
Offsets(ps) == [i \in DOMAIN ps |-> ps[i].at]

(* Livox: all but the first point of the message; of the valid ones every  *)
(* point_filter_num-th; of those the visible ones, without repetition of a *)
(* neighbour that was looked at.                                           *)
LivoxPoints(ps) ==
    LET valid == {i \in 2..Len(ps) : ps[i].kind # "noise"}
        taken == {i \in valid : Cardinality({j \in valid : j <= i}) % lidar.filter = 0}
    IN  {i \in taken : ps[i].kind = "seen" \/ (ps[i].kind = "again" /\ i - 1 \notin taken)}

(* given_offset_time: the last point has a time                            *)
Given(ps) == lidar.timed /\ Last(ps).at > 0

AnyRing(ps) == [i \in DOMAIN ps |-> 0]
Rings(ps) == [i \in DOMAIN ps |-> ps[i].ring]
FirstOnes(I, ringOf) == {i \in I : Before(I, i, ringOf) = {}}

oust64_handler(ps, stamp) ==
    Measured(ps, EachNth(Of(ps, {"seen", "again", "noise"})), Offsets(ps), lidar.tick, stamp)

(* All rings count as one, and the first point only sets the angle.        *)
velodyne_handler(ps, stamp) ==
    LET I == EachNth(DOMAIN ps \ Of(ps, {"nan"}))
        visible == I \ Of(ps, {"blind"})
    IN  IF Given(ps) THEN Measured(ps, visible, Offsets(ps), lidar.tick, stamp)
        ELSE Measured(ps, visible \ FirstOnes(I, AnyRing(ps)),
                      RotationTimes(ps, I, AnyRing(ps), TRUE, FALSE), lidar.tick, stamp)

(* Times count from the first point.                                       *)
hesai_handler(ps, stamp) ==
    LET visible == EachNth(Of(ps, {"seen", "again", "noise"}))
        since == [i \in DOMAIN ps |-> ps[i].at - ps[1].at]
    IN  IF Given(ps) THEN Measured(ps, visible, since, lidar.tick, stamp)
        ELSE Measured(ps, visible \ FirstOnes(DOMAIN ps, Rings(ps)),
                      RotationTimes(ps, DOMAIN ps, Rings(ps), FALSE, TRUE), lidar.tick, stamp)

process(ps, stamp) ==
    IF ps = <<>> THEN <<>>
    ELSE CASE lidar.type = "AVIA" ->
                Measured(ps, LivoxPoints(ps), Offsets(ps), lidar.tick, stamp)
           [] lidar.type = "OUST64" -> oust64_handler(ps, stamp)
           [] lidar.type = "VELO16" -> velodyne_handler(ps, stamp)
           [] lidar.type = "HESAIxt32" -> hesai_handler(ps, stamp)

-----------------------------------------------------------------------------
(* What process_cut_frame_* keep, sorted by time (of points of one time    *)
(* any may come first).  process_cut_frame_pcl2 looks neither at           *)
(* timestamp_unit nor at scan_rate.                                        *)
CutPoints(ps, stamp) ==
    LET visible == Of(ps, {"seen", "again", "noise"})
        used == EachNth(Of(ps, {"seen", "again"}))
        kept == CASE lidar.type = "AVIA" ->
                        Measured(ps, LivoxPoints(ps), Offsets(ps), lidar.tick, stamp)
                  [] lidar.type = "VELO16" /\ ~Given(ps) ->
                        Measured(ps, used \ FirstOnes(visible, Rings(ps)),
                                 RotationTimes(ps, visible, Rings(ps), FALSE, TRUE), CutTick, stamp)
                  [] OTHER -> Measured(ps, used, Offsets(ps), CutTick, stamp)
        order == Sorted(DOMAIN kept, [k \in DOMAIN kept |-> kept[k].curvature])
    IN  [k \in DOMAIN order |-> kept[order[k]]]

(* After the Livox' first 4 scans and others' first 19.                    *)
RequiredCuts ==
    IF pre_count' < (IF lidar.type = "AVIA" THEN EarlyLivox ELSE EarlyOthers) THEN 1 ELSE cut_frame_num

(* Mutant: the offsets still count from the scan's beginning.              *)
InFrameUnmoved(p, stamp, beg) == p
(* Mutant: the share of a frame is rounded first.                          *)
EndsFrameRounded(n, f, size, required) == n = f * (size \div required) - 1

(* A point's time counts from the beginning of its frame, and the f-th     *)
(* frame ends as the number of points so far reaches its share.            *)
InFrame(p, stamp, beg) == [p EXCEPT !.curvature = @ + stamp - beg]
EndsFrame(n, f, size, required) == n = (f * size) \div required - 1

(* The frames of a scan, its first point left out: one begins with the     *)
(* time of the last point of the one before.                               *)
AddToCut(c, p, n, scan, stamp, required) ==
    LET q == InFrame(p, stamp, c.last)
        cut == Append(c.cut, q)
    IN  IF EndsFrame(n, Len(c.out) + 1, Len(scan), required)
        THEN [cut |-> <<>>, last |-> c.last + q.curvature,
              out |-> Append(c.out, [beg |-> c.last, points |-> cut])]
        ELSE [cut |-> cut, last |-> c.last, out |-> c.out]

Cut(scan, stamp, required) ==
    LET rest == IF scan = <<>> THEN <<>> ELSE Tail(scan)
        c[n \in 0..Len(rest)] ==
            IF n = 0 THEN [cut |-> <<>>, last |-> stamp, out |-> <<>>]
            ELSE AddToCut(c[n - 1], rest[n], n, scan, stamp, required)
    IN  c[Len(rest)].out

(* A scan whose stamp goes back counts, but is dropped.                    *)
DropScan == /\ pre_count < MaxPreScans /\ last_stamp > 0
            /\ pre_count' = pre_count + 1
            /\ UNCHANGED <<lidar, last_stamp, pl_surf, ptr_con, frame_ct, time_con, frames, lidar_end>>

Received(stamp) == /\ pre_count < MaxPreScans /\ stamp >= last_stamp
                   /\ pre_count' = pre_count + 1 /\ last_stamp' = stamp
                   /\ UNCHANGED <<lidar, lidar_end>>

BufferScan(ps, stamp) ==
    /\ lidar.making = "one" /\ Received(stamp)
    /\ pl_surf' = process(ps, stamp)
    /\ frames' = (IF pl_surf' = <<>> THEN frames
                  ELSE Append(frames, [beg |-> stamp, points |-> pl_surf']))
    /\ UNCHANGED <<ptr_con, frame_ct, time_con>>

CutScan(ps, stamp) ==
    /\ lidar.making = "cut" /\ Received(stamp)
    /\ pl_surf' = (IF ps = <<>> THEN <<>> ELSE CutPoints(ps, stamp))
    /\ frames' = frames \o Cut(pl_surf', stamp, RequiredCuts)
    /\ UNCHANGED <<ptr_con, frame_ct, time_con>>

(* Every ConFrames scans are combined; the next one hands the frame over,  *)
(* and its own points are lost.                                            *)
CombineScan(ps, stamp) ==
    /\ lidar.making = "combined" /\ Received(stamp)
    /\ pl_surf' = process(ps, stamp)
    /\ time_con' = IF frame_ct = 0 THEN stamp ELSE time_con
    /\ IF frame_ct < ConFrames
       THEN /\ ptr_con' = ptr_con \o [k \in DOMAIN pl_surf' |->
                              [pl_surf'[k] EXCEPT !.curvature = @ + stamp - time_con']]
            /\ frame_ct' = frame_ct + 1 /\ UNCHANGED frames
       ELSE /\ frames' = Append(frames, [beg |-> time_con, points |-> ptr_con])
            /\ ptr_con' = <<>> /\ frame_ct' = 0

(* sync_packages without an IMU: a frame without points is passed over.    *)
HandOver ==
    /\ frames # <<>>
    /\ frames' = Tail(frames)
    /\ lidar_end' = LET f == Head(frames)
                        T == {f.beg + f.points[k].curvature : k \in DOMAIN f.points}
                    IN  IF T = {} THEN lidar_end ELSE Latest(T)
    /\ UNCHANGED <<lidar, pre_count, last_stamp, pl_surf, ptr_con, frame_ct, time_con>>

(* The messages whose points have their times from the message             *)
UsesOffsets(ps) ==
    \/ ps = <<>> \/ Given(ps) \/ lidar.type \in {"AVIA", "OUST64"}
    \/ lidar.type = "HESAIxt32" /\ lidar.making = "cut"

(* A time that is unwrapped is right if no ring is without a point for a   *)
(* revolution, and none goes on for two.                                   *)
Unwraps(ps, I) ==
    \A i, j \in I : i < j /\ ps[i].ring = ps[j].ring =>
        /\ ps[j].at - ps[i].at < 2 * Turn
        /\ \/ \E k \in I : i < k /\ k < j /\ ps[k].ring = ps[i].ring
           \/ ps[j].at - ps[i].at < Turn

(* Messages the code can read: a Velodyne's has a last point, if it is to  *)
(* be cut; one without times is in the order of rotation and one           *)
(* revolution at most, unless the time is unwrapped, and a Hesai's then    *)
(* has coordinates throughout (an angle that is not a number would spoil   *)
(* its ring's times).                                                      *)
Readable(ps) ==
    /\ lidar.type = "VELO16" /\ lidar.making = "cut" => ps # <<>>
    /\ \/ UsesOffsets(ps)
       \/ /\ \A i, j \in DOMAIN ps : i < j => ps[i].at < ps[j].at
          /\ lidar.type = "VELO16" /\ lidar.making # "cut" => \A i \in DOMAIN ps : ps[i].at < Turn
          /\ lidar.type = "VELO16" /\ lidar.making = "cut" =>
                Unwraps(ps, Of(ps, {"seen", "again", "noise"}))
          /\ lidar.type = "HESAIxt32" => Of(ps, {"nan"}) = {} /\ Unwraps(ps, DOMAIN ps)

PreNext == \/ \E ps \in {m \in Messages : Readable(m)} :
                  LET stamp == last_stamp + Turn * lidar.tick
                  IN  BufferScan(ps, stamp) \/ CutScan(ps, stamp) \/ CombineScan(ps, stamp)
           \/ DropScan \/ HandOver

-----------------------------------------------------------------------------
PrePoint == [curvature : Int, at : Nat, ring : Nat, scan : 1..MaxPreScans, num : Nat]
PreTypeOK ==
    /\ pre_count \in 0..MaxPreScans /\ last_stamp \in Nat /\ lidar_end \in Int
    /\ pl_surf \in Seq(PrePoint) /\ ptr_con \in Seq(PrePoint)
    /\ frame_ct \in 0..ConFrames /\ time_con \in Nat
    /\ frames \in Seq([beg : Int, points : Seq(PrePoint)])

Points == UNION {{<<f, k>> : k \in DOMAIN frames[f].points} : f \in DOMAIN frames}
PointOf(q) == frames[q[1]].points[q[2]]
TimeOf(q) == frames[q[1]].beg + PointOf(q).curvature

(* What process_cut_frame_pcl2 takes for granted is so.                    *)
UnitsFit == lidar.making = "cut" /\ lidar.type # "AVIA" => lidar.tick = CutTick

(* However a scan is framed, and whether its points bring their times, in  *)
(* whatever unit, or the rotation gives them, at whatever rate: points of  *)
(* one scan and ring, in whatever frames they are, lie as far apart in     *)
(* time as they were measured, and a Livox' or Ouster's points at the very *)
(* time.  Of a scan that process_cut_frame_pcl2 cuts, this holds for the   *)
(* unit and the rate that it assumes.  No point is there twice.            *)
FramesKeepTimes ==
    /\ UnitsFit => \A q, r \in Points :
          /\ lidar.type \in {"AVIA", "OUST64"} => TimeOf(q) = PointOf(q).at
          /\ PointOf(q).scan = PointOf(r).scan /\ PointOf(q).ring = PointOf(r).ring =>
                TimeOf(q) - TimeOf(r) = PointOf(q).at - PointOf(r).at
    /\ \A q, r \in Points :
          q # r => <<PointOf(q).scan, PointOf(q).num>> # <<PointOf(r).scan, PointOf(r).num>>

(* The numbers of points, and of those of frames one after the other       *)
Numbers(points) == [k \in DOMAIN points |-> points[k].num]
NumbersIn(fs) ==
    LET joined[f \in 0..Len(fs)] ==
            IF f = 0 THEN <<>> ELSE joined[f - 1] \o Numbers(fs[f].points)
    IN  joined[Len(fs)]

CutWhole ==
    LET new == SubSeq(frames', Len(frames) + 1, Len(frames'))
    IN  IF Len(pl_surf') < 2 * RequiredCuts
        THEN new = <<>>
        ELSE NumbersIn(new) = Numbers(Tail(pl_surf')) /\ Len(new) = RequiredCuts

(* The frames cut from a scan hold every point kept but the earliest, in   *)
(* order; a scan with fewer than two points a frame is lost altogether.    *)
CutHoldsTheScan ==
    [][lidar.making = "cut" /\ last_stamp' # last_stamp => CutWhole]_preVars
=============================================================================
