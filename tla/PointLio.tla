------------------------------ MODULE PointLio ------------------------------
(***************************************************************************)
(* point_lio: how scans and IMU samples are buffered, paired and fed to    *)
(* the filter.  One thread alternates between the callbacks                *)
(* (executor.spin_some) and the body of the main loop, so no message       *)
(* arrives while a scan is processed.  Modelled for a Livox lidar, imu_en, *)
(* no frames combined or cut, and the IMU as output of the filter, as the  *)
(* repository is configured, or as its input.  The filter and the map are  *)
(* left out; a scan is the time it begins, the time of its last point and  *)
(* the times of the points left after downsampling.                        *)
(***************************************************************************)
EXTENDS Integers, Sequences, Functions

CONSTANTS MaxTime,      \* bound: stamps are 0..MaxTime
          MaxSpan,      \* bound: duration of a scan
          MaxScans,     \* bound: scans received
          MaxBacklog,   \* bound: scans waiting in lidar_buffer
          MaxImu,       \* bound: IMU samples received
          MaxIniCount   \* MAX_INI_COUNT (100 in the code)

ASSUME PointLioAssumption ==
    /\ MaxTime \in Nat /\ MaxSpan \in Nat /\ MaxScans \in Nat /\ MaxBacklog \in Nat
    /\ MaxImu \in Nat /\ MaxIniCount \in Nat \ {0}

Time == 0..MaxTime
Sample == [num : 1..MaxImu, stamp : Time]
NoSample == [num |-> 0, stamp |-> 0]
Scan == {s \in [num : 1..MaxScans, beg : Time, end : Time, points : SUBSET Time] :
            s.points # {} /\ s.points \subseteq s.beg..s.end}

VARIABLES
    \* filled by the callbacks
    lidar_buffer, last_timestamp_lidar, scan_count,
    imu_deque, last_timestamp_imu, imu_count,
    imu_next,        \* the sample the loop looks at
    imu_last,        \* the one before it, followed where it is used: as input
    \* initialisation
    use_imu_as_input,
    flg_first_scan,
    gathered,        \* Len(meas.imu), which nothing ever clears
    init_iter_num, imu_need_init, init_map,
    \* the scan being processed
    pc,              \* "spin", or where the loop over its points stands
    points,          \* times of the points still to come
    is_first_frame,
    time_predict_last_const,   \* t_last for the IMU as input
    fused,           \* history: number of the sample the filter took last
    uses             \* history: how many times the filter took a sample

input == <<lidar_buffer, last_timestamp_lidar, scan_count, last_timestamp_imu, imu_count>>
init == <<use_imu_as_input, flg_first_scan, gathered, init_iter_num, imu_need_init, init_map>>
taken == <<fused, uses>>
vars == <<input, imu_deque, imu_next, imu_last, init, pc, points, is_first_frame,
          time_predict_last_const, taken>>

Init ==
    /\ lidar_buffer = <<>> /\ last_timestamp_lidar = -1 /\ scan_count = 0
    /\ imu_deque = <<>> /\ last_timestamp_imu = -1 /\ imu_count = 0
    /\ imu_next = NoSample /\ imu_last = NoSample
    /\ use_imu_as_input \in BOOLEAN
    /\ flg_first_scan = TRUE /\ gathered = 0 /\ init_iter_num = 1
    /\ imu_need_init = TRUE /\ init_map = FALSE
    /\ pc = "spin" /\ points = {} /\ is_first_frame = TRUE
    /\ time_predict_last_const = 0 /\ fused = 0 /\ uses = 0

-----------------------------------------------------------------------------
(* livox_pcl_cbk: a scan whose stamp goes back is dropped, and so is one   *)
(* without points, though its stamp counts.  Only the stamp is compared: a *)
(* scan may begin before the last point of the one before it.              *)
livox_pcl_cbk(beg, end, ps) ==
    /\ pc = "spin"
    /\ scan_count < MaxScans /\ Len(lidar_buffer) < MaxBacklog
    /\ beg >= last_timestamp_lidar
    /\ scan_count' = scan_count + 1
    /\ last_timestamp_lidar' = beg
    /\ LET scan == [num |-> scan_count + 1, beg |-> beg, end |-> end, points |-> ps]
       IN  lidar_buffer' = (IF ps = {} THEN lidar_buffer ELSE Append(lidar_buffer, scan))
    /\ UNCHANGED <<imu_deque, last_timestamp_imu, imu_count, imu_next, imu_last, init, pc, points,
                   is_first_frame, time_predict_last_const, taken>>

(* imu_cbk: a sample whose stamp goes back is dropped.                     *)
imu_cbk(stamp) ==
    /\ pc = "spin"
    /\ imu_count < MaxImu
    /\ stamp >= last_timestamp_imu
    /\ imu_count' = imu_count + 1
    /\ last_timestamp_imu' = stamp
    /\ imu_deque' = Append(imu_deque, [num |-> imu_count + 1, stamp |-> stamp])
    /\ UNCHANGED <<lidar_buffer, last_timestamp_lidar, scan_count, imu_next, imu_last, init, pc,
                   points, is_first_frame, time_predict_last_const, taken>>

-----------------------------------------------------------------------------
(* The loop `while (t > imu_next.stamp) { pop_front(); if empty break;     *)
(* imu_next = front(); }` from deque q and sample next: what is left of    *)
(* both.  It pops first and looks afterwards.                              *)
Skip(q, next, t) ==
    IF next.stamp >= t THEN [q |-> q, next |-> next]
    ELSE LET rest == Tail(q)
             late == {i \in DOMAIN rest : rest[i].stamp >= t}
             i == CHOOSE j \in late : \A k \in late : j <= k
         IN  IF late # {} THEN [q |-> SubSeq(rest, i, Len(rest)), next |-> rest[i]]
             ELSE [q |-> <<>>, next |-> IF rest = <<>> THEN next ELSE rest[Len(rest)]]

(* imu_last after a loop that began at the front of q and left rest        *)
LastOf(q, rest, last) == IF Len(rest) = Len(q) THEN last ELSE q[Len(q) - Len(rest)]

(* Mutants: the IMU has to pass the first point, or to be strictly ahead.  *)
SynchronizedWithStart ==
    /\ pc = "spin"
    /\ lidar_buffer # <<>> /\ imu_deque # <<>>
    /\ last_timestamp_imu >= Head(lidar_buffer).beg

SynchronizedStrictly ==
    /\ pc = "spin"
    /\ lidar_buffer # <<>> /\ imu_deque # <<>>
    /\ last_timestamp_imu > Head(lidar_buffer).end

(* sync_packages hands the oldest scan over once the IMU has passed its    *)
(* last point.                                                             *)
Synchronized ==
    /\ pc = "spin"
    /\ lidar_buffer # <<>> /\ imu_deque # <<>>
    /\ last_timestamp_imu >= Head(lidar_buffer).end

(* Until the IMU is initialised sync_packages moves the samples before the *)
(* scan's end to meas.imu; Process averages meas.imu, the samples of       *)
(* earlier scans again, and the first scan that completes the count goes   *)
(* on to the map.                                                          *)
InitializeImu ==
    /\ Synchronized /\ imu_need_init
    /\ LET scan == Head(lidar_buffer)
           synced == Skip(imu_deque, Head(imu_deque), scan.end)
           begun == IF flg_first_scan THEN Skip(synced.q, synced.next, scan.beg) ELSE synced
       IN  /\ gathered' = gathered + Len(imu_deque) - Len(synced.q)
           /\ init_iter_num' = init_iter_num + gathered'
           /\ imu_deque' = begun.q /\ imu_next' = begun.next
    /\ imu_last' = IF use_imu_as_input THEN LastOf(imu_deque, imu_deque', imu_last) ELSE imu_last
    /\ imu_need_init' = (init_iter_num' <= MaxIniCount)
    /\ init_map' \in (IF imu_need_init' THEN {FALSE} ELSE BOOLEAN)
    /\ flg_first_scan' = FALSE
    /\ lidar_buffer' = Tail(lidar_buffer)
    /\ UNCHANGED <<use_imu_as_input, last_timestamp_lidar, scan_count, last_timestamp_imu,
                   imu_count, pc, points, is_first_frame, time_predict_last_const, taken>>

(* A scan is added to the first map, which may then have init_map_size     *)
(* points or not.                                                          *)
InitializeMap ==
    /\ Synchronized /\ ~imu_need_init /\ ~init_map
    /\ init_map' \in BOOLEAN
    /\ lidar_buffer' = Tail(lidar_buffer)
    /\ UNCHANGED <<last_timestamp_lidar, scan_count, imu_deque, last_timestamp_imu, imu_count,
                   imu_next, imu_last, use_imu_as_input, flg_first_scan, gathered, init_iter_num,
                   imu_need_init, pc, points, is_first_frame, time_predict_last_const, taken>>

StartScan ==
    /\ Synchronized /\ ~imu_need_init /\ init_map
    /\ pc' = "begin"
    /\ points' = Head(lidar_buffer).points
    /\ lidar_buffer' = Tail(lidar_buffer)
    /\ UNCHANGED <<last_timestamp_lidar, scan_count, imu_deque, last_timestamp_imu, imu_count,
                   imu_next, imu_last, init, is_first_frame, time_predict_last_const, taken>>

-----------------------------------------------------------------------------
time_current == CHOOSE t \in points : \A u \in points : t <= u

(* Mutant: imu_next stays the sample that was popped.                      *)
PopKeepsNext == imu_deque' = Tail(imu_deque) /\ UNCHANGED imu_next

(* imu_deque.pop_front(), then imu_next = front() unless that was the last *)
Pop == /\ imu_deque' = Tail(imu_deque)
       /\ imu_next' = IF Tail(imu_deque) = <<>> THEN imu_next ELSE Head(Tail(imu_deque))

(* The loop's way past samples older than the filter's time t: an imu_next *)
(* that is no longer in the deque is replaced, once.                       *)
PassOld(q, next, t) ==
    IF q = <<>> \/ next.stamp >= t THEN [q |-> q, next |-> next]
    ELSE IF next.stamp # Head(q).stamp THEN [q |-> q, next |-> Head(q)]
    ELSE Skip(q, next, t)

(* Mutant: at the first point no sample is passed over.                    *)
BeginPointKeepsOld ==
    /\ pc = "begin" /\ ~use_imu_as_input
    /\ time_predict_last_const' = IF is_first_frame THEN time_current ELSE time_predict_last_const
    /\ LET t == IF is_first_frame THEN [q |-> imu_deque, next |-> imu_next]
                ELSE PassOld(imu_deque, imu_next, time_predict_last_const)
       IN  imu_deque' = t.q /\ imu_next' = t.next
    /\ is_first_frame' = FALSE
    /\ pc' = IF imu_deque = <<>> THEN "update" ELSE "fuse"
    /\ UNCHANGED <<input, imu_last, init, points, taken>>

(* The first point of all sets the filter's time.                          *)
BeginPoint ==
    /\ pc = "begin" /\ ~use_imu_as_input
    /\ time_predict_last_const' = IF is_first_frame THEN time_current ELSE time_predict_last_const
    /\ LET s == IF is_first_frame THEN Skip(imu_deque, imu_next, time_current)
                                  ELSE [q |-> imu_deque, next |-> imu_next]
           t == PassOld(s.q, s.next, time_predict_last_const')
       IN  imu_deque' = t.q /\ imu_next' = t.next
    /\ is_first_frame' = FALSE
    /\ pc' = IF imu_deque = <<>> THEN "update" ELSE "fuse"
    /\ UNCHANGED <<input, imu_last, init, points, taken>>

imu_comes == pc = "fuse" /\ time_current > imu_next.stamp

FuseSample ==
    /\ imu_comes /\ ~use_imu_as_input
    /\ fused' = imu_next.num /\ uses' = uses + 1
    /\ time_predict_last_const' = imu_next.stamp
    /\ Pop
    /\ pc' = IF imu_deque' = <<>> THEN "update" ELSE "fuse"
    /\ UNCHANGED <<input, imu_last, init, points, is_first_frame>>

(* The IMU as input: the filter moves with the readings of imu_last.  At   *)
(* the first point of all it has those of the sample before the point,     *)
(* which InputSample then takes again.                                     *)
InputBegin ==
    /\ pc = "begin" /\ use_imu_as_input
    /\ \/ /\ is_first_frame
          /\ LET s == Skip(imu_deque, imu_next, time_current)
             IN  imu_deque' = s.q /\ imu_next' = s.next
          /\ imu_last' = LastOf(imu_deque, imu_deque', imu_last)
          /\ fused' = imu_last'.num /\ uses' = uses + 1
          /\ time_predict_last_const' = time_current
       \/ /\ ~is_first_frame
          /\ UNCHANGED <<imu_deque, imu_next, imu_last, taken, time_predict_last_const>>
    /\ is_first_frame' = FALSE
    /\ pc' = "fuse"
    /\ UNCHANGED <<input, init, points>>

(* For every sample passed, a step to the time of the sample before it,    *)
(* which may lie before the point the filter is at.                        *)
InputSample ==
    /\ imu_comes /\ use_imu_as_input
    /\ fused' = imu_last.num /\ uses' = uses + 1
    /\ time_predict_last_const' = imu_last.stamp
    /\ Pop
    /\ imu_last' = IF imu_deque' = <<>> THEN imu_last ELSE imu_next
    /\ pc' = IF imu_deque' = <<>> THEN "update" ELSE "fuse"
    /\ UNCHANGED <<input, init, points, is_first_frame>>

(* No earlier sample left: predict up to the point and update with it.     *)
MoveToPoint ==
    /\ pc \in {"fuse", "update"} /\ ~imu_comes
    /\ time_predict_last_const' = time_current
    /\ points' = points \ {time_current}
    /\ pc' = IF points' = {} THEN "spin" ELSE "begin"
    /\ UNCHANGED <<input, imu_deque, imu_next, imu_last, init, is_first_frame, taken>>

(* After the last point odometry and cloud are published.                  *)
UpdatePoint == ~use_imu_as_input /\ MoveToPoint
InputPoint == use_imu_as_input /\ MoveToPoint

MainLoop == \/ InitializeImu \/ InitializeMap \/ StartScan
            \/ BeginPoint \/ FuseSample \/ UpdatePoint
            \/ InputBegin \/ InputSample \/ InputPoint

Next == \/ \E beg, end \in Time : \E ps \in {{}, {beg}, {beg, end}} :
              end \in beg..(beg + MaxSpan) /\ livox_pcl_cbk(beg, end, ps)
        \/ \E stamp \in Time : imu_cbk(stamp)
        \/ MainLoop

(* The loop runs 500 times a second.                                       *)
Spec == Init /\ [][Next]_vars
FairSpec == Spec /\ WF_vars(MainLoop)

-----------------------------------------------------------------------------
(* None of the loops' "if (imu_deque.empty()) break" ever breaks: once a   *)
(* scan has been paired the deque has a sample, and imu_next, which other  *)
(* code goes on to use, is the oldest one in it.                           *)
NextIsOldest ==
    ~flg_first_scan => imu_deque # <<>> /\ imu_next = Head(imu_deque)

(* From the first sample the filter takes on, it takes every one, in the   *)
(* order of arrival and once.  Only with the IMU as input is the first one *)
(* taken twice: at the first point, and again when a sample is passed.     *)
SamplesFusedInOrder ==
    [][uses' # uses /\ uses > 0 =>
          fused' = fused + (IF use_imu_as_input /\ uses = 1 THEN 0 ELSE 1)]_vars

(* The line marked "big problem": the prediction to a sample never steps   *)
(* back in time, whatever scan came before (with the IMU as input it does, *)
(* from a point to the sample before it).                                  *)
PredictsForward ==
    [][~use_imu_as_input /\ uses' # uses =>
          time_predict_last_const' >= time_predict_last_const]_vars

(* A scan that the IMU has passed, as it has the scans before it, is       *)
(* processed in the end.                                                   *)
ScansProcessed ==
    \A n \in 1..MaxScans :
        (/\ \E s \in Range(lidar_buffer) : s.num = n
         /\ \A s \in Range(lidar_buffer) : s.num <= n => last_timestamp_imu >= s.end)
        ~> (pc = "spin" /\ \A s \in Range(lidar_buffer) : s.num > n)
=============================================================================
